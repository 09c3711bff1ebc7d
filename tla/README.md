# A verification development for QCore

QCore (`src/`) is the client core of the Quantova chain: it derives keys, signs
transactions, and talks to a gateway it does not trust. This directory holds
TLA+ models of its stateful parts and of the checks, readers and writers between
them, the TLC runs that check them on small instances, and TLAPS proofs for every
value of the constants.

File and line numbers refer to `src/src/lib.rs` unless another file is named.

## 1. Inventory

| Component | State | Operations | Correct when |
|---|---|---|---|
| Signing session (`SigningSession`, 1054-1370) | `next`, `held`, `reserved` by key | `slot`, `release`, `signed`, `outcome`, `export_state`, `import_state` | one nonce carries one signature unless the caller names it |
| Signing calls (`mod client`, 2255-3229) | the shared session behind a mutex; the guards of each call | transfer, register, call, asset call, order calls, deploy | no reservation leaks; a rejected transaction is not signed past; order nonces are earned one by one |
| Session file (`bin/qcore.rs` 298-394) | `session.json`, `session.tmp` | load, save, the signed hook | a transaction leaves only after its nonce is on disk |
| Head guard (`validity`, 2626; `bounded_valid_until_for`, 464) | `heads` of the session | read the floor, check, note | deadlines follow the chain and never go back |
| Trusted rosters (2358-2577) | `trusted_roster` | trust, anchor, walk, evict | only the chain's rosters are trusted, and every later epoch stays reachable |
| Finality (`finality.rs`) | none | `verify_finality`, `verify_next_roster`, proofs under a header | only the chain's headers verify |
| Chain and genesis guard (1894-1986) | `pinned_chain` | `signing_chain_id`, `signing_genesis`, `guard_mainnet` | no signature for a chain that was not chosen |
| Address book (1069-1115) | `book`, `seen` | `remember_address`, `check_target` | no signature for a lookalike of a known address |
| Status and confirmation (2033-2253) | none of its own | `transaction`, `inclusion`, `confirm_call_event` | a status is never better than what was proved |
| Contract calls (`contract.rs`) | none | argument and order encoders, region checks | a contract finds every field where its layout says, and nothing else |
| Fees and meters (279-430) | none | comparisons, the deploy fee | no fee above what the caller allowed; the client's sums pass the signing functions |
| Gateway answers (983-1004, 1607-1689; `contract.rs` 758; `finality.rs` 473) | none | the readers of each answer | nothing is taken for a number, verdict or nonce that was not said |
| JSON (`json.rs`), HTTP (`http.rs`) | none | `parse`, `render`, `post`, `dechunk` | one reading of a text; a cut answer is no answer |
| Recovery phrases (1384-1605) | none | `mnemonic_from_seed`, `seed_from_mnemonic` | a phrase restores its seed or is refused |
| Other commands, examples | none that lasts | one call each | left out, see section 7 |

How they interact: every `Client` of a process drives its own calls and shares
one `SigningSession` through `shared_session()` (1734). A call asks the gateway
for `node_info`, checks the chain, computes a deadline (`validity`), asks for
the account nonce, and takes `slot` under the lock. `Reserved` (1743) is the
guard of that slot and frees it on every way out. It then signs, and
`submit_held` (2335) marks the nonces under the lock, calls the signed hook
without it, submits, and records the outcome under the lock again. The `qcore`
program restores the session from a file before a call, saves it in the hook and
once more after the call. `validity` proves the head against the trusted rosters
when there are any, and against the chain clock otherwise.

What is hard here: the lock is taken and released several times in one call, so
calls of different threads interleave between a check and its use; the gateway
may report anything, answer late or not at all; a submission without an answer
may have landed; the process may die between any two steps; the session may be
restored from an older save. PROJECT.json lists these hazards, line by line.

## 2. Modules

| Module | What it is |
|---|---|
| `SigningSession` | the record of one key and what each method does to it, as operators |
| `ClientSigning` | the signing calls: threads over the shared session |
| `NonceLedger` | the abstract ledger the calls implement |
| `QcoreCli` | runs of the `qcore` program that share the session file |
| `HeadGuard` | the head floor, the chain clock and the deadline |
| `Finality` | what is accepted as proof of a final header or of a next roster, as operators |
| `RosterStore` | the rosters a client trusts and the calls that use them |
| `ChainGuard` | which chain and which genesis a client signs for |
| `DurableSigning` | the same threads with a file that their hooks write and the next process restores |
| `AddressBook` | the addresses a session knows and the lookalikes it refuses, as operators |
| `Fees` | the checks of fees, meters and deadlines, as operators |
| `CallChecks` | one signing call of each kind, from its first check to the answer |
| `MerklePath` | Merkle paths and the positions they can stand for, as operators |
| `Confirmation` | statuses, inclusions and events asked of the gateway |
| `CallArguments` | the memory of a call's arguments and of an order, as operators |
| `JsonText` | the JSON reader and writer |
| `HttpResponse` | what is made of the bytes of a response |
| `RecoveryPhrase` | phrases and their checksums |
| `GatewayAnswers` | the readers of the objects a gateway answers with |
| `Positional` | numbers written digit by digit, as operators |
| `Asking` | the variables of a codec that is asked about one input |
| `ArgumentCodec`, `PhraseCodec`, `AnswerCodec`, `ResponseCodec` | `CallArguments`, `RecoveryPhrase`, `GatewayAnswers` and `HttpResponse`, asked and answering |
| `Codecs` | these four with `JsonText`, one input after another |
| `MCClientSigning`, `MCRosterStore`, `MCChainGuard`, `MCCallChecks`, `MCConfirmation`, `MCCodecs` | instances for TLC |
| `SigningSession_proofs`, `ClientSigning_proofs`, `QcoreCli_proofs`, `HeadGuard_proofs`, `RosterStore_proofs`, `ChainGuard_proofs`, `CallChecks_proofs`, `Reading_proofs` | lemmas and theorems, each about the module of its name (`ClientSigning_proofs` about `DurableSigning` too, `CallChecks_proofs` about `Fees` too, `Reading_proofs` about `MerklePath`, `Confirmation` and the codecs) |

`ClientSigning` and `QcoreCli` are built on `SigningSession`, `DurableSigning` on
`ClientSigning`, `RosterStore` on `Finality`, `CallChecks` on `AddressBook` and
`Fees`, `Confirmation` on `MerklePath`. `ClientSigning` implements `NonceLedger`
under the mapping `Ledger == INSTANCE NonceLedger WITH ...`, which maps the
histories of the calls to the ledger and forgets threads, locks and sessions.

Operators named as slips in their comment (`SlotGrantedOverReserved`,
`EvictOldest`, ...) are plausible mistakes in the code next to them. No
specification uses them: they are there to see that a property notices.

### SigningSession and ClientSigning

A session maps a key to `[next, held, reserved]`. `Untracked` (-1) is a missing
`next`; `held` says of each nonce whether there is no entry, an entry that was
not accepted ("pending") or an accepted one. `MaxNonce` stands for `u64::MAX`,
so that the saturating successor of `outcome` is part of the model.

The calls of `mod client` are one control flow with one or two slots:
transfer, register, the payable and asset calls and deploy take an account slot;
the order calls take an order slot first. Each action is mapped to one of the
calls it appears in. The steps of a thread are the critical sections of the
mutex and the stretches between them:

| pc | code | action |
|---|---|---|
| idle | up to the first slot | `Begin` |
| order | `order_nonce` | `ReserveOrder` |
| account | `checked_nonce` | `ReserveAccount` |
| sign | `sign_transfer`, `sign_call`, ... | `Sign`, or `StopEarly` on an error |
| signed | `submit_held`, first lock | `MarkSigned` |
| hook | `on_signed` | `HookSaves`, `HookFails` |
| submit | `submit`, second lock | `Answer`, `NoAnswer` |
| drop | `Drop for Reserved`, one lock for each guard | `Drop`, `Return` |

The gateway is `\E reported \in Nonces` at each slot and any outcome at each
submission. `sigs`, `named` and `landed` are histories: transactions signed at a
nonce (0, 1, or 2 for more), nonces granted to a call that named them, and
nonces with an accepted outcome. In the order calls the order itself is signed
before the account slot is taken, and dropped unseen when the call stops there;
`sigs` counts the transaction that carries it.

With `Keeps`, the caller may take the text of the session (`SaveSession`) and
restore it into the live session (`RestoreSession`) between any two critical
sections, so the text may be older than the session in every way. A text whose
list of heads does not parse is refused only after its next nonces were merged
(1299): that is `ImportedNext`, the second disjunct of `RestoreSession`.

### DurableSigning

`submit_held` makes the text it hands to the hook in one critical section and
calls the hook outside it (2347), so taking the text (`TakeText`), writing it
(`WriteText`) and sending the transaction (`Send`) are three actions. A hook may also fail,
before or after it wrote (`FailToWrite`), and then nothing is sent. `Restart` starts a
process from the file. `sent` counts transactions
that went out: a signature whose hook never ran dies with its process.

### QcoreCli

One key suffices, since a run signs at most one transaction. The session file
and its temp file have contents "absent", "torn" (opened with truncate and not
yet written, or two texts over each other) or a session; `fd` follows the inode
a run has open across the renames of another. `Dies` may come between any two
file operations. A run never names a nonce, as the program has no flag for it.
`CallFails` is a call that returns an error before it signs; what it leaves in memory is
saved all the same: nothing, what a refused `slot` pruned, or what a granted one raised
(`Unsigned`).
Death of the machine (a rename not yet on disk) is not modelled.

### HeadGuard

Time is counted from the genesis. `Tick` lets the chain grow up to the rate of
the clock. `TrustRoster` turns a client into one that verifies: it then goes on only
with a head the chain has reached (that is what `RosterStore` establishes); the
others take any head. Reading the floor and noting the head are two steps since
they are two locks, and so are the snapshot of the hook and its write. A client that is
not in `Hooked` submits without writing. Five histories serve the properties: `latest`
is the latest deadline submitted and `due` what it was when a call read the floor;
`raced` says that two calls have overlapped, `unsaved` that a client without a hook has
submitted since the last save, and `lost` that a process died after either. The wall
clock is not set back in the model; `Since` is the saturating difference, needed
when another thread noted a head at a later time.

### Finality and RosterStore

Hashes are taken as collision free, so a header is the record of what it binds,
and a state proof of a roster is the equality with `header.commits`. Signatures
are external: an attestation verifies when the owner of the key made it, that
is, when the key is faulty or the vote is in `HonestVotes`. The sortition proofs
are external and always given. Sizes (`MAX_ROSTER`, `MAX_ATTESTATIONS`) are left
out, and a roster is a set of members.

`RosterStore` has one call in progress, since a `Client` is not shared between
threads. `verify_head` anchors before it asks for the certified header, the
account and inclusion proofs after; both then walk from the last kept roster
at or before the header's epoch. A refused answer, a lost one and an error end
the call and leave what earlier turns of the loop inserted.

Nothing in this repository enforces what the chain's consensus promises, so
`RosterStore` states it of its constants, where TLC evaluates it and the proofs use
it: the block that seals an epoch commits the next roster (`CommitAssumption`); in no
view does a quorum of an epoch stand behind a header that is not the chain's
(`ConsensusAssumption`); and a roster names each validator once, some of them active, and
every sealing block before the last epoch has a certificate that a quorum made in one view
(`SealedAssumption`). They are said in sets of validators and stake, not with the
operators of `Finality`, so that a mistake there is not assumed away.

### ChainGuard

`network` and `acknowledged` are what a client was opened with, `pinned` is
`pinned_chain`, `trusted` the genesis of `trusted_roster`. A call runs through
`Begin` (`guard_mainnet`, `signing_chain_id`), `CheckGenesis`, `Anchor` and
`VerifyHead` or `TrustHead` (`validity`), and `Sign`, which checks the genesis again
as every call does. A certificate binds the chain id and the genesis, so a head
verifies when the pair is in `RealNetworks`. The height of the head and the clock
are left to `HeadGuard`; `Fail` stands for every refusal of theirs.
`is_mainnet_info` also knows mainnet by its genesis hash, but
`MAINNET_GENESIS_HASH` is `None` in this commit, so the name decides.

### AddressBook, Fees and CallChecks

`seen` is the bounded list, oldest first, and a call has at most two targets; `Edges` says which addresses share their
edges, a relation that is symmetric but not transitive. Amounts in `Fees` saturate at
`Cap`, as `u128` does, and divisions round down.

Each of the eight signing calls is an entry action of `CallChecks`; they differ in
the targets they vet, in whether they pay the deploy fee and in the signing
function at the end. In between they share `TakeQuote` (`node_info`, `deploy_fee_of`,
`fee_within`), `Reserve` (chain, head and nonces, which other modules model, pass)
and `Sign`, which may refuse and drop the reservation. `Fail` is any error on the
way. `kept` is the history of what was used and not dropped from the list since.

### MerklePath and Confirmation

`MerklePath` writes a path as the sides taken from the root down. The tree of the
chain (`qtv_block`, external) splits at the largest power of two below the number
of leaves, as the test at 3630 and the shape of `index_fits_path` show.

`Confirmation` takes a proved header to be the chain's, which `RosterStore` shows,
and a block to be its transactions and events; a transaction is in one block at
most (`ChainAssumption`). The gateway names any chain,
height, position, path, list and leaf. `honest` marks a call that is answered
truthfully at every step and in time. "pending" stands for `Pending` and `Unknown`
alike. `confirm_transaction` is the kind "settled" with a supplied roster in place
of the trusted one; "given" is `confirm_inclusion` with a roster of one epoch.

### Codecs

The readers and writers keep no state, so a behaviour of `Codecs` asks one of them
about one input; the MC module gives the inputs. A memory is a sequence of cells, eight
bytes each, that hold numbers below `Radix`, so a wide value has two and an address
`AddressWidth`; offsets within a cell are abstracted. The texts of typed values
(`TypedField`) are numbers or hex: `HasWidth` tells which of them a width takes. A JSON text is a
sequence of tokens: punctuation, characters, escapes (surrogate halves included) and
digits; numbers are bounded by `MaxWhole` as `u64` bounds them. A response is cut
after any token or not closed in time; what is left of its body is given to the reader
(`JsonReadsBack`). A phrase is a list of word indices with a spelling;
the digests are given constants. The readers of `GatewayAnswers` return a set: what they
read, or nothing. `Says` is what an honest gateway answers, written from what the readers
expect; `IsReply` is what any gateway may answer: entries that are missing or of any type.

A list of spans is not sorted: `RightBefore` names each span and the next by offset,
equal offsets in the order of the list, as `sort_by_key` and `windows(2)` pair them.
The memory is stated cell by cell, each with what was put there last (`Writers`).

Each of the four codecs that are proved about has a specification of its own, in
which any step that asks another codec is allowed (`AnotherIsAsked`). A step of `Codecs`
is a step of each of them, so its behaviours are theirs.

## 3. Runs

| Run | Instance | Shows |
|---|---|---|
| `accounts` | 2 threads, one with a hook, one account, nonces 0..1, saves and restores | the nonce properties under every interleaving; every reservation is freed |
| `orders` | 2 threads, an order key and an account key, nonces 0..2 | earned order nonces, rejected transactions, the inductive invariant, the ledger |
| `reserved_while_signing` | 2 threads | finding 1 |
| `cli_sequential` | one run after another, nonces 0..3 | write ahead of the session file |
| `cli_concurrent` | two runs at once | finding 2 |
| `hook_order` | two threads with a hook, one file, one nonce | finding 3 |
| `heads` | 2 threads, one with a hook, heads 0..3, walls 0..2 | rising deadlines, also of calls that overlap, the clock bound, a lie moves nothing |
| `rosters` | 3 epochs of 2 blocks, 4 validators, 2 rosters kept | only the chain's rosters and headers |
| `chains` | 5 chain names, 3 genesis hashes, 9 kinds of network | signatures name the chosen chain and genesis |
| `calls` | 5 addresses, 2 remembered, 9 quotes, all kinds of call | lookalikes are refused, fees are what was allowed and what the signing function accepts |
| `codecs` | memories of 13 cells, JSON of depth 2, responses of 24 tokens, phrases of 3 words, 7 kinds of answer | what is accepted reads back, and only that |
| `confirmations` | 3 blocks, 7 transactions, 3 events; indices of 5 bits | only the truth is confirmed, and always; `index_fits_path` is exact |

Why the bounds are enough. Three nonces in `orders` give a key that is untracked, one
that is used, one at its limit and a report that goes back or skips one; with the
saved text beside it, `accounts` has two, which still has each of these but the
skip; two threads
compete for one of them, each after calls of either have landed, failed or been
rejected, and the theorems of section 5 take the number of threads to any. The
order run needs nonces 0, 1 and 2 for an order nonce that skips one. Its
constraint `AccountsUnnamed` keeps account nonces unnamed there, which the
account runs cover; without it the histories of two keys multiply. The histories
saturate (2 signatures) so the state space is finite without other bounds.
`cli_sequential` lets a run start again any number of times. In `heads` the
largest report is one above `MaxHead` and within the clock, so both limits are met
from both sides; as one client has a hook and the other has not, the run has no
symmetry. In `rosters` the second roster has a member too many,
the third one with too little stake, the gateway offers a roster that names a
validator twice, and two kept rosters of three make every longer walk evict; at
each height a fork has honest votes in two different views.

`chains` has the networks of the library (`testnet`, `mainnet`, `for_url`) and
those a caller can build: mainnet with its pins set, mainnet by name only, a
pinned private chain and a retired name; two private chains share a genesis and
one has two. `calls` has two addresses that look like a third but not like each
other, so a call may meet a lookalike that is remembered, in the book, dropped or its
own sender; its quotes are the corners of `deploy_fee_of` (rounding, the band from both
sides, a product that saturates, a fee that rounds to nothing). `codecs` places fields
at every offset up to the width, writes every JSON value up to depth two and reads every
text one token away from one, cuts a response at every token, reads every phrase of up to
one word too many in two spellings, and takes honest answers and those with two
entries missing or odd.
`confirmations` has all indices of 5 bits and paths
one step longer than any tree of that width, which is where `depth >= 64`
matters in the code. In `confirmations` one block has an uneven tree, another
transaction's event of the same kind comes first, and one call emits nothing.

`cli_concurrent` has CHECK_DEADLOCK FALSE: two runs may tear the file, after
which no run can load it and the system stops.

Fairness. `FairSpec` is weak fairness of every step of a call that has begun, and
of nothing else: no call must begin. It is justified because the lock is never
held across a request or the hook (2335-2356, 2643, 2652) and the transport
bounds every request in time (`http.rs`), so a call that has begun goes on.

## 4. Findings

1. `reserved_while_signing`: two calls that name the same nonce share one
   reservation, and the first to stop frees it for both, against README.md:64
   ("A signing reserves its nonce until the transaction is signed, and a signing
   that stops early frees only the nonce it reserved").
2. `cli_concurrent`: two runs of `qcore` at the same time load the same session
   file and submit at one nonce, against the usage text and README.md:64.
3. `hook_order`: of two threads with a hook, the one that took its text first can
   write it last; the file then lacks the nonce of the other, and the process that
   restores it sends a second transaction there, against README.md:64.

Two limits of what the checks show, which no run states as a property. The list of
remembered addresses drops the oldest at its limit (1096), and
`LookalikesRefused` leaves out what was dropped; README.md:60 does not mention
the limit. And a path does not tell how many transactions a block has: the last one
of an uneven tree is confirmed at any position its path allows, as the gateway
chooses, while README.md:68 says the position is checked against the block.

What `DeadlinesRise` does not say: two threads in `validity` may note their heads in the
order opposite to that of their checks (2643, 2652), so of two calls that overlap the one
that submits last may have the lower deadline. No call goes below a deadline that was
submitted before it read the floor; and this is said across a restart only of processes
in which calls did not overlap, since the older of two snapshots may be written last, and
in which every client without a hook was followed by a save (`lost`).

## 5. Proofs

Every theorem holds for all values of the constants that the named assumptions of its
module allow; each assumption says what kind of values the constants are, unless this
section says otherwise. Where a property is not inductive the strengthening is a
definition of the proof module; TLC was asked about it on the run's instance before it
was proved.

### Signing calls

`SigningSession_proofs` has the lemmas on the methods: their types, that `slot`
keeps a closed nonce closed unless it is named, and what it grants.
`ClientSigning_proofs` proves for any threads, keys, hooks and `MaxNonce`:

| Theorem | States |
|---|---|
| `TypeCorrect` | `Spec => []TypeOK` |
| `SigningInvariant` | `Spec => []SigningInv` |
| `OneSignature` | no unnamed nonce carries two signatures |
| `OrdersEarned` | unnamed order nonces are 0 or follow an accepted one |
| `NoLeakedReservation` | every reservation belongs to a guard |
| `HoldsForgottenSafely` | a held signature is forgotten only when passed or named |
| `SignedIsSettled` | `Spec => []SettledInv` |
| `RejectedNotPassed` | an unnamed slot never lies above a rejected transaction |
| `ImplementsLedger` | `Spec => LedgerSpec` |
| `DurableInvariant` | `DurableSpec /\ []HooksInTurn => []DurableInv`, if every client has a hook |
| `HooksInTurnSendOnce` | with the file, nothing is sent twice at an unnamed nonce, if every client has a hook and no two of them overlap |

They rest on `MaxNonceAssumption`, `KeysAssumption` (no key is both an account
and an order key: the one has one separator, the other two) and
`HookedAssumption`, nothing else.

The argument. That a nonce is signed once is not inductive: at the moment of
`Sign` one must know that the nonce was still unsigned when it was reserved and
has been ever since. `SigningInv` adds what is missing. A nonce nobody named has
at most one guard (`GuardsAreExclusive`), because `slot` grants it only when it is
not reserved, and it stays reserved until its transaction is marked, when it
becomes closed: held, or below `next`. A signed nonce is closed, or a thread is
about to mark it (`SignedIsRemembered`); so an unnamed `slot` never grants a signed
nonce, since it refuses closed ones. Pruning `held` keeps a nonce closed because
accepted entries lie below `next` (`AcceptedIsPassed`), with the largest nonce as
the exception the saturating successor makes. `OrdersAreEarned` carries the same
through `next` of the order keys. The ledger refinement follows from the
invariant: `Sign` is a `SignAt`, a granted named slot a `NameNonce`, an accepted
answer a `LandAt`, everything else a stutter.

`RejectedIsNotPassed` is about steps, and needs to know where every signed nonce has
gone: `SettledInv` says it is held as pending, was accepted, lies at or below a named
nonce, or belongs to a thread that has not marked it yet. What moves a nonce between
these is the outcome of a submission, the pruning of `slot` and the merging of an
older text; each is a lemma (`ReserveKeepsSettled`, `AnswerKeepsSettled`, ...). A `slot` without a name refuses to
pass a pending entry, so the first case is excluded below what it grants.

The last two are about `DurableSigning`, where finding 3 shows that `SentOnce` fails when
one hook takes its text before and writes it after another. `HooksInTurn` says that
this does not happen; with `Hooked = Threads`, as a call without a hook sends what no file
has, it is all that is asked: threads, calls and restarts interleave
as they like otherwise. `DurableInv` says that what was sent is on the file, what is on
the file is closed in the session, and a text on its way to the file closes all of the
file and the nonces of its own transaction; so writing it loses nothing, and a
process that restores the file refuses every nonce that was sent. Signatures that died
with their process are forgotten by design, so it speaks of `sent` where `SigningInv`
speaks of `sigs`. A caller who gives its hooks a lock of their own around the whole call
of the hook does not get `HooksInTurn` by it, since the text is made before the call (2347).

### Session file

`QcoreCli_proofs` proves for any runs and `MaxNonce`:

| Theorem | States | When |
|---|---|---|
| `TypeCorrect` | the runs and the two files are well typed; a run that writes has a file open | always |
| `CliInvariant` | `Spec => []CliInv` | one run alive at a time |
| `NoSecondSubmission` | no nonce is submitted twice | one run alive at a time |
| `WrittenAhead` | what was submitted is on the session file | one run alive at a time |
| `FileRemembers` | no step tears the file or makes it forget a nonce | one run alive at a time |

The condition is `MaxAlive <= 1`, a hypothesis of the theorems and not of the module:
with two runs the properties fail, which is finding 2. It is the use the program is
written for, and any number of runs may follow one another, each dying at any step.

`CliInv` says that the file is absent or whole, that every submitted nonce is on it once,
that a run in progress closes every nonce the file closes (it loaded it, and what it
signed since only adds to it), that a signature on its way out was never submitted and
is on file before it is, and that the temp file is the writer's own: empty when it is
written, and the run's whole session when it is renamed. The last is what makes the
rename the only step that changes the file, from one whole session to one that closes
at least as much (`OutcomeKeepsClosed`, `ImportedCloses` of `SigningSession_proofs`).

### Head guard

`HeadGuard_proofs` proves for any threads, rate, slack, validity and bounds:

| Theorem | States |
|---|---|
| `TypeCorrect` | the state is well typed, and a head that passed the check is plausible |
| `ClockInvariant` | `Spec => []ClockInv` |
| `FloorHolds` | no reports lift the floor above what the clock allowed |
| `DeadlinesFollowTheChain` | a verifying client signs no deadline beyond the chain's head and a validity |
| `ProvenInvariant` | `Spec => []ProvenInv` |
| `TipAccepted` | the true head is acceptable while only proved heads were noted |
| `OrderInvariant` | `Spec => []OrderInv` |
| `DeadlinesNeverGoBack` | no call submits a deadline below one submitted before it read the floor |

They rest on `BlocksAssumption`. The floor lives in four places: in memory, in the
saved session, in the snapshot a hook is about to write, and in the report of a call
past its check. Each invariant says of all four what the property says of one.
`ClockInv` bounds them by the clock at the time they carry, for a verified head because
the chain itself grows no faster than the clock. `ProvenInv` bounds them by the chain
while no unproved head was noted. `OrderInv` orders them. In memory this needs no
condition but that nothing was lost: the floor never falls and covers every deadline
submitted, so a head that passed the check covers what was submitted before the floor was
read, whoever noted heads since. For the saved floor it is conditional: while no two calls
overlapped a snapshot is the newest there is, and what is submitted is on file unless the
client had no hook and no save has followed (`unsaved`).

### Trusted rosters

`RosterStore_proofs` proves for any epochs, rosters, headers, certificates, votes and
faulty validators:

| Theorem | States |
|---|---|
| `StoreInvariant` | `Spec => []StoreInv` |
| `RostersAreReal` | only the chain's rosters are trusted |
| `FinalHeadersAreReal` | a header found final is the chain's |
| `HonestNeverRefused` | an honest answer passes every turn of the walk |
| `AnchorInvariant` | `Spec => []AnchorInv` |
| `AnchorStays` | the anchor is never evicted and the limit is kept |

They rest on `RosterAssumption`, `EpochLengthAssumption`, `CommitAssumption` and
`ConsensusAssumption`, the fourth theorem on `SealedAssumption` too. The
consensus speaks of sets of validators and their stake; `verify_finality` counts
attestations, refuses repeated ones and holds all to the view of the first. `FinalIsReal`
shows that their signers are a set of active validators that all stand behind the header
in one view, so that a certificate under a chain roster names the chain's header of that
height. The state of a sealing block commits the next roster (`NextRosterIsReal`), and
the walk goes on from there. `CertifiedIsFinal` is the other direction: a certificate
that such a set makes is accepted.
`AnchorInv` says that the anchor is the least epoch kept and a walk is above it, so
that of more rosters than the limit the one to go is never the anchor.

### Chain and genesis guard

`ChainGuard_proofs` proves for any chains, genesis hashes and networks:

| Theorem | States |
|---|---|
| `TypeCorrect` | `Spec => []TypeOK` |
| `GuardInvariant` | `Spec => []GuardInv` |
| `SignsForOneChain` | all signatures of a client name one chain |
| `TrustBinds` | a trusted roster binds the genesis and the chain of every signature |
| `PublicSignaturesProven` | public chains need their pinned genesis and a proved head |
| `MainnetAcknowledged` | nothing is signed for mainnet without acknowledgement |

They rest on `ChainsAssumption`, which only says what kind of values the constants
are and that mainnets are public. The properties speak of signatures alone;
`GuardInv` adds what the call in progress has established: its chain is the
configured or pinned one (`Chosen`), and from the step "sign" on its head is
`Proven` for the roster that is trusted. It is inductive because a pinned chain is
never replaced and `trusted` changes only between calls, or from none to the pinned
genesis before the head is proved.

### Fees, address book and signing calls

`CallChecks_proofs` proves for any addresses, edges, prices, widths and limits:

| Theorem | States |
|---|---|
| `DeployFeesAgree` | a quote that `deploy_fee_of` accepts gives a fee that the signing function admits, while the products are in range |
| `DefaultDeadlineIsSignable` | the deadline `validity` computes passes `check_valid_until` |
| `CallInvariant` | `Spec => []CallInv` |
| `TypeCorrect` | `Spec => []TypeOK`: the list is within its limit and has no address twice |
| `ListIsTheHistory` | the client knows what was used and not dropped, and nothing else |
| `SignedCallsArePriced` | what is signed pays what was quoted and allowed |
| `ReservedIsSignable` | what the client agreed to pay is not refused when it is signed |
| `NoLookalikeIsSigned` | no lookalike of a known address is signed for |

They rest on `AddressAssumption`, `FeeAssumption`, `MeterAssumption`,
`DeadlineAssumption` and `CallAssumption`. The client checks that the network fee lies
between two quotients, rounded down, and
that the deploy fee is a third; the signing function, which has no rate, checks the
deploy fee against multiples of the network fee. `DeployFeeBounds` carries the one
to the other: it rests on the bands dividing the price, which is why `FeeAssumption`
says so. `SignedIsPriced` turns a rounded quotient back into two bounds on a product.
`CallInv` keeps what each check found until the signature: the targets of a call that
is not signed yet look like nothing known (`Vetted`), and its fee is the quote's
(`Agreed`); `Vetted` is inductive because the list does not change before the
signature. `LookalikesRefused` then follows from `Vetted` and the list being
the history, for every target that was not already known.

### Status and confirmation

`Reading_proofs` proves for any width of an index, chain, networks, transactions,
events and positions:

| Theorem | States |
|---|---|
| `PositionsAreExact` | `index_fits_path` accepts for a path exactly the positions at which some tree has a leaf with it |
| `CallInvariant` | `Spec => []CallInv` |
| `ReportsAreProved` | a status is never better than what was proved |
| `EventsAreProved` | an event is confirmed only if this transaction emitted it |
| `SearchInvariant` | `Spec => []SearchInv` |
| `TruthIsBelieved` | a truthful gateway is believed |

The first rests on `BitsAssumption` alone, the others on `ChainAssumption`. `CallInv` says that a call in progress has no result and
looks for events only in a block its transaction is in. For the last theorem `SearchInv`
adds that the list of a truthful gateway is the block's and that no event passed so far
confirms the call, so the search cannot run past the one that does.

`PositionsAreExact` is about `PathOf`, which is defined by recursion on the number of
leaves, so it needs induction. The library's induction theorems take an operator as a
parameter and cannot be applied here; `StepInduction`, `StrongInduction` and
`StrongRecursion` say the same of sets and functions, and follow from `WFMin` and the
order of the naturals. Both sides of the equality are then compared with one description,
`Shape`: `Turn` full subtrees are passed on the right, of powers of two that fall from
step to step, then comes a full subtree in which the remaining sides are the low bits of
the position. `LeavesHaveShape` and `ShapesAreLeaves` show by strong induction that this
describes the leaves of trees (`PerfectPaths` is the case of a full one), `FitsHasShape`
and `PositionsAgree` that it is what the masks and counted bits of `index_fits_path` test.

### Arguments, phrases, answers and responses

`Reading_proofs` proves of the codecs, with the same inductions over numbers:

| Theorem | States |
|---|---|
| `CallsReadBack` | `ArgumentSpec => []ArgumentsReadBack`, for any layout and number of fields |
| `CallsAreAdmitted` | `ArgumentSpec => []ArgumentsAdmitted`: what can be laid is built, nothing else |
| `PhrasesRestore` | `PhraseSpec => []PhrasesReadBack`, for any lengths and any digest |
| `ClientReadsWhatIsSaid` | `AnswerSpec => []ReadingsAreReported`, for any base, widths and answers |
| `AnswersAreTakenWhole` | `ResponseSpec => []AnswersAreWhole`, for any bodies and limit, cut anywhere |

The first two rest on `MemoryAssumption` and `ArgumentAssumption`. The code compares
each span with the next by offset; the property speaks of every two. `NextSpan` shows
that a span followed by others has a next one, no further away than any of them; so a span
that ends before its next ends before all that follow, and `ApartIsDisjoint` has the
comparisons come to the same. Then every cell has one writer at most (`WrittenIsFound`),
so the order of writing is of no matter and each value is where it was put, also the
message behind the pointer.

`PhrasesRestore` rests on `PhraseAssumption`. `BitsOfFromBits` and `FromBitsOfBits`
are the induction: the bits of a number below a power of two and the number of those
bits are each other's. So the words that bits are cut into enter those bits
(`BitsOfWords`), and words in the list are those of the bits they enter; the bits are a
seed with its checksum exactly if the checksum holds.

`ClientReadsWhatIsSaid` rests on `AnswerAssumption`, that digits count what they count
and the widths of numbers are nested, and on `RepliesAssumption`, that an answer is an
object or a list of entries and that what an honest gateway means is what it says. A
text of digits without a leading zero is the one text of its number and that number's
text reads as it (`DecimalReads`, `CanonicalIsDecimal`, by strong induction),
so a reader of a number knows what was written. Each reader of an object is then put
together of the readers of its fields: one value at most, said there, and of an honest
object what was meant; the lists are read item by item, all or nothing.

`AnswersAreTakenWhole` rests on `ResponseAssumption` and `BodiesAssumption`, that a body
is a sequence of at least two pieces, none of which is a token of the framing. `LengthFramed`,
`CloseFramed` and `ChunkedFramed` say what stands at each place of a response, and
`LengthCut`, `CloseCut` and `ChunkedCut` what `ParseResponse` makes of its first tokens:
the head ends at the first empty line, a body is held to its length, and of two chunks
each is taken when the line end behind it has arrived (`ChunkIsRead`). `DechunkRec` shows
that `DechunkFrom` is the function its definition describes, each value given by one further
on. The response is whole for `ChunkedCut` before its last line end, as in the code, which
stops reading at the size of the last chunk.

### Only model-checked

- `ReservationsAreFreed`: liveness under fairness is out of the prover's reach.
- `JsonReadsBack`: `Parse` and `Render`, which it speaks of, are RECURSIVE operators,
  which the prover cannot be asked about. It also says that a cut object is refused.
- The three properties of the findings, which do not hold; `SentOnce` and those of the
  session file are proved where they do.

## 6. Plan

Done: the modules above, and a theorem for every property of a passing run that is within
the prover's reach. Next:

1. `CallChecks` with two calls in progress, to state what is known of two targets that
   look alike.
2. The decoding of account and inclusion proofs, beside `GatewayAnswers`.

## 7. Not modelled, and why

- `release_pending` (no code of the repository calls it).
- Two threads between `vet_target` and the signature: `CallChecks` has one call in
  progress. The list of two threads is the union of what each has used, but two
  calls in progress may vet lookalikes of each other before either remembers its
  target, as may two targets of one call (1931).
- Transaction bytes, signatures, key derivation and hashes: they come from the qtv
  crates, whose source is not here, or are tables (`nfkd.txt`, `english.txt`).
- The edges of `deploy_fee_of`: where a product saturates or five dollars come to
  nothing, and for an order sent to the deploy address, which pays the flat fee only,
  the client accepts what the signing function then refuses. Nothing is signed;
  `QuotedIsSignable` names these cases and leaves them out.
- `TypeOK`, `OneSignaturePerUnnamedNonce`, `ReservationHasOwner` and the two temporal
  properties beside them run with account keys alone, and `SigningInv`,
  `OrderNoncesAreEarned` and the ledger without hooks and restores: with all of them at
  once the states are too many. The theorems have both, for any keys.
- The lock of the session: each critical section is one step, and no path of the code
  takes the lock while it holds it.
- An order's expiry is checked when the call begins, and not again when it is signed.
- A body without a length or chunks ends with its connection (`http.rs` 141): that it
  was cut shows only because no JSON object is a prefix of another. `AnswersAreWhole`
  says that what is taken is a prefix, and `JsonReadsBack` that the reader refuses it, for
  objects, which is what a gateway answers with.
- The decoding of certificates and of account, inclusion and event proofs, the framing
  of deploy parameters, slot keys and asset symbols: conversions with no state.
- The loss of power between a rename and the sync of its directory (`qcore.rs` 365).
- The commands of `qcore` that do not sign; examples, tests and the workflow.

PROJECT.json says for each hazard that no property covers why that is so.
