------------------------------ MODULE HeadGuard ------------------------------
(* How a signing call bounds the deadline of its transaction by the chain    *)
(* head (validity in src/src/lib.rs), for one chain: the floor the shared    *)
(* session keeps of the heads it has seen, the chain clock, and the saved    *)
(* session a later process starts from.  validity takes the session lock     *)
(* twice, once to read the floor and once to note the head, so those are two *)
(* steps.  Time is in seconds since the chain's genesis.                     *)
EXTENDS Integers

CONSTANTS Threads,     \* threads, one Client each
          Hooked,      \* threads whose client has a signed hook
          Rate,        \* blocks_per_sec of the chain clock
          Slack,       \* HEAD_SLACK_BLOCKS
          Validity,    \* DEFAULT_VALIDITY_BLOCKS
          MaxHead,     \* MAX_PLAUSIBLE_HEAD
          MaxWall      \* bound: the wall clock stops there

ASSUME HookedAssumption == Hooked \subseteq Threads
ASSUME BlocksAssumption ==
  /\ Rate \in Nat \ {0} /\ Slack \in Nat /\ Validity \in Nat \ {0}
  /\ MaxHead \in Nat /\ MaxWall \in Nat

Reports == 0 .. MaxHead + 1
Walls   == 0 .. MaxWall
NoHead  == [height |-> -1, at |-> 0]    \* no entry in heads
Heads   == [height : Reports, at : Walls] \cup {NoHead}

VARIABLES wall,      \* the wall clock
          chain,     \* the height the chain has reached
          head,      \* heads of the shared session
          saved,     \* heads of the saved session
          verifying, \* the threads whose client holds a trusted roster
          pc,
          reported,  \* each thread: the head in its NodeInfo
          read,      \* each thread: the wall clock it read
          snap,      \* each thread: the session its hook was given
          latest,    \* history: the latest deadline submitted
          due,       \* history: each thread: latest when it read the floor
          raced,     \* history: two calls have overlapped
          unsaved,   \* history: no save since a client without a hook submitted
          lost,      \* history: a process has died raced or unsaved
          unproven   \* history: a client without a roster has noted a head

vars == <<wall, chain, head, saved, verifying, pc, reported, read, snap, latest, due,
          raced, unsaved, lost, unproven>>
world == <<wall, chain>>
own == <<reported, read, snap, due>>
history == <<latest, raced, unsaved, lost, unproven>>

\* "floor": has a head, about to read the floor.  "note": the head passed.
\* "sign": has its deadline.  "hook": the hook has its snapshot to write.
PCs == {"idle", "floor", "note", "sign", "hook", "submit"}

TypeOK ==
  /\ wall \in Walls /\ chain \in 0 .. MaxWall * Rate
  /\ head \in Heads /\ saved \in Heads
  /\ verifying \subseteq Threads
  /\ pc \in [Threads -> PCs]
  /\ reported \in [Threads -> Reports]
  /\ read \in [Threads -> Walls]
  /\ snap \in [Threads -> Heads]
  /\ latest \in 0 .. MaxHead + Validity
  /\ due \in [Threads -> 0 .. MaxHead + Validity]
  /\ raced \in BOOLEAN /\ unsaved \in BOOLEAN /\ lost \in BOOLEAN /\ unproven \in BOOLEAN

Init ==
  /\ wall = 0 /\ chain = 0
  /\ head = NoHead /\ saved = NoHead
  /\ verifying = {}
  /\ pc = [t \in Threads |-> "idle"]
  /\ reported = [t \in Threads |-> 0]
  /\ read = [t \in Threads |-> 0]
  /\ snap = [t \in Threads |-> NoHead]
  /\ latest = 0 /\ due = [t \in Threads |-> 0]
  /\ raced = FALSE
  /\ unsaved = FALSE /\ lost = FALSE /\ unproven = FALSE

Goto(t, l) == pc' = [pc EXCEPT ![t] = l]

\* A thread that leaves its call forgets what it read.
Leave(t) ==
  /\ Goto(t, "idle")
  /\ reported' = [reported EXCEPT ![t] = 0]
  /\ read' = [read EXCEPT ![t] = 0]
  /\ snap' = [snap EXCEPT ![t] = NoHead]
  /\ due' = [due EXCEPT ![t] = 0]

-----------------------------------------------------------------------------
\* u64::saturating_sub
Since(later, earlier) == IF later < earlier THEN 0 ELSE later - earlier

\* ChainClock::head_ceiling
HeadCeiling(now) == now * Rate + Slack

\* A slip: a verified head is held to the chain clock as well.
WithinClockAlways(verified, height, now, floor) ==
  /\ height <= HeadCeiling(now)
  /\ floor # NoHead => height <= floor.height + Since(now, floor.at) * Rate + Slack

\* A slip: the first head is taken as it is.
WithinLeap(verified, height, now, floor) ==
  verified \/ (floor # NoHead => height <= floor.height + Since(now, floor.at) * Rate + Slack)

\* An unverified head is bounded by the time since genesis and since the floor.
WithinClock(verified, height, now, floor) ==
  verified \/
    /\ height <= HeadCeiling(now)
    /\ floor # NoHead => height <= floor.height + Since(now, floor.at) * Rate + Slack

\* bounded_valid_until_for answers with a deadline.
BoundedValidUntil(verified, height, now, floor) ==
  /\ height <= MaxHead
  /\ WithinClock(verified, height, now, floor)
  /\ height >= floor.height

\* A slip: the head is not compared again under the second lock.
NotedAsChecked(h, height, now) == [height |-> height, at |-> now]

\* note_head: the first head, then only a higher one.
Noted(h, height, now) ==
  IF height > h.height THEN [height |-> height, at |-> now] ELSE h

ExportedHeads(h) == h

\* import_state notes the saved head.
ImportedHeads(mem, h) == IF h = NoHead THEN mem ELSE Noted(mem, h.height, h.at)

-----------------------------------------------------------------------------
\* Time passes and the chain grows, never faster than its rate since genesis.
Tick ==
  /\ wall < MaxWall
  /\ wall' = wall + 1
  /\ chain' \in chain .. wall' * Rate
  /\ UNCHANGED <<head, saved, verifying, pc, own, history>>

\* trust_roster, or a pinned roster anchored, between two calls of a client.
TrustRoster(t) ==
  /\ pc[t] = "idle" /\ t \notin verifying
  /\ verifying' = verifying \cup {t}
  /\ UNCHANGED <<world, head, saved, pc, own, history>>

\* A slip: what verify_head says is not asked for.
ReportUnverified(t, height) ==
  /\ pc[t] = "idle"
  /\ reported' = [reported EXCEPT ![t] = height]
  /\ read' = [read EXCEPT ![t] = wall]
  /\ Goto(t, "floor")
  /\ raced' = (raced \/ \E u \in Threads : pc[u] # "idle")
  /\ UNCHANGED <<world, head, saved, verifying, snap, due, latest, unsaved, lost, unproven>>

\* node_info and verify_head: the gateway reports any head; a verifying
\* client goes on only with one the chain has finalized.
Report(t, height) ==
  /\ pc[t] = "idle"
  /\ t \in verifying => height <= chain
  /\ reported' = [reported EXCEPT ![t] = height]
  /\ read' = [read EXCEPT ![t] = wall]
  /\ Goto(t, "floor")
  /\ raced' = (raced \/ \E u \in Threads : pc[u] # "idle")
  /\ UNCHANGED <<world, head, saved, verifying, snap, due, latest, unsaved, lost, unproven>>

\* head_floor under the lock, and the check against what it returned.
CheckFloor(t) ==
  /\ pc[t] = "floor"
  /\ IF BoundedValidUntil(t \in verifying, reported[t], read[t], head)
     THEN Goto(t, "note") /\ due' = [due EXCEPT ![t] = latest] /\ UNCHANGED <<reported, read, snap>>
     ELSE Leave(t)
  /\ UNCHANGED <<world, head, saved, verifying, history>>

\* note_head under the lock, taken anew.
NoteHead(t) ==
  /\ pc[t] = "note"
  /\ head' = Noted(head, reported[t], read[t])
  /\ Goto(t, "sign")
  /\ unproven' = (unproven \/ t \notin verifying)
  /\ UNCHANGED <<world, saved, verifying, own, latest, raced, unsaved, lost>>

\* The transaction is signed; a hook is called with the session.
Sign(t) ==
  /\ pc[t] = "sign"
  /\ IF t \in Hooked
     THEN snap' = [snap EXCEPT ![t] = ExportedHeads(head)] /\ Goto(t, "hook")
     ELSE snap' = snap /\ Goto(t, "submit")
  /\ UNCHANGED <<world, head, saved, verifying, reported, read, due, history>>

\* The hook writes what it was given.
HookWrites(t) ==
  /\ pc[t] = "hook"
  /\ saved' = snap[t]
  /\ unsaved' = FALSE
  /\ Goto(t, "submit")
  /\ UNCHANGED <<world, head, verifying, own, latest, raced, lost, unproven>>

\* The deadline that the call of a thread signs.
Deadline(t) == reported[t] + Validity

Submit(t) ==
  /\ pc[t] = "submit"
  /\ latest' = IF Deadline(t) > latest THEN Deadline(t) ELSE latest
  /\ unsaved' = (unsaved \/ t \notin Hooked)
  /\ Leave(t)
  /\ UNCHANGED <<world, head, saved, verifying, raced, lost, unproven>>

\* A call that fails before it submits; the head it noted stays noted.
Fail(t) ==
  /\ pc[t] \in {"sign", "hook"}
  /\ Leave(t)
  /\ UNCHANGED <<world, head, saved, verifying, history>>

\* save_session and restore_session, called by the program between two calls.
SaveSession ==
  /\ \E t \in Threads : pc[t] = "idle"
  /\ saved' = ExportedHeads(head)
  /\ unsaved' = FALSE
  /\ UNCHANGED <<world, head, verifying, pc, own, latest, raced, lost, unproven>>

RestoreSession ==
  /\ \E t \in Threads : pc[t] = "idle"
  /\ head' = ImportedHeads(head, saved)
  /\ UNCHANGED <<world, saved, verifying, pc, own, history>>

\* The process dies, and a new one restores the saved session.
Restart ==
  /\ head' = ImportedHeads(NoHead, saved)
  /\ verifying' = {}
  /\ pc' = [t \in Threads |-> "idle"]
  /\ reported' = [t \in Threads |-> 0]
  /\ read' = [t \in Threads |-> 0]
  /\ snap' = [t \in Threads |-> NoHead]
  /\ due' = [t \in Threads |-> 0]
  /\ lost' = (lost \/ unsaved \/ raced)
  /\ unsaved' = FALSE
  /\ UNCHANGED <<world, saved, latest, raced, unproven>>

Next ==
  \/ Tick
  \/ \E t \in Threads :
       \/ \E height \in Reports : Report(t, height)
       \/ TrustRoster(t)
       \/ CheckFloor(t)
       \/ NoteHead(t)
       \/ Sign(t)
       \/ HookWrites(t)
       \/ Submit(t)
       \/ Fail(t)
  \/ SaveSession
  \/ RestoreSession
  \/ Restart

Spec == Init /\ [][Next]_vars

-----------------------------------------------------------------------------
\* Deadlines never go back: no call signs one below a deadline that was
\* submitted before it read the floor.  It holds for calls that overlap
\* (validity lets go of the lock between its check and its note), across
\* lying gateways, clients that gain or lose a roster, failed calls, saves
\* and restores, and across restarts, unless a process dies after calls have
\* overlapped (the older of two snapshots may be written last) or after a
\* client without a hook submitted and before the next save.
DeadlinesRise ==
  ~lost => \A t \in Threads : pc[t] = "submit" => Deadline(t) >= due[t]

\* No sequence of reports, however many calls the gateway spreads its leaps
\* over, lifts the floor above what the clock allowed when it was noted.
FloorWithinClock ==
  \A h \in {head, saved} : h.height <= HeadCeiling(h.at) /\ h.at <= wall

\* While every head was noted by a client with a trusted roster, no gateway
\* can push the floor past the chain: the chain's own head is accepted
\* whenever it is reported, so a lie in one call never blocks a later one.
TipIsAcceptable ==
  ~unproven /\ chain <= MaxHead => BoundedValidUntil(TRUE, chain, wall, head)

\* README.md: with a trusted roster "a gateway cannot move a deadline by
\* lying about the head", whatever the process's other clients have noted.
DeadlinesAreReal ==
  \A t \in verifying : pc[t] = "submit" => Deadline(t) <= chain + Validity
=============================================================================
