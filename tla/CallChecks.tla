----------------------------- MODULE CallChecks -----------------------------
(* The checks around one signing call of a Client (src/src/lib.rs), from     *)
(* vet_target to the answer, for all eight kinds of call: which addresses    *)
(* are known when, what is paid, and what the signing function then refuses. *)
(* Nonces, the chain and the head are the subject of other modules.          *)
EXTENDS AddressBook, Fees

CONSTANTS Senders,      \* accounts of the caller
          Vm,           \* vm_deploy_address
          Contract,     \* the address of a deployed contract
          Quotes,       \* what the gateway may report
          Maxima,       \* max_fee of a call
          Heads,        \* heads that pass the guard
          MaxLifetime   \* MAX_ORDER_LIFETIME_SECS

ASSUME CallAssumption ==
  /\ Senders \subseteq Addresses /\ {Vm, Contract} \subseteq Addresses
  /\ Quotes \subseteq Quote /\ Maxima \subseteq Nat /\ Heads \subseteq 0 .. MaxHead
  /\ MaxLifetime \in Nat
  /\ Remembered >= 2

VARIABLES seen,    \* the addresses remembered, oldest first
          pc,      \* "idle", "vetted", "quoted", "reserved", "submit"
          call,    \* the call in progress
          quote,   \* the NodeInfo it works with
          fee,     \* what it will pay
          head,    \* the head its deadline is built on
          kept     \* history: addresses sent from, signed for or deployed to,
                   \* and not dropped from seen since

vars == <<seen, pc, call, quote, fee, head, kept>>
money == <<quote, fee, head>>

Kinds == {"transfer", "register", "payable", "asset", "order", "typed", "typed_asset", "deploy"}
WithAsset == {"asset", "typed_asset"}
Targets(kind) ==
  CASE kind \in {"register", "deploy"} -> {<<>>}
    [] kind \in WithAsset -> Addresses \X Addresses
    [] OTHER -> {<<a>> : a \in Addresses}

NoCall == [kind |-> "none", sender |-> "none", targets |-> <<>>, max |-> 0]
NoQuote == [transfer |-> 0, deploy |-> Unquoted, rate |-> 0, unit |-> 0]

TypeOK ==
  /\ seen \in Seq(Addresses) /\ Len(seen) <= Remembered
  /\ IsInjective(seen) /\ ToSet(seen) \cap Book = {}
  /\ pc \in {"idle", "vetted", "quoted", "reserved", "submit"}
  /\ pc # "idle" =>
       /\ call.kind \in Kinds /\ call.sender \in Senders
       /\ call.targets \in Targets(call.kind) /\ call.max \in Maxima
  /\ quote \in Quotes \cup {NoQuote}
  /\ fee \in 0 .. Cap /\ head \in 0 .. MaxHead
  /\ kept \subseteq Addresses

Init ==
  /\ seen = <<>> /\ pc = "idle"
  /\ call = NoCall /\ quote = NoQuote /\ fee = 0 /\ head = 0
  /\ kept = Book

\* The call is over.
Leave ==
  /\ pc' = "idle"
  /\ call' = NoCall /\ quote' = NoQuote /\ fee' = 0 /\ head' = 0

\* What the history keeps when addresses are used and the list becomes seen'.
Keep(addresses) == kept' = (kept \cup addresses) \ (ToSet(seen) \ ToSet(seen'))

\* The call is sent to the deploy address, so that it deploys.
ToVm(c) == c.kind = "deploy" \/ c.targets = <<Vm>>

\* The calls that ask for the deploy fee: an order sent to the deploy address
\* does not.
PaysDeployFee(c) == c.kind = "deploy" \/ (c.kind = "payable" /\ c.targets = <<Vm>>)

-----------------------------------------------------------------------------
\* A slip: the targets are checked before the sender is remembered.
VetTargetFirst(c) ==
  /\ seen' = RememberAddress(seen, c.sender)
  /\ IF \A i \in DOMAIN c.targets : CheckTarget(seen, c.targets[i])
     THEN pc' = "vetted" /\ call' = c
     ELSE UNCHANGED <<pc, call>>

\* The sender is remembered even if a target is then refused.
VetTarget(c) ==
  /\ seen' = RememberAddress(seen, c.sender)
  /\ IF \A i \in DOMAIN c.targets : CheckTarget(seen', c.targets[i])
     THEN pc' = "vetted" /\ call' = c
     ELSE UNCHANGED <<pc, call>>

\* A signing call is made, and its targets are vetted.
Begin(kind, sender, targets, max) ==
  /\ pc = "idle"
  /\ VetTarget([kind |-> kind, sender |-> sender, targets |-> targets, max |-> max])
  /\ Keep({sender})
  /\ UNCHANGED money

Transfer(s, max) == \E to \in Addresses : Begin("transfer", s, <<to>>, max)

CallPayable(s, max) == \E to \in Addresses : Begin("payable", s, <<to>>, max)

CallAsset(s, max) == \E to, issuer \in Addresses : Begin("asset", s, <<to, issuer>>, max)

Deploy(s, max) == Begin("deploy", s, <<>>, max)

Register(s, max) == Begin("register", s, <<>>, max)

\* check_order_expiry: an order is not begun when it has expired or would
\* live too long.
OrderExpiry(expiry, now) == expiry > now /\ expiry - now <= MaxLifetime

CallSignedOrder(s, max, expiry, now) ==
  /\ OrderExpiry(expiry, now)
  /\ \E to \in Addresses : Begin("order", s, <<to>>, max)

CallTypedOrder(s, max, expiry, now) ==
  /\ OrderExpiry(expiry, now)
  /\ \/ \E to \in Addresses : Begin("typed", s, <<to>>, max)
     \/ \E to, issuer \in Addresses : Begin("typed_asset", s, <<to, issuer>>, max)

\* A slip: only the network fee is held against the maximum.
FeeWithinFlat(q, f, max) == q.transfer <= max

FeeWithin(q, f, max) == f <= max

\* node_info, deploy_fee_of for a call that pays it, and fee_within.
TakeQuote(q) ==
  LET f == FeeOf(q, PaysDeployFee(call))
  IN  /\ pc = "vetted"
      /\ IF (PaysDeployFee(call) => DeployFeeHolds(q)) /\ FeeWithin(q, f, call.max)
         THEN pc' = "quoted" /\ quote' = q /\ fee' = f /\ UNCHANGED <<call, head>>
         ELSE Leave
      /\ UNCHANGED <<seen, kept>>

\* signing_chain_id, validity and the nonces: the chain, the head and the
\* nonce pass, and the nonce is reserved.
Reserve(h) ==
  /\ pc = "quoted"
  /\ pc' = "reserved" /\ head' = h
  /\ UNCHANGED <<seen, call, quote, fee, kept>>

\* The deadline that validity computes from the head.
Deadline == head + Validity

SignNative ==
  /\ CheckValidUntil(Deadline, head)
  /\ call.kind = "transfer" => call.targets # <<call.sender>>

SignTransfer(amount) == amount # 0 /\ SignNative

SignRegister == SignNative

\* sign_payable_call; sign_call is the same with no value.
SignPayableCall(meter, args) ==
  /\ MeterAdmitted(meter, args, ToVm(call))
  /\ FeeAdmitted(fee, quote.transfer, ToVm(call))
  /\ SignNative

SignAssetCall(meter, args, amount) ==
  /\ amount # 0
  /\ MeterAdmitted(meter, args, FALSE) /\ FeeAdmitted(fee, quote.transfer, FALSE)
  /\ CheckValidUntil(Deadline, head)

\* The signing function accepts what the caller chose: a meter limit, the
\* length of the arguments and an amount.
Signable(meter, args, amount) ==
  CASE call.kind = "transfer"     -> SignTransfer(amount)
    [] call.kind = "register"     -> SignRegister
    [] call.kind \in WithAsset    -> SignAssetCall(meter, args, amount)
    [] OTHER                      -> SignPayableCall(meter, args)

\* The transaction is signed and its targets are remembered; or refused, and
\* the reservation is dropped.
Sign(meter, args, amount) ==
  /\ pc = "reserved"
  /\ IF Signable(meter, args, amount)
     THEN /\ pc' = "submit"
          /\ seen' = RememberTargets(seen, call.targets)
          /\ Keep(ToSet(call.targets))
          /\ UNCHANGED <<call, money>>
     ELSE Leave /\ UNCHANGED <<seen, kept>>

\* A slip: the new contract is remembered when the transaction is refused.
AnsweredEver(accepted) ==
  /\ pc = "submit"
  /\ LET new == IF call.kind = "deploy" THEN <<Contract>> ELSE <<>>
     IN  /\ seen' = RememberTargets(seen, new)
         /\ Keep(IF accepted THEN ToSet(new) ELSE {})
  /\ Leave

\* The answer of the gateway; an accepted deploy makes its contract known.
Answered(accepted) ==
  /\ pc = "submit"
  /\ LET new == IF accepted /\ call.kind = "deploy" THEN <<Contract>> ELSE <<>>
     IN  seen' = RememberTargets(seen, new) /\ Keep(ToSet(new))
  /\ Leave

\* An error on the way: a guard, the transport, the hook or a lost answer.
Fail ==
  /\ pc \in {"vetted", "quoted", "reserved", "submit"}
  /\ Leave
  /\ UNCHANGED <<seen, kept>>

Next ==
  \/ \E s \in Senders, max \in Maxima :
       \/ Transfer(s, max)
       \/ CallPayable(s, max)
       \/ CallAsset(s, max)
       \/ Deploy(s, max)
       \/ Register(s, max)
       \/ \E now \in 0 .. 1, expiry \in 0 .. MaxLifetime + 2 :
            CallSignedOrder(s, max, expiry, now) \/ CallTypedOrder(s, max, expiry, now)
  \/ \E q \in Quotes : TakeQuote(q)
  \/ \E h \in Heads : Reserve(h)
  \/ \E meter \in 0 .. MaxDeployMeter + 1, args \in 0 .. MaxCallArgs + 1, amount \in 0 .. 1 :
       Sign(meter, args, amount)
  \/ \E accepted \in BOOLEAN : Answered(accepted)
  \/ Fail

Spec == Init /\ [][Next]_vars

-----------------------------------------------------------------------------
\* Whatever was sent from, signed for or deployed to before, in whatever order
\* and by whatever kind of call, no lookalike of it is signed for while the
\* list has room for it (remember_address, check_target, vet_target).
LookalikesRefused ==
  [][pc' = "submit" => \A t \in ToSet(call.targets), x \in kept : ~Lookalike(t, x)]_vars

\* The list knows nothing else than what was used: an address the client
\* refused, or a contract that was not deployed, makes no other address a
\* lookalike (remember_targets after the signature, and after an accepted
\* deploy).
OnlyUsedIsRemembered == Book \cup ToSet(seen) = kept

\* What is signed was allowed by the caller, and is the flat fee, or for a
\* deploy the flat fee and five dollars at the quoted rate, rounded down, up
\* to the width (fee_within, deploy_fee_of, check_call_under).  The meter
\* limit never moves it.
SignedIsPriced ==
  pc = "submit" =>
    /\ fee <= call.max
    /\ LET extra == fee - quote.transfer
       IN  IF call.kind \notin WithAsset \cup {"transfer"} /\ ToVm(call)
           THEN /\ extra > 0
                /\ \/ extra * quote.rate <= DeployPrice * quote.unit
                      /\ DeployPrice * quote.unit < (extra + 1) * quote.rate
                   \/ ~InRange(quote)
           ELSE extra = 0

\* Once a nonce is reserved, the signing function has no quarrel left with
\* what the client worked out: it refuses only what the caller chose badly, a
\* deploy fee that comes to nothing or overflows, and an order to the deploy
\* address (deploy_fee_of against check_call_under, validity against
\* check_valid_until).
QuotedIsSignable ==
  pc = "reserved" /\ InRange(quote) /\ (ToVm(call) => call.kind \notin {"order", "typed"}) =>
    \A meter \in NativeMeter .. MaxMeter, args \in 0 .. MaxCallArgs :
      call.targets # <<call.sender>> => Signable(meter, args, 1)
=============================================================================
