---------------------------- MODULE ClientSigning ----------------------------
(* The signing calls of mod client in src/src/lib.rs, run by several threads *)
(* of one process.  Each thread drives a Client of its own; all of them      *)
(* share one SigningSession behind a Mutex, so a step is one critical        *)
(* section of that lock, or one stretch of code outside it.  The gateway is  *)
(* not trusted: it may report any nonce and answer anything.                 *)
(*                                                                           *)
(* transfer, register, the calls and deploy take one account slot; the order *)
(* calls take an order slot first and the account slot second, and submit    *)
(* one transaction that spends both.                                         *)
EXTENDS SigningSession, FiniteSets

CONSTANTS Threads,      \* threads, one Client each
          AccountKeys,  \* account_slot_key values
          OrderKeys,    \* order_slot_key values
          Hooked,       \* threads whose client has a signed hook
          Keeps         \* whether the caller saves and restores the session

ASSUME KeysAssumption == AccountKeys \cap OrderKeys = {}
ASSUME HookedAssumption == Hooked \subseteq Threads

Keys   == AccountKeys \cup OrderKeys
NoSlot == -1            \* the thread has no Reserved guard for the key

VARIABLES session,      \* shared_session: key -> KeyState
          pc,           \* where each thread is in its call
          slots,        \* slots[t][k]: the nonce t holds a guard for, or NoSlot
          payer,        \* payer[t]: the account key of the call in progress
          sigs,         \* history: transactions signed at a nonce, up to 2
          named,        \* history: nonces granted to a call that named them
          landed,       \* history: nonces with an outcome of accepted
          saved         \* the session text the caller keeps, by key

vars == <<session, pc, slots, payer, sigs, named, landed, saved>>

\* "order", "account": about to reserve that slot.  "sign": has its slots.
\* "signed": the transaction exists, the session does not know it yet.
\* "hook": marked, about to call the hook.  "submit": the request is out.
\* "drop": the guards are being dropped.
PCs == {"idle", "order", "account", "sign", "signed", "hook", "submit", "drop"}

TypeOK ==
  /\ session \in [Keys -> KeyState]
  /\ pc \in [Threads -> PCs]
  /\ slots \in [Threads -> [Keys -> Nonces \cup {NoSlot}]]
  /\ payer \in [Threads -> AccountKeys]
  /\ sigs \in [Keys -> [Nonces -> 0 .. 2]]
  /\ named \in [Keys -> SUBSET Nonces]
  /\ landed \in [Keys -> SUBSET Nonces]
  /\ saved \in [Keys -> SavedKey]

Init ==
  /\ session = [k \in Keys |-> FreshKey]
  /\ pc = [t \in Threads |-> "idle"]
  /\ slots = [t \in Threads |-> [k \in Keys |-> NoSlot]]
  /\ payer \in [Threads -> AccountKeys]
  /\ sigs = [k \in Keys |-> [n \in Nonces |-> 0]]
  /\ named = [k \in Keys |-> {}]
  /\ landed = [k \in Keys |-> {}]
  /\ saved = [k \in Keys |-> Exported(FreshKey)]

history == <<sigs, named, landed>>

Holds(t, k) == slots[t][k] # NoSlot

\* The keys a call's transaction spends, each at its own nonce.
Spends(t) == {k \in Keys : Holds(t, k)}

-----------------------------------------------------------------------------
(* A call up to its first slot: the checks before it read the gateway and    *)
(* leave the session's nonces alone.                                         *)
Begin(t) ==
  /\ pc[t] = "idle"
  /\ \E k \in AccountKeys, first \in {"order", "account"} :
       /\ first = "order" => OrderKeys # {}
       /\ payer' = [payer EXCEPT ![t] = k]
       /\ pc' = [pc EXCEPT ![t] = first]
  /\ UNCHANGED <<session, slots, history>>

\* One shared_session().slot(..) and the guard made when it grants.  A
\* refusal leaves through the guards the call already has.
Reserve(t, k, reported, expected, next) ==
  LET order == k \in OrderKeys
      ok    == SlotGranted(session[k], reported, expected, order)
  IN  /\ session' = [session EXCEPT ![k] = Slot(@, reported, expected, order)]
      /\ slots' = IF ok THEN [slots EXCEPT ![t][k] = reported] ELSE slots
      /\ pc' = [pc EXCEPT ![t] = IF ok THEN next ELSE "drop"]
      /\ named' = IF ok /\ expected # Unnamed
                  THEN [named EXCEPT ![k] = @ \cup {reported}] ELSE named
      /\ UNCHANGED <<payer, sigs, landed>>

ReserveOrder(t) ==
  /\ pc[t] = "order"
  /\ \E k \in OrderKeys, reported \in Nonces, expected \in Nonces \cup {Unnamed} :
       Reserve(t, k, reported, expected, "account")

ReserveAccount(t) ==
  /\ pc[t] = "account"
  /\ \E reported \in Nonces, expected \in Nonces \cup {Unnamed} :
       Reserve(t, payer[t], reported, expected, "sign")

\* A slip: the early return forgets the guards.
StopEarlyLeaking(t) ==
  /\ pc[t] \in {"order", "account", "sign"}
  /\ pc' = [pc EXCEPT ![t] = "drop"]
  /\ slots' = [slots EXCEPT ![t] = [k \in Keys |-> NoSlot]]
  /\ UNCHANGED <<session, payer, history>>

\* A gateway request or a signing function that returns Err.
StopEarly(t) ==
  /\ pc[t] \in {"order", "account", "sign"}
  /\ pc' = [pc EXCEPT ![t] = "drop"]
  /\ UNCHANGED <<session, slots, payer, history>>

\* sign_transfer, sign_call, ... returns the signed transaction.
Sign(t) ==
  /\ pc[t] = "sign"
  /\ pc' = [pc EXCEPT ![t] = "signed"]
  /\ sigs' = [k \in Keys |->
                IF Holds(t, k)
                THEN [sigs[k] EXCEPT ![slots[t][k]] = IF @ = 2 THEN 2 ELSE @ + 1]
                ELSE sigs[k]]
  /\ UNCHANGED <<session, slots, payer, named, landed>>

\* A slip: only the first slot of the transaction is marked.
MarkSignedOrderOnly(t) ==
  /\ pc[t] = "signed"
  /\ session' = [k \in Keys |->
                   IF Holds(t, k) /\ (k \in AccountKeys => \A o \in OrderKeys : ~Holds(t, o))
                   THEN Signed(session[k], slots[t][k])
                   ELSE session[k]]
  /\ pc' = [pc EXCEPT ![t] = IF t \in Hooked THEN "hook" ELSE "submit"]
  /\ UNCHANGED <<slots, payer, history>>

\* submit_held, first critical section: session.signed for every slot.
MarkSigned(t) ==
  /\ pc[t] = "signed"
  /\ session' = [k \in Keys |-> IF Holds(t, k)
                                THEN Signed(session[k], slots[t][k])
                                ELSE session[k]]
  /\ pc' = [pc EXCEPT ![t] = IF t \in Hooked THEN "hook" ELSE "submit"]
  /\ UNCHANGED <<slots, payer, history>>

\* The hook saved the session: the transaction is sent.
HookSaves(t) ==
  /\ pc[t] = "hook"
  /\ pc' = [pc EXCEPT ![t] = "submit"]
  /\ UNCHANGED <<session, slots, payer, history>>

\* The hook failed: nothing is sent and the nonce stays held.
HookFails(t) ==
  /\ pc[t] = "hook"
  /\ pc' = [pc EXCEPT ![t] = "drop"]
  /\ UNCHANGED <<session, slots, payer, history>>

\* The gateway answers the submission; second critical section of
\* submit_held, session.outcome for every slot.
Answer(t, accepted) ==
  /\ pc[t] = "submit"
  /\ session' = [k \in Keys |-> IF Holds(t, k)
                                THEN Outcome(session[k], slots[t][k], accepted)
                                ELSE session[k]]
  /\ landed' = IF accepted
               THEN [k \in Keys |-> IF Holds(t, k)
                                    THEN landed[k] \cup {slots[t][k]}
                                    ELSE landed[k]]
               ELSE landed
  /\ pc' = [pc EXCEPT ![t] = "drop"]
  /\ UNCHANGED <<slots, payer, sigs, named>>

\* The submission times out, or its answer cannot be read: it may have
\* reached the chain all the same.
NoAnswer(t) ==
  /\ pc[t] = "submit"
  /\ pc' = [pc EXCEPT ![t] = "drop"]
  /\ UNCHANGED <<session, slots, payer, history>>

\* Drop for Reserved: locals go in reverse order, so the account guard is
\* released before the order guard, each under a lock of its own.
Drop(t, k) ==
  /\ pc[t] = "drop"
  /\ Holds(t, k)
  /\ k \in OrderKeys => \A a \in AccountKeys : ~Holds(t, a)
  /\ session' = [session EXCEPT ![k] = Release(@, slots[t][k])]
  /\ slots' = [slots EXCEPT ![t][k] = NoSlot]
  /\ UNCHANGED <<pc, payer, history>>

Return(t) ==
  /\ pc[t] = "drop"
  /\ Spends(t) = {}
  /\ pc' = [pc EXCEPT ![t] = "idle"]
  /\ UNCHANGED <<session, slots, payer, history>>

Step(t) ==
  \/ ReserveOrder(t)
  \/ ReserveAccount(t)
  \/ StopEarly(t)
  \/ Sign(t)
  \/ MarkSigned(t)
  \/ HookSaves(t)
  \/ HookFails(t)
  \/ \E accepted \in BOOLEAN : Answer(t, accepted)
  \/ NoAnswer(t)
  \/ \E k \in Keys : Drop(t, k)
  \/ Return(t)

\* A slip: the saved next nonce replaces the one in memory.
RestoreOverwriting ==
  /\ session' = [k \in Keys |-> [Imported(session[k], saved[k]) EXCEPT !.next = saved[k].next]]
  /\ UNCHANGED <<pc, slots, payer, history, saved>>

\* save_session, called by anyone between two critical sections.
SaveSession ==
  /\ Keeps
  /\ saved' = [k \in Keys |-> Exported(session[k])]
  /\ UNCHANGED <<session, pc, slots, payer, history>>

\* restore_session of the text kept, which may be older than the session; a
\* text whose heads do not parse is refused after its next nonces are merged.
RestoreSession ==
  /\ Keeps
  /\ \/ session' = [k \in Keys |-> Imported(session[k], saved[k])]
     \/ session' = [k \in Keys |-> ImportedNext(session[k], saved[k])]
  /\ UNCHANGED <<pc, slots, payer, history, saved>>

Calls == \E t \in Threads : Begin(t) \/ Step(t)

Next ==
  \/ Calls /\ UNCHANGED saved
  \/ SaveSession
  \/ RestoreSession

Spec == Init /\ [][Next]_vars

\* A started call keeps running: the lock is never held across a request and
\* the transport gives every request a timeout.  Nobody has to begin a call.
FairSpec == Spec /\ \A t \in Threads : WF_vars(Step(t) /\ UNCHANGED saved)
-----------------------------------------------------------------------------
(* What the signing session is for.                                          *)

\* A nonce carries a second signature only if some call named it (README.md:
\* a nonce signed once "is never signed again ... until the caller names
\* that nonce"), whatever the gateway reports, in every interleaving of the
\* threads and after every refusal, failed hook and lost answer.
OneSignaturePerUnnamedNonce ==
  \A k \in Keys, n \in Nonces : sigs[k][n] <= 1 \/ n \in named[k]

\* An order nonce the caller did not name is 0 or follows an accepted one:
\* the gateway cannot make the client sign an order for a later nonce.
Earned(k, n) == n = 0 \/ n \in named[k] \/ n - 1 \in landed[k]

OrderNoncesAreEarned ==
  \A k \in OrderKeys, n \in Nonces : sigs[k][n] > 0 => Earned(k, n)

\* No reservation outlives the guards of the calls in progress: a call that
\* stops at any point leaves no nonce blocked (Drop for Reserved).
ReservationHasOwner ==
  \A k \in Keys : \A n \in session[k].reserved : \E t \in Threads : slots[t][k] = n

\* slot forgets that a nonce was signed only once the session's next nonce is
\* past it or a caller named it: pruning never reopens a nonce.
HoldForgottenSafely ==
  \A k \in Keys, n \in Nonces :
    session[k].held[n] # "none" /\ session'[k].held[n] = "none"
      => n < session'[k].next \/ n \in named'[k]
HoldsAreForgottenSafely == [][HoldForgottenSafely]_vars

\* A call that names nothing is granted a nonce only when every transaction
\* signed below it was accepted, or superseded by a named nonce, or is not
\* yet known to the session: a rejected transaction is never signed past.
NothingUnsettledBelow(t, k) ==
  LET m == slots'[t][k]
  IN  ~Holds(t, k) /\ m # NoSlot /\ m \notin named'[k] =>
        \A n \in 0 .. m - 1 : sigs[k][n] > 0 =>
          \/ n \in landed[k]
          \/ \E j \in named[k] : n <= j
          \/ \E u \in Threads : pc[u] = "signed" /\ slots[u][k] = n
RejectedIsNotPassed ==
  [][\A t \in Threads, k \in Keys : NothingUnsettledBelow(t, k)]_vars

\* Every reservation is given back, under the fairness of FairSpec, however
\* the call that made it ends.
ReservationsAreFreed ==
  \A k \in Keys, n \in Nonces :
    n \in session[k].reserved ~> n \notin session[k].reserved

\* The calls implement the abstract ledger: every step of a thread names a
\* nonce, signs or lands one whole transaction that the ledger allows, or
\* leaves the ledger alone.
Ledger == INSTANCE NonceLedger
            WITH MaxNonce <- MaxNonce, AccountKeys <- AccountKeys, OrderKeys <- OrderKeys,
                 sigs <- sigs, named <- named, landed <- landed
LedgerSpec == Ledger!Spec

\* README.md: "A signing reserves its nonce until the transaction is signed".
ReservationCoversSigning ==
  \A t \in Threads, k \in Keys :
    pc[t] \in {"account", "sign"} /\ Holds(t, k)
      => slots[t][k] \in session[k].reserved

-----------------------------------------------------------------------------
(* The inductive invariant behind the safety properties.                     *)

Started == {"sign", "signed", "hook", "submit"}

\* Which guards a thread has at each point of its call.
GuardsFollowPC ==
  \A t \in Threads :
    /\ pc[t] \in {"idle", "order"} => Spends(t) = {}
    /\ pc[t] \in Started => Holds(t, payer[t])
    /\ \A a \in AccountKeys :
         Holds(t, a) => a = payer[t] /\ pc[t] \in Started \cup {"drop"}
    /\ \A o, p \in OrderKeys : Holds(t, o) /\ Holds(t, p) => o = p

AcceptedIsPassed == \A k \in Keys : AcceptedPassed(session[k])

SignedIsRemembered ==
  \A k \in Keys, n \in Nonces :
    sigs[k][n] > 0 /\ n \notin named[k]
      => Closed(session[k], n) \/ \E t \in Threads : pc[t] = "signed" /\ slots[t][k] = n

\* A nonce nobody named has at most one guard, is reserved until its
\* transaction is marked, and is closed after that.
GuardsAreExclusive ==
  \A k \in Keys, n \in Nonces : n \notin named[k] =>
    \A t \in Threads : slots[t][k] = n =>
      /\ \A u \in Threads : slots[u][k] = n => u = t
      /\ n \in session[k].reserved \/ (pc[t] \in {"hook", "submit", "drop"} /\ Closed(session[k], n))
      /\ pc[t] \in {"account", "sign"} => sigs[k][n] = 0

GuardsOfSigned ==
  \A t \in Threads, k \in Keys :
    Holds(t, k) /\ pc[t] \in {"signed", "hook", "submit"} => sigs[k][slots[t][k]] > 0

OrdersAreEarned ==
  \A k \in OrderKeys :
    /\ session[k].next # Untracked => Earned(k, session[k].next)
    /\ \A t \in Threads : Holds(t, k) => Earned(k, slots[t][k])

CallInv ==
  /\ GuardsFollowPC
  /\ AcceptedIsPassed
  /\ SignedIsRemembered
  /\ GuardsAreExclusive
  /\ GuardsOfSigned
  /\ OrdersAreEarned
  /\ OneSignaturePerUnnamedNonce
  /\ OrderNoncesAreEarned

\* A kept text, however old, claims nothing the session did not know once.
SavedIsSound ==
  /\ \A k \in Keys : AcceptedPassed(saved[k])
  /\ \A k \in OrderKeys : saved[k].next # Untracked => Earned(k, saved[k].next)

SigningInv == CallInv /\ SavedIsSound
=============================================================================
