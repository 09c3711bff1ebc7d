------------------------ MODULE ClientSigning_proofs ------------------------
(* Theorems about ClientSigning and DurableSigning, for every number of      *)
(* threads, keys and nonces.                                                 *)
EXTENDS DurableSigning, SigningSession_proofs, TLAPS

-----------------------------------------------------------------------------
\* A step of a call keeps the types.
LEMMA CallType ==
  ASSUME TypeOK, Calls, UNCHANGED saved
  PROVE  TypeOK'
<1> USE DEF TypeOK
<1>1. ASSUME NEW t \in Threads, Begin(t) PROVE TypeOK'
  BY <1>1 DEF Begin, history, PCs
<1>2. ASSUME NEW t \in Threads, NEW k \in Keys, NEW reported \in Nonces,
             NEW expected \in Nonces \cup {Unnamed}, NEW next \in PCs,
             Reserve(t, k, reported, expected, next)
      PROVE  TypeOK'
  <2>1. Slot(session[k], reported, expected, k \in OrderKeys) \in KeyState
    <3>1. session[k] \in KeyState /\ (k \in OrderKeys) \in BOOLEAN
      OBVIOUS
    <3> QED
      BY <3>1, SlotType
  <2>2. session' \in [Keys -> KeyState]
    BY <1>2, <2>1 DEF Reserve
  <2>3. pc' \in [Threads -> PCs]
    BY <1>2 DEF Reserve, PCs
  <2>4. slots' \in [Threads -> [Keys -> Nonces \cup {NoSlot}]]
    BY <1>2 DEF Reserve
  <2>5. named' \in [Keys -> SUBSET Nonces]
    BY <1>2 DEF Reserve
  <2> QED
    BY <1>2, <2>2, <2>3, <2>4, <2>5 DEF Reserve
<1>3. ASSUME NEW t \in Threads, ReserveOrder(t) PROVE TypeOK'
  BY <1>2, <1>3 DEF ReserveOrder, PCs, Keys
<1>4. ASSUME NEW t \in Threads, ReserveAccount(t) PROVE TypeOK'
  <2>1. payer[t] \in Keys
    BY DEF Keys
  <2> QED
    BY <1>2, <1>4, <2>1 DEF ReserveAccount, PCs
<1>5. ASSUME NEW t \in Threads, StopEarly(t) PROVE TypeOK'
  BY <1>5 DEF StopEarly, history, PCs
<1>6. ASSUME NEW t \in Threads, Sign(t) PROVE TypeOK'
  <2>1. sigs' \in [Keys -> [Nonces -> 0 .. 2]]
    BY <1>6 DEF Sign, Holds
  <2> QED
    BY <1>6, <2>1 DEF Sign, PCs
<1>7. ASSUME NEW t \in Threads, MarkSigned(t) PROVE TypeOK'
  <2>1. session' \in [Keys -> KeyState]
    BY <1>7, SignedType DEF MarkSigned, Holds
  <2> QED
    BY <1>7, <2>1 DEF MarkSigned, history, PCs
<1>8. ASSUME NEW t \in Threads, HookSaves(t) PROVE TypeOK'
  BY <1>8 DEF HookSaves, history, PCs
<1>9. ASSUME NEW t \in Threads, HookFails(t) PROVE TypeOK'
  BY <1>9 DEF HookFails, history, PCs
<1>10. ASSUME NEW t \in Threads, NEW accepted \in BOOLEAN, Answer(t, accepted)
       PROVE  TypeOK'
  <2>1. session' \in [Keys -> KeyState]
    BY <1>10, OutcomeType DEF Answer, Holds
  <2>2. landed' \in [Keys -> SUBSET Nonces]
    BY <1>10 DEF Answer, Holds
  <2> QED
    BY <1>10, <2>1, <2>2 DEF Answer, PCs
<1>11. ASSUME NEW t \in Threads, NoAnswer(t) PROVE TypeOK'
  BY <1>11 DEF NoAnswer, history, PCs
<1>12. ASSUME NEW t \in Threads, NEW k \in Keys, Drop(t, k) PROVE TypeOK'
  <2>1. session' \in [Keys -> KeyState]
    BY <1>12, ReleaseType DEF Drop, Holds
  <2> QED
    BY <1>12, <2>1 DEF Drop, history
<1>13. ASSUME NEW t \in Threads, Return(t) PROVE TypeOK'
  BY <1>13 DEF Return, history, PCs
<1> QED
  BY <1>1, <1>3, <1>4, <1>5, <1>6, <1>7, <1>8, <1>9, <1>10, <1>11, <1>12,
     <1>13 DEF Calls, Step

\* The type invariant.
THEOREM TypeCorrect == Spec => []TypeOK
<1>1. Init => TypeOK
  BY FreshKeyType, ExportedType, MaxNonceAssumption DEF Init, TypeOK, PCs, Nonces, NoSlot
<1>2. TypeOK /\ [Next]_vars => TypeOK'
  <2> SUFFICES ASSUME TypeOK, [Next]_vars PROVE TypeOK'
    OBVIOUS
  <2>1. CASE Calls /\ UNCHANGED saved
    BY <2>1, CallType
  <2>2. CASE SaveSession
    BY <2>2, ExportedType DEF SaveSession, history, TypeOK
  <2>3. CASE RestoreSession
    <3>1. \A k \in Keys : session'[k] \in KeyState
      BY <2>3, ImportedType DEF RestoreSession, TypeOK
    <3>2. session' \in [Keys -> KeyState]
      BY <2>3, <3>1 DEF RestoreSession
    <3> QED
      BY <2>3, <3>2 DEF RestoreSession, history, TypeOK
  <2>4. CASE UNCHANGED vars
    BY <2>4 DEF vars, TypeOK
  <2> QED
    BY <2>1, <2>2, <2>3, <2>4 DEF Next
<1> QED
  BY <1>1, <1>2, PTL DEF Spec

-----------------------------------------------------------------------------
\* Both ways to take a slot, seen from the thread: no guard for the key yet.
LEMMA SlotTaken ==
  ASSUME TypeOK, GuardsFollowPC, NEW t \in Threads, ReserveOrder(t) \/ ReserveAccount(t)
  PROVE  \E k \in Keys, reported \in Nonces, expected \in Nonces \cup {Unnamed}, next \in PCs :
           /\ Reserve(t, k, reported, expected, next)
           /\ ~Holds(t, k)
           /\ \/ pc[t] = "order" /\ next = "account" /\ k \in OrderKeys
              \/ pc[t] = "account" /\ next = "sign" /\ k = payer[t]
<1>1. CASE ReserveOrder(t)
  <2>1. PICK k \in OrderKeys, reported \in Nonces, expected \in Nonces \cup {Unnamed} :
          Reserve(t, k, reported, expected, "account")
    BY <1>1 DEF ReserveOrder
  <2>2. k \in Keys /\ "account" \in PCs /\ pc[t] = "order"
    BY <1>1 DEF ReserveOrder, Keys, PCs
  <2>3. ~Holds(t, k)
    BY <2>2 DEF GuardsFollowPC, Spends
  <2> QED
    BY <2>1, <2>2, <2>3
<1>2. CASE ReserveAccount(t)
  <2>1. PICK reported \in Nonces, expected \in Nonces \cup {Unnamed} :
          Reserve(t, payer[t], reported, expected, "sign")
    BY <1>2 DEF ReserveAccount
  <2>2. /\ payer[t] \in AccountKeys /\ payer[t] \in Keys
        /\ "sign" \in PCs /\ pc[t] = "account"
    BY <1>2 DEF ReserveAccount, TypeOK, Keys, PCs
  <2>3. ~Holds(t, payer[t])
    BY <2>2 DEF GuardsFollowPC, Started
  <2> QED
    BY <2>1, <2>2, <2>3
<1> QED
  BY <1>1, <1>2

\* Every step of a call keeps its guards where the call is.
LEMMA CallKeepsGuards ==
  ASSUME TypeOK, GuardsFollowPC, Calls
  PROVE  GuardsFollowPC'
<1> USE DEF TypeOK
<1>1. ASSUME NEW t \in Threads, ReserveOrder(t) \/ ReserveAccount(t) PROVE GuardsFollowPC'
  <2>1. PICK k \in Keys, reported \in Nonces, expected \in Nonces \cup {Unnamed}, next \in PCs :
          /\ Reserve(t, k, reported, expected, next)
          /\ ~Holds(t, k)
          /\ \/ pc[t] = "order" /\ next = "account" /\ k \in OrderKeys
             \/ pc[t] = "account" /\ next = "sign" /\ k = payer[t]
    BY <1>1, SlotTaken
  <2> DEFINE ok == SlotGranted(session[k], reported, expected, k \in OrderKeys)
  <2>2. /\ pc' = [pc EXCEPT ![t] = IF ok THEN next ELSE "drop"]
        /\ payer' = payer
        /\ slots' = IF ok THEN [slots EXCEPT ![t][k] = reported] ELSE slots
    BY <2>1 DEF Reserve
  <2> HIDE DEF ok
  <2>3. \A u \in Threads, j \in Keys :
          Holds(u, j)' <=> Holds(u, j) \/ (ok /\ u = t /\ j = k)
    BY <2>2 DEF Holds, NoSlot, Nonces
  <2>4. k \in OrderKeys => k \notin AccountKeys
    BY KeysAssumption
  <2>5. \A a \in AccountKeys : ~Holds(t, a)
    BY <2>1 DEF GuardsFollowPC, Started
  <2>6. pc[t] = "order" => \A o \in OrderKeys : ~Holds(t, o)
    BY DEF GuardsFollowPC, Spends, Keys
  <2>7. pc'[t] \in {"account", "sign", "drop"} /\ pc'[t] = IF ok THEN next ELSE "drop"
    BY <2>1, <2>2
  <2> SUFFICES ASSUME NEW u \in Threads
               PROVE  /\ pc'[u] \in {"idle", "order"} => Spends(u)' = {}
                      /\ pc'[u] \in Started => Holds(u, payer[u])'
                      /\ \A a \in AccountKeys :
                           Holds(u, a)' => a = payer[u] /\ pc'[u] \in Started \cup {"drop"}
                      /\ \A o, p \in OrderKeys : Holds(u, o)' /\ Holds(u, p)' => o = p
    BY <2>2 DEF GuardsFollowPC, Holds
  <2>8. CASE u # t
    <3>1. \A j \in Keys : Holds(u, j)' <=> Holds(u, j)
      BY <2>3, <2>8
    <3>2. pc'[u] = pc[u] /\ payer'[u] = payer[u] /\ payer[u] \in Keys
      BY <2>2, <2>8 DEF Keys
    <3>3. Spends(u)' = Spends(u)
      BY <3>1 DEF Spends
    <3>4. Holds(u, payer[u])' <=> Holds(u, payer[u])
      BY <3>1, <3>2 DEF Holds
    <3>5. /\ \A a \in AccountKeys : Holds(u, a)' <=> Holds(u, a)
          /\ \A o \in OrderKeys : Holds(u, o)' <=> Holds(u, o)
      BY <3>1 DEF Keys
    <3> HIDE DEF TypeOK
    <3> QED
      BY <3>2, <3>3, <3>4, <3>5 DEF GuardsFollowPC
  <2>9. CASE u = t
    <3>1. pc'[t] \in Started => Holds(t, payer[t])'
      <4>1. pc'[t] \in Started => ok /\ k = payer[t]
        BY <2>1, <2>7 DEF Started
      <4> QED
        BY <2>2, <2>3, <4>1 DEF Holds
    <3>2. \A a \in AccountKeys :
            Holds(t, a)' => a = payer[t] /\ pc'[t] \in Started \cup {"drop"}
      BY <2>1, <2>3, <2>4, <2>5, <2>7 DEF Started, Keys
    <3>3. \A o, p \in OrderKeys : Holds(t, o)' /\ Holds(t, p)' => o = p
      BY <2>1, <2>3, <2>6, KeysAssumption DEF GuardsFollowPC, Keys
    <3> QED
      BY <2>7, <2>9, <3>1, <3>2, <3>3
  <2> QED
    BY <2>8, <2>9
<1>2. ASSUME NEW t \in Threads,
             \/ Begin(t) \/ StopEarly(t) \/ HookSaves(t) \/ HookFails(t)
             \/ NoAnswer(t) \/ Return(t)
      PROVE  GuardsFollowPC'
  <2>1. \A u \in Threads : u # t => pc'[u] = pc[u] /\ payer'[u] = payer[u]
    BY <1>2 DEF Begin, StopEarly, HookSaves, HookFails, NoAnswer, Return
  <2>2. slots' = slots
    BY <1>2 DEF Begin, StopEarly, HookSaves, HookFails, NoAnswer, Return
  <2>3. \/ pc[t] = "idle" /\ pc'[t] \in {"order", "account"}
        \/ pc[t] \in {"order", "account", "sign"} /\ pc'[t] = "drop" /\ payer' = payer
        \/ pc[t] \in {"hook", "submit"} /\ pc'[t] \in {"submit", "drop"} /\ payer' = payer
        \/ pc[t] = "drop" /\ Spends(t) = {} /\ pc'[t] = "idle" /\ payer' = payer
    BY <1>2 DEF Begin, StopEarly, HookSaves, HookFails, NoAnswer, Return
  <2> QED
    BY <2>1, <2>2, <2>3 DEF GuardsFollowPC, Spends, Holds, Started, Keys
<1>3. ASSUME NEW t \in Threads,
             Sign(t) \/ MarkSigned(t) \/ \E accepted \in BOOLEAN : Answer(t, accepted)
      PROVE  GuardsFollowPC'
  <2>1. /\ pc[t] \in Started /\ pc'[t] \in Started \cup {"drop"}
        /\ \A u \in Threads : u # t => pc'[u] = pc[u]
        /\ slots' = slots /\ payer' = payer
    BY <1>3 DEF Sign, MarkSigned, Answer, history, Started
  <2>2. pc'[t] \notin {"idle", "order"} /\ pc[t] \notin {"idle", "order"}
    BY <2>1 DEF Started
  <2>3. \A u \in Threads : Spends(u)' = Spends(u)
    BY <2>1 DEF Spends, Holds
  <2> HIDE DEF TypeOK
  <2> QED
    BY <2>1, <2>2, <2>3 DEF GuardsFollowPC, Holds
<1>4. ASSUME NEW t \in Threads, NEW k \in Keys, Drop(t, k) PROVE GuardsFollowPC'
  <2>1. pc[t] = "drop" /\ pc' = pc /\ payer' = payer
    BY <1>4 DEF Drop, history
  <2>2. \A u \in Threads, j \in Keys :
          slots'[u][j] = IF u = t /\ j = k THEN NoSlot ELSE slots[u][j]
    BY <1>4 DEF Drop
  <2> QED
    BY <2>1, <2>2 DEF GuardsFollowPC, Spends, Holds, Started, Keys
<1> QED
  BY <1>1, <1>2, <1>3, <1>4 DEF Calls, Step

-----------------------------------------------------------------------------
(* Every step preserves the inductive invariant.                             *)

Session == <<session, slots, sigs, named, landed>>

\* The steps that only move the program counter.
LEMMA MoveKeepsInv ==
  ASSUME TypeOK, CallInv, UNCHANGED Session, NEW t \in Threads,
         Begin(t) \/ StopEarly(t) \/ HookSaves(t) \/ HookFails(t)
           \/ NoAnswer(t) \/ Return(t)
  PROVE  CallInv'
<1> USE DEF Session
<1>1. \A u \in Threads : u # t => pc'[u] = pc[u] /\ payer'[u] = payer[u]
  BY DEF TypeOK, Begin, StopEarly, HookSaves, HookFails, NoAnswer, Return
<1>2. \/ pc[t] = "idle" /\ pc'[t] \in {"order", "account"}
      \/ pc[t] \in {"order", "account", "sign"} /\ pc'[t] = "drop" /\ payer' = payer
      \/ pc[t] \in {"hook", "submit"} /\ pc'[t] \in {"submit", "drop"} /\ payer' = payer
      \/ pc[t] = "drop" /\ Spends(t) = {} /\ pc'[t] = "idle" /\ payer' = payer
  BY DEF TypeOK, Begin, StopEarly, HookSaves, HookFails, NoAnswer, Return
<1>3. GuardsFollowPC'
  BY CallKeepsGuards DEF CallInv, Calls, Step
<1>4. AcceptedIsPassed'
  BY DEF CallInv, AcceptedIsPassed
<1>5. SignedIsRemembered'
  BY <1>1, <1>2 DEF CallInv, SignedIsRemembered
<1>6. GuardsAreExclusive'
  <2> SUFFICES ASSUME NEW k \in Keys, NEW n \in Nonces, n \notin named[k],
                      NEW u \in Threads, slots[u][k] = n
               PROVE  /\ \A v \in Threads : slots[v][k] = n => v = u
                      /\ \/ n \in session[k].reserved
                         \/ pc'[u] \in {"hook", "submit", "drop"} /\ Closed(session[k], n)
                      /\ pc'[u] \in {"account", "sign"} => sigs[k][n] = 0
    BY DEF GuardsAreExclusive, Closed
  <2>1. Holds(u, k)
    BY DEF Holds, NoSlot, Nonces
  <2>2. pc[u] # "idle" /\ ~(pc[u] = "drop" /\ Spends(u) = {})
    BY <2>1 DEF CallInv, GuardsFollowPC, Spends
  <2> QED
    BY <1>1, <1>2, <2>2 DEF CallInv, GuardsAreExclusive
<1>7. GuardsOfSigned'
  BY <1>1, <1>2 DEF CallInv, GuardsOfSigned, Holds
<1>8. OrdersAreEarned'
  BY DEF CallInv, OrdersAreEarned, Holds, Earned
<1>9. OneSignaturePerUnnamedNonce' /\ OrderNoncesAreEarned'
  BY DEF CallInv, OneSignaturePerUnnamedNonce, OrderNoncesAreEarned, Earned
<1> QED
  BY <1>3, <1>4, <1>5, <1>6, <1>7, <1>8, <1>9 DEF CallInv

\* A signature: the nonce carried none, unless a call named it.
LEMMA SignKeepsInv ==
  ASSUME TypeOK, CallInv, NEW t \in Threads, Sign(t)
  PROVE  CallInv'
<1> USE DEF TypeOK
<1>1. /\ pc[t] = "sign" /\ pc' = [pc EXCEPT ![t] = "signed"]
      /\ session' = session /\ slots' = slots /\ payer' = payer
      /\ named' = named /\ landed' = landed
  BY DEF Sign
<1>2. \A k \in Keys, n \in Nonces :
        sigs'[k][n] = IF slots[t][k] = n
                      THEN IF sigs[k][n] = 2 THEN 2 ELSE sigs[k][n] + 1
                      ELSE sigs[k][n]
  <2> SUFFICES ASSUME NEW k \in Keys, NEW n \in Nonces
               PROVE  sigs'[k][n] = IF slots[t][k] = n
                                    THEN IF sigs[k][n] = 2 THEN 2 ELSE sigs[k][n] + 1
                                    ELSE sigs[k][n]
    OBVIOUS
  <2>1. slots[t][k] = n => Holds(t, k)
    BY DEF Holds, NoSlot, Nonces
  <2>2. sigs'[k] = IF Holds(t, k)
                   THEN [sigs[k] EXCEPT ![slots[t][k]] = IF @ = 2 THEN 2 ELSE @ + 1]
                   ELSE sigs[k]
    BY DEF Sign
  <2>3. sigs[k] \in [Nonces -> 0 .. 2] /\ slots[t][k] \in Nonces \cup {NoSlot}
    OBVIOUS
  <2> HIDE DEF TypeOK
  <2>4. CASE slots[t][k] = n
    BY <2>1, <2>2, <2>3, <2>4
  <2>5. CASE slots[t][k] # n
    BY <2>2, <2>3, <2>5
  <2> QED
    BY <2>4, <2>5
<1>3. GuardsFollowPC'
  BY CallKeepsGuards DEF CallInv, Calls, Step
<1>4. AcceptedIsPassed'
  BY <1>1 DEF CallInv, AcceptedIsPassed
<1>5. SignedIsRemembered'
  <2> SUFFICES ASSUME NEW k \in Keys, NEW n \in Nonces, sigs'[k][n] > 0, n \notin named[k]
               PROVE  \/ Closed(session[k], n)
                      \/ \E u \in Threads : pc'[u] = "signed" /\ slots[u][k] = n
    BY <1>1 DEF SignedIsRemembered
  <2>1. CASE slots[t][k] = n
    BY <1>1, <2>1
  <2>2. CASE slots[t][k] # n
    BY <1>1, <1>2, <2>2 DEF CallInv, SignedIsRemembered
  <2> QED
    BY <2>1, <2>2
<1>6. GuardsAreExclusive'
  <2> SUFFICES ASSUME NEW k \in Keys, NEW n \in Nonces, n \notin named[k],
                      NEW u \in Threads, slots[u][k] = n
               PROVE  /\ \A v \in Threads : slots[v][k] = n => v = u
                      /\ \/ n \in session[k].reserved
                         \/ pc'[u] \in {"hook", "submit", "drop"} /\ Closed(session[k], n)
                      /\ pc'[u] \in {"account", "sign"} => sigs'[k][n] = 0
    BY <1>1 DEF GuardsAreExclusive, Closed
  <2> QED
    BY <1>1, <1>2 DEF CallInv, GuardsAreExclusive
<1>7. GuardsOfSigned'
  <2> SUFFICES ASSUME NEW u \in Threads, NEW k \in Keys, Holds(u, k),
                      pc'[u] \in {"signed", "hook", "submit"}
               PROVE  sigs'[k][slots[u][k]] > 0
    BY <1>1 DEF GuardsOfSigned, Holds
  <2>1. slots[u][k] \in Nonces
    BY DEF Holds
  <2>2. sigs[k][slots[u][k]] \in 0 .. 2
    BY <2>1
  <2>3. CASE u = t
    BY <1>2, <2>1, <2>2, <2>3
  <2>4. CASE u # t
    <3>1. sigs[k][slots[u][k]] > 0
      BY <1>1, <2>4 DEF CallInv, GuardsOfSigned
    <3> QED
      BY SMTT(30), <1>2, <2>1, <2>2, <3>1
  <2> QED
    BY <2>3, <2>4
<1>8. OrdersAreEarned'
  BY <1>1 DEF CallInv, OrdersAreEarned, Holds, Earned
<1>9. OneSignaturePerUnnamedNonce'
  <2> SUFFICES ASSUME NEW k \in Keys, NEW n \in Nonces, n \notin named[k]
               PROVE  sigs'[k][n] <= 1
    BY <1>1 DEF OneSignaturePerUnnamedNonce
  <2>1. slots[t][k] = n => sigs[k][n] = 0
    BY <1>1 DEF CallInv, GuardsAreExclusive
  <2>2. sigs[k][n] <= 1 /\ sigs[k][n] \in 0 .. 2
    BY DEF CallInv, OneSignaturePerUnnamedNonce
  <2>3. \/ sigs'[k][n] = sigs[k][n]
        \/ sigs[k][n] = 0 /\ sigs'[k][n] = 1
    <3> HIDE DEF TypeOK
    <3>1. CASE slots[t][k] = n
      BY <1>2, <2>1, <3>1
    <3>2. CASE slots[t][k] # n
      BY <1>2, <3>2
    <3> QED
      BY <3>1, <3>2
  <2> QED
    BY <2>2, <2>3
<1>10. OrderNoncesAreEarned'
  <2> SUFFICES ASSUME NEW k \in OrderKeys, NEW n \in Nonces, sigs'[k][n] > 0
               PROVE  Earned(k, n)
    BY <1>1 DEF OrderNoncesAreEarned, Earned
  <2>1. k \in Keys
    BY DEF Keys
  <2>2. CASE slots[t][k] = n
    BY <2>2 DEF CallInv, OrdersAreEarned, Holds, NoSlot, Nonces
  <2>3. CASE slots[t][k] # n
    BY <1>2, <2>1, <2>3 DEF CallInv, OrderNoncesAreEarned
  <2> QED
    BY <2>2, <2>3
<1> QED
  BY <1>3, <1>4, <1>5, <1>6, <1>7, <1>8, <1>9, <1>10 DEF CallInv

\* The mark closes the nonce in the step that gives the reservation back.
LEMMA MarkSignedKeepsInv ==
  ASSUME TypeOK, CallInv, NEW t \in Threads, MarkSigned(t)
  PROVE  CallInv'
<1> USE DEF TypeOK
<1>1. /\ pc[t] = "signed" /\ pc'[t] \in {"hook", "submit"}
      /\ \A u \in Threads : u # t => pc'[u] = pc[u]
      /\ slots' = slots /\ payer' = payer
      /\ sigs' = sigs /\ named' = named /\ landed' = landed
  BY DEF MarkSigned, history
<1>2. \A k \in Keys :
        /\ session'[k].next = session[k].next
        /\ \A n \in Nonces :
             session'[k].held[n] = IF slots[t][k] = n THEN "pending" ELSE session[k].held[n]
        /\ \A n \in session[k].reserved : slots[t][k] # n => n \in session'[k].reserved
  <2> SUFFICES ASSUME NEW k \in Keys
               PROVE  /\ session'[k].next = session[k].next
                      /\ \A n \in Nonces :
                           session'[k].held[n] = IF slots[t][k] = n THEN "pending"
                                                 ELSE session[k].held[n]
                      /\ \A n \in session[k].reserved :
                           slots[t][k] # n => n \in session'[k].reserved
    OBVIOUS
  <2>1. session[k] \in KeyState
    OBVIOUS
  <2>2. CASE Holds(t, k)
    <3>1. session'[k] = Signed(session[k], slots[t][k])
      BY <2>2 DEF MarkSigned
    <3> QED
      BY <2>1, <3>1 DEF Signed, KeyState
  <2>3. CASE ~Holds(t, k)
    <3>1. session'[k] = session[k]
      BY <2>3 DEF MarkSigned
    <3> QED
      BY <2>3, <3>1 DEF Holds, NoSlot, Nonces
  <2> QED
    BY <2>2, <2>3
<1>3. \A k \in Keys, n \in Nonces :
        Closed(session[k], n) \/ slots[t][k] = n => Closed(session'[k], n)
  BY <1>2 DEF Closed
<1>4. GuardsFollowPC'
  BY CallKeepsGuards DEF CallInv, Calls, Step
<1>5. AcceptedIsPassed'
  BY <1>2 DEF CallInv, AcceptedIsPassed, AcceptedPassed
<1>6. SignedIsRemembered'
  <2> SUFFICES ASSUME NEW k \in Keys, NEW n \in Nonces, sigs[k][n] > 0, n \notin named[k]
               PROVE  \/ Closed(session'[k], n)
                      \/ \E u \in Threads : pc'[u] = "signed" /\ slots[u][k] = n
    BY <1>1 DEF SignedIsRemembered, Closed
  <2>1. CASE Closed(session[k], n)
    BY <1>3, <2>1
  <2>2. ASSUME NEW u \in Threads, pc[u] = "signed", slots[u][k] = n
        PROVE  Closed(session'[k], n) \/ pc'[u] = "signed"
    BY <1>1, <1>3, <2>2
  <2> QED
    BY <2>1, <2>2 DEF CallInv, SignedIsRemembered
<1>7. GuardsAreExclusive'
  <2> SUFFICES ASSUME NEW k \in Keys, NEW n \in Nonces, n \notin named[k],
                      NEW u \in Threads, slots[u][k] = n
               PROVE  /\ \A v \in Threads : slots[v][k] = n => v = u
                      /\ \/ n \in session'[k].reserved
                         \/ pc'[u] \in {"hook", "submit", "drop"} /\ Closed(session'[k], n)
                      /\ pc'[u] \in {"account", "sign"} => sigs[k][n] = 0
    BY <1>1 DEF GuardsAreExclusive, Closed
  <2>1. CASE u = t
    BY <1>1, <1>3, <2>1 DEF CallInv, GuardsAreExclusive
  <2>2. CASE u # t
    BY <1>1, <1>2, <1>3, <2>2 DEF CallInv, GuardsAreExclusive
  <2> QED
    BY <2>1, <2>2
<1>8. GuardsOfSigned'
  BY <1>1 DEF CallInv, GuardsOfSigned, Holds
<1>9. OrdersAreEarned'
  BY <1>1, <1>2 DEF CallInv, OrdersAreEarned, Holds, Earned, Keys
<1>10. OneSignaturePerUnnamedNonce' /\ OrderNoncesAreEarned'
  BY <1>1 DEF CallInv, OneSignaturePerUnnamedNonce, OrderNoncesAreEarned, Earned
<1> QED
  BY <1>4, <1>5, <1>6, <1>7, <1>8, <1>9, <1>10 DEF CallInv

\* An answer only raises next and marks entries.
LEMMA AnswerKeepsInv ==
  ASSUME TypeOK, CallInv, NEW t \in Threads, NEW accepted \in BOOLEAN,
         Answer(t, accepted)
  PROVE  CallInv'
<1> USE DEF TypeOK
<1>1. /\ pc[t] = "submit" /\ pc'[t] = "drop"
      /\ \A u \in Threads : u # t => pc'[u] = pc[u]
      /\ slots' = slots /\ payer' = payer /\ sigs' = sigs /\ named' = named
  BY DEF Answer
<1>2. \A k \in Keys : landed[k] \subseteq landed'[k]
  BY DEF Answer
<1>3. \A k \in Keys :
        \/ session'[k] = session[k]
        \/ /\ slots[t][k] \in Nonces
           /\ slots[t][k] \in landed'[k]
           /\ session'[k] = Outcome(session[k], slots[t][k], TRUE)
  <2> SUFFICES ASSUME NEW k \in Keys, session'[k] # session[k]
               PROVE  /\ slots[t][k] \in Nonces
                      /\ slots[t][k] \in landed'[k]
                      /\ session'[k] = Outcome(session[k], slots[t][k], TRUE)
    OBVIOUS
  <2>1. Holds(t, k) /\ session'[k] = Outcome(session[k], slots[t][k], accepted)
    BY DEF Answer
  <2>2. accepted = TRUE
    BY <2>1 DEF Outcome
  <2> QED
    BY <2>1, <2>2 DEF Answer, Holds
<1>4. \A k \in Keys :
        /\ session'[k].reserved = session[k].reserved
        /\ session'[k].next >= session[k].next
        /\ session'[k].next \in Nonces \cup {Untracked}
        /\ \A n \in Nonces : session[k].held[n] # "none" => session'[k].held[n] # "none"
  <2> SUFFICES ASSUME NEW k \in Keys
               PROVE  /\ session'[k].reserved = session[k].reserved
                      /\ session'[k].next >= session[k].next
                      /\ session'[k].next \in Nonces \cup {Untracked}
                      /\ \A n \in Nonces :
                           session[k].held[n] # "none" => session'[k].held[n] # "none"
    OBVIOUS
  <2>1. session[k] \in KeyState
    OBVIOUS
  <2>2. CASE session'[k] = session[k]
    BY <2>1, <2>2, MaxNonceAssumption DEF KeyState, Nonces, Untracked
  <2>3. CASE slots[t][k] \in Nonces /\ session'[k] = Outcome(session[k], slots[t][k], TRUE)
    BY <2>1, <2>3, MaxNonceAssumption
    DEF Outcome, Larger, SatSucc, KeyState, Nonces, Untracked
  <2> QED
    BY <1>3, <2>2, <2>3
<1>5. \A k \in Keys, n \in Nonces : Closed(session[k], n) => Closed(session'[k], n)
  <2> SUFFICES ASSUME NEW k \in Keys, NEW n \in Nonces, Closed(session[k], n)
               PROVE  Closed(session'[k], n)
    OBVIOUS
  <2>1. session[k].next \in Nonces \cup {Untracked}
    BY DEF KeyState
  <2>2. /\ session'[k].next >= session[k].next
        /\ session'[k].next \in Nonces \cup {Untracked}
        /\ session[k].held[n] # "none" => session'[k].held[n] # "none"
    BY <1>4
  <2> HIDE DEF TypeOK
  <2> QED
    BY <2>1, <2>2, MaxNonceAssumption DEF Closed, Nonces, Untracked
<1>6. GuardsFollowPC'
  BY CallKeepsGuards DEF CallInv, Calls, Step
<1>7. AcceptedIsPassed'
  <2> SUFFICES ASSUME NEW k \in Keys PROVE AcceptedPassed(session'[k])
    BY DEF AcceptedIsPassed, AcceptedPassed
  <2>1. AcceptedPassed(session[k]) /\ session[k] \in KeyState
    BY DEF CallInv, AcceptedIsPassed
  <2>2. CASE session'[k] = session[k]
    BY <2>1, <2>2
  <2>3. CASE slots[t][k] \in Nonces /\ session'[k] = Outcome(session[k], slots[t][k], TRUE)
    BY <2>1, <2>3, MaxNonceAssumption
    DEF AcceptedPassed, Outcome, Larger, SatSucc, KeyState, Nonces, Untracked
  <2> QED
    BY <1>3, <2>2, <2>3
<1>8. SignedIsRemembered'
  <2> SUFFICES ASSUME NEW k \in Keys, NEW n \in Nonces, sigs[k][n] > 0, n \notin named[k]
               PROVE  \/ Closed(session'[k], n)
                      \/ \E u \in Threads : pc'[u] = "signed" /\ slots[u][k] = n
    BY <1>1 DEF SignedIsRemembered, Closed
  <2> QED
    BY SMTT(30), <1>1, <1>5 DEF CallInv, SignedIsRemembered
<1>9. GuardsAreExclusive'
  <2> SUFFICES ASSUME NEW k \in Keys, NEW n \in Nonces, n \notin named[k],
                      NEW u \in Threads, slots[u][k] = n
               PROVE  /\ \A v \in Threads : slots[v][k] = n => v = u
                      /\ \/ n \in session'[k].reserved
                         \/ pc'[u] \in {"hook", "submit", "drop"} /\ Closed(session'[k], n)
                      /\ pc'[u] \in {"account", "sign"} => sigs[k][n] = 0
    BY <1>1 DEF GuardsAreExclusive, Closed
  <2>1. /\ \A v \in Threads : slots[v][k] = n => v = u
        /\ n \in session[k].reserved
             \/ (pc[u] \in {"hook", "submit", "drop"} /\ Closed(session[k], n))
        /\ pc[u] \in {"account", "sign"} => sigs[k][n] = 0
    BY <1>1 DEF CallInv, GuardsAreExclusive
  <2>2. n \in session[k].reserved => n \in session'[k].reserved
    BY <1>4
  <2>3. Closed(session[k], n) => Closed(session'[k], n)
    BY <1>5
  <2> HIDE DEF TypeOK
  <2>4. CASE u = t
    BY <1>1, <2>1, <2>2, <2>3, <2>4
  <2>5. CASE u # t
    BY <1>1, <2>1, <2>2, <2>3, <2>5
  <2> QED
    BY <2>4, <2>5
<1>10. GuardsOfSigned'
  BY <1>1 DEF CallInv, GuardsOfSigned, Holds
<1> DEFINE EarnedNow(k, n) == n = 0 \/ n \in named'[k] \/ n - 1 \in landed'[k]
<1>12. OrdersAreEarned'
  <2> SUFFICES ASSUME NEW k \in OrderKeys
               PROVE  /\ session'[k].next # Untracked => EarnedNow(k, session'[k].next)
                      /\ \A u \in Threads : slots[u][k] # NoSlot => EarnedNow(k, slots[u][k])
    BY <1>1 DEF OrdersAreEarned, Holds, Earned
  <2>1. k \in Keys /\ session[k] \in KeyState
    BY DEF Keys
  <2>2. ASSUME NEW u \in Threads, slots[u][k] # NoSlot
        PROVE  EarnedNow(k, slots[u][k])
    BY <1>1, <1>2, <2>1, <2>2 DEF CallInv, OrdersAreEarned, Holds, Earned
  <2>3. session[k].next # Untracked => EarnedNow(k, session[k].next)
    BY <1>1, <1>2, <2>1 DEF CallInv, OrdersAreEarned, Earned
  <2>4. CASE session'[k] = session[k]
    BY <2>2, <2>3, <2>4
  <2>5. CASE /\ slots[t][k] \in Nonces
             /\ slots[t][k] \in landed'[k]
             /\ session'[k] = Outcome(session[k], slots[t][k], TRUE)
    <3>1. session'[k].next \in {session[k].next, slots[t][k] + 1, slots[t][k]}
      BY <2>1, <2>5 DEF Outcome, Larger, SatSucc, KeyState
    <3>2. EarnedNow(k, slots[t][k] + 1)
      <4>1. slots[t][k] + 1 - 1 = slots[t][k]
        BY <2>5 DEF Nonces
      <4>2. ASSUME NEW m \in Nat, m - 1 = slots[t][k] PROVE EarnedNow(k, m)
        BY <2>5, <4>2
      <4> HIDE DEF EarnedNow
      <4> QED
        BY <2>5, <4>1, <4>2, MaxNonceAssumption DEF Nonces
    <3>3. EarnedNow(k, slots[t][k])
      <4>1. slots[t][k] # NoSlot
        BY <2>5 DEF NoSlot, Nonces
      <4> QED
        BY <2>2, <4>1
    <3> HIDE DEF EarnedNow
    <3> QED
      BY <2>2, <2>3, <3>1, <3>2, <3>3
  <2> QED
    BY <1>3, <2>1, <2>4, <2>5
<1>13. OneSignaturePerUnnamedNonce'
  BY <1>1 DEF CallInv, OneSignaturePerUnnamedNonce
<1>14. OrderNoncesAreEarned'
  BY <1>1, <1>2 DEF CallInv, OrderNoncesAreEarned, Earned, Keys
<1> QED
  BY <1>6, <1>7, <1>8, <1>9, <1>10, <1>12, <1>13, <1>14 DEF CallInv

\* A dropped guard frees a nonce that no other thread has, unless it was named.
LEMMA DropKeepsInv ==
  ASSUME TypeOK, CallInv, NEW t \in Threads, NEW k \in Keys, Drop(t, k)
  PROVE  CallInv'
<1> USE DEF TypeOK
<1>1. /\ pc[t] = "drop" /\ pc' = pc /\ payer' = payer
      /\ sigs' = sigs /\ named' = named /\ landed' = landed
  BY DEF Drop, history
<1>2. \A u \in Threads, j \in Keys :
        slots'[u][j] = IF u = t /\ j = k THEN NoSlot ELSE slots[u][j]
  BY DEF Drop
<1>3. \A j \in Keys :
        /\ session'[j].next = session[j].next
        /\ session'[j].held = session[j].held
        /\ \A n \in session[j].reserved :
             ~(j = k /\ slots[t][k] = n) => n \in session'[j].reserved
  BY DEF Drop, Release, KeyState
<1>4. GuardsFollowPC'
  BY CallKeepsGuards DEF CallInv, Calls, Step
<1>5. AcceptedIsPassed'
  BY <1>3 DEF CallInv, AcceptedIsPassed, AcceptedPassed
<1>6. SignedIsRemembered'
  <2> SUFFICES ASSUME NEW j \in Keys, NEW n \in Nonces, sigs[j][n] > 0, n \notin named[j],
                      ~Closed(session[j], n)
               PROVE  \E u \in Threads : pc[u] = "signed" /\ slots'[u][j] = n
    <3>1. \A j \in Keys, n \in Nonces : Closed(session'[j], n) <=> Closed(session[j], n)
      BY <1>3 DEF Closed
    <3> HIDE DEF TypeOK
    <3> QED
      BY <1>1, <3>1 DEF SignedIsRemembered
  <2>1. PICK u \in Threads : pc[u] = "signed" /\ slots[u][j] = n
    BY DEF CallInv, SignedIsRemembered
  <2>2. slots'[u][j] = n
    BY <1>1, <1>2, <2>1
  <2> QED
    BY <2>1, <2>2
<1>7. GuardsAreExclusive'
  <2> SUFFICES ASSUME NEW j \in Keys, NEW n \in Nonces, n \notin named[j],
                      NEW u \in Threads, slots'[u][j] = n
               PROVE  /\ \A v \in Threads : slots'[v][j] = n => v = u
                      /\ \/ n \in session'[j].reserved
                         \/ pc[u] \in {"hook", "submit", "drop"} /\ Closed(session[j], n)
                      /\ pc[u] \in {"account", "sign"} => sigs[j][n] = 0
    BY SMTT(60), <1>1, <1>3 DEF GuardsAreExclusive, Closed
  <2>1. n # NoSlot
    BY DEF NoSlot, Nonces
  <2>2. slots[u][j] = n /\ ~(u = t /\ j = k)
    BY <1>2, <2>1
  <2>3. \A v \in Threads : slots'[v][j] = n => slots[v][j] = n
    BY <1>2, <2>1
  <2>4. ~(j = k /\ slots[t][k] = n)
    BY <2>2 DEF CallInv, GuardsAreExclusive
  <2> QED
    BY <1>3, <2>2, <2>3, <2>4 DEF CallInv, GuardsAreExclusive
<1>8. GuardsOfSigned'
  BY <1>1, <1>2 DEF CallInv, GuardsOfSigned, Holds
<1>9. OrdersAreEarned'
  BY <1>1, <1>2, <1>3 DEF CallInv, OrdersAreEarned, Holds, Earned, Keys
<1>10. OneSignaturePerUnnamedNonce' /\ OrderNoncesAreEarned'
  BY <1>1 DEF CallInv, OneSignaturePerUnnamedNonce, OrderNoncesAreEarned, Earned
<1> QED
  BY <1>4, <1>5, <1>6, <1>7, <1>8, <1>9, <1>10 DEF CallInv

\* A granted or refused slot.  The first hypothesis is what the two callers
\* of slot know of the thread: it has no guard for this key yet, and "next"
\* is where its call goes with the guard in hand.
LEMMA ReserveKeepsInv ==
  ASSUME TypeOK, CallInv, NEW t \in Threads, NEW k \in Keys,
         NEW reported \in Nonces, NEW expected \in Nonces \cup {Unnamed},
         NEW next \in PCs,
         \/ pc[t] = "order" /\ next = "account" /\ k \in OrderKeys
         \/ pc[t] = "account" /\ next = "sign" /\ k = payer[t],
         Reserve(t, k, reported, expected, next)
  PROVE  CallInv'
<1> DEFINE ks == session[k]
           ok == SlotGranted(ks, reported, expected, k \in OrderKeys)
<1> USE DEF TypeOK
<1>1. /\ ks \in KeyState /\ AcceptedPassed(ks) /\ (k \in OrderKeys) \in BOOLEAN
      /\ payer[t] \in AccountKeys
  BY DEF CallInv, AcceptedIsPassed
<1>2. ~Holds(t, k)
  BY <1>1, KeysAssumption DEF CallInv, GuardsFollowPC, Spends, Started
<1>3. /\ session'[k] = Slot(ks, reported, expected, k \in OrderKeys)
      /\ \A j \in Keys : j # k => session'[j] = session[j]
      /\ pc'[t] = IF ok THEN next ELSE "drop"
      /\ \A u \in Threads : u # t => pc'[u] = pc[u]
      /\ payer' = payer /\ sigs' = sigs /\ landed' = landed
  BY DEF Reserve
<1>4. /\ \A u \in Threads, j \in Keys :
           slots'[u][j] = IF ok /\ u = t /\ j = k THEN reported ELSE slots[u][j]
      /\ \A j \in Keys, n \in Nonces :
           n \in named'[j] <=> \/ n \in named[j]
                               \/ ok /\ expected # Unnamed /\ j = k /\ n = reported
  <2> HIDE DEF ok
  <2>1. /\ slots' = IF ok THEN [slots EXCEPT ![t][k] = reported] ELSE slots
        /\ named' = IF ok /\ expected # Unnamed
                    THEN [named EXCEPT ![k] = @ \cup {reported}] ELSE named
    BY DEF Reserve, ok
  <2> QED
    BY <2>1
<1>5. \A j \in Keys, n \in Nonces :
        Closed(session[j], n) /\ n \notin named'[j] => Closed(session'[j], n)
  <2> SUFFICES ASSUME NEW j \in Keys, NEW n \in Nonces,
                      Closed(session[j], n), n \notin named'[j]
               PROVE  Closed(session'[j], n)
    OBVIOUS
  <2>1. CASE j # k
    BY <1>3, <2>1
  <2>2. CASE j = k
    <3>1. ~(ok /\ expected # Unnamed /\ n = reported)
      BY <1>4, <2>2
    <3>2. Closed(ks, n)
      BY <2>2
    <3>3. Closed(Slot(ks, reported, expected, k \in OrderKeys), n)
      <4>1. ks \in KeyState /\ AcceptedPassed(ks) /\ (k \in OrderKeys) \in BOOLEAN
        BY <1>1
      <4>2. \/ Closed(Slot(ks, reported, expected, k \in OrderKeys), n)
            \/ /\ SlotGranted(ks, reported, expected, k \in OrderKeys)
               /\ expected # Unnamed
               /\ n = reported
        <5> HIDE DEF TypeOK, ks
        <5>1. ASSUME NEW order \in BOOLEAN
              PROVE  \/ Closed(Slot(ks, reported, expected, order), n)
                     \/ /\ SlotGranted(ks, reported, expected, order)
                        /\ expected # Unnamed
                        /\ n = reported
          BY <3>2, <4>1, SlotKeepsClosed
        <5> QED
          BY <4>1, <5>1
      <4> QED
        BY <3>1, <4>2
    <3> QED
      BY <1>3, <2>2, <3>3
  <2> QED
    BY <2>1, <2>2
<1>6. IF ok
      THEN /\ session'[k].reserved = ks.reserved \cup {reported}
           /\ session'[k].next = ks.next \/ session'[k].next = reported
      ELSE session'[k].reserved = ks.reserved /\ session'[k].next = ks.next
  <2> DEFINE after == Slot(ks, reported, expected, k \in OrderKeys)
  <2>1. IF ok
        THEN /\ after.reserved = ks.reserved \cup {reported}
             /\ after.next = ks.next \/ after.next = reported
        ELSE after.reserved = ks.reserved /\ after.next = ks.next
    <3> HIDE DEF TypeOK, ks
    <3> QED
      BY <1>1, SlotNextAndReserved
  <2> QED
    BY <1>3, <2>1
<1>7. ok /\ expected = Unnamed =>
        /\ ~Closed(ks, reported)
        /\ reported \notin ks.reserved
        /\ k \in OrderKeys => reported = ks.next \/ reported = 0
  <2> HIDE DEF TypeOK
  <2> QED
    BY <1>1, SlotGrantedUnnamed
<1> HIDE DEF ok
\* An unnamed grant is of a nonce that nobody has a guard for and that
\* carries no signature.
<1>8. ASSUME ok, reported \notin named'[k]
      PROVE  /\ \A u \in Threads : slots[u][k] # reported
             /\ sigs[k][reported] = 0
  <2>1. expected = Unnamed /\ reported \notin named[k]
    BY <1>4, <1>8
  <2>2. ~Closed(ks, reported) /\ reported \notin ks.reserved
    BY <1>7, <1>8, <2>1
  <2>3. \A u \in Threads : slots[u][k] # reported
    BY <2>1, <2>2 DEF CallInv, GuardsAreExclusive
  <2>4. ~(sigs[k][reported] > 0)
    BY <2>1, <2>2, <2>3 DEF CallInv, SignedIsRemembered
  <2>5. sigs[k][reported] \in 0 .. 2
    OBVIOUS
  <2> QED
    BY <2>3, <2>4, <2>5
<1>9. GuardsFollowPC'
  <2>1. Calls
    BY DEF Calls, Step, ReserveOrder, ReserveAccount
  <2> QED
    BY <2>1, CallKeepsGuards DEF CallInv
<1>10. AcceptedIsPassed'
  <2>1. AcceptedPassed(session'[k])
    <3> HIDE DEF TypeOK
    <3> QED
      BY <1>1, <1>3, SlotKeepsAcceptedPassed
  <2>2. \A j \in Keys : j # k => AcceptedPassed(session'[j])
    BY <1>3 DEF CallInv, AcceptedIsPassed
  <2>3. \A j \in Keys : AcceptedPassed(session'[j])
    BY <2>1, <2>2
  <2> QED
    BY <2>3 DEF AcceptedIsPassed, AcceptedPassed
<1>11. SignedIsRemembered'
  <2> SUFFICES ASSUME NEW j \in Keys, NEW n \in Nonces, sigs[j][n] > 0,
                      n \notin named'[j], ~Closed(session'[j], n)
               PROVE  \E u \in Threads : pc'[u] = "signed" /\ slots'[u][j] = n
    BY <1>3 DEF SignedIsRemembered
  <2>1. ~Closed(session[j], n) /\ n \notin named[j]
    BY <1>4, <1>5
  <2>2. PICK u \in Threads : pc[u] = "signed" /\ slots[u][j] = n
    BY <2>1 DEF CallInv, SignedIsRemembered
  <2>3. u # t
    BY <2>2
  <2> QED
    BY <1>3, <1>4, <2>2, <2>3
<1>12. GuardsAreExclusive'
  <2> SUFFICES ASSUME NEW j \in Keys, NEW n \in Nonces, n \notin named'[j],
                      NEW u \in Threads, slots'[u][j] = n
               PROVE  /\ \A v \in Threads : slots'[v][j] = n => v = u
                      /\ \/ n \in session'[j].reserved
                         \/ pc'[u] \in {"hook", "submit", "drop"} /\ Closed(session'[j], n)
                      /\ pc'[u] \in {"account", "sign"} => sigs[j][n] = 0
    BY <1>3 DEF GuardsAreExclusive
  <2>1. n \notin named[j]
    BY <1>4
  <2>2. CASE ok /\ u = t /\ j = k
    <3>1. n = reported
      BY <1>4, <2>2
    <3> QED
      BY <1>3, <1>4, <1>6, <1>8, <2>2, <3>1
  <2>3. CASE ~(ok /\ u = t /\ j = k)
    <3>1. slots[u][j] = n
      BY <1>4, <2>3
    <3>2. /\ \A v \in Threads : slots[v][j] = n => v = u
          /\ \/ n \in session[j].reserved
             \/ pc[u] \in {"hook", "submit", "drop"} /\ Closed(session[j], n)
          /\ pc[u] \in {"account", "sign"} => sigs[j][n] = 0
      BY <2>1, <3>1 DEF CallInv, GuardsAreExclusive
    <3>3. ~(ok /\ j = k /\ reported = n)
      BY <1>8, <3>1
    <3>4. \A v \in Threads : slots'[v][j] = n => v = u
      BY <1>4, <3>2, <3>3
    <3>5. n \in session[j].reserved => n \in session'[j].reserved
      BY <1>3, <1>6
    <3>6. Closed(session[j], n) => Closed(session'[j], n)
      BY <1>5
    <3>7. u = t => pc[u] \in {"order", "account"}
      OBVIOUS
    <3>8. u = t => n \in session'[j].reserved /\ sigs[j][n] = 0
      <4>1. u = t => Holds(t, j)
        BY <3>1 DEF Holds, NoSlot, Nonces
      <4>2. u = t => pc[t] = "account"
        BY <4>1 DEF CallInv, GuardsFollowPC, Spends
      <4> QED
        BY <3>2, <3>5, <4>2
    <3> QED
      BY <1>3, <3>2, <3>4, <3>5, <3>6, <3>8
  <2> QED
    BY <2>2, <2>3
<1>13. GuardsOfSigned'
  <2> SUFFICES ASSUME NEW u \in Threads, NEW j \in Keys, slots'[u][j] # NoSlot,
                      pc'[u] \in {"signed", "hook", "submit"}
               PROVE  sigs[j][slots'[u][j]] > 0
    BY <1>3 DEF GuardsOfSigned, Holds
  <2>1. u # t
    BY <1>3
  <2> QED
    BY <1>3, <1>4, <2>1 DEF CallInv, GuardsOfSigned, Holds
<1> DEFINE EarnedNow(j, n) == n = 0 \/ n \in named'[j] \/ n - 1 \in landed[j]
<1>14. \A j \in Keys, n \in Nonces : Earned(j, n) => EarnedNow(j, n)
  BY <1>4 DEF Earned
<1>15. ok /\ k \in OrderKeys => EarnedNow(k, reported)
  <2> SUFFICES ASSUME ok, k \in OrderKeys, reported \notin named'[k], reported # 0
               PROVE  EarnedNow(k, reported)
    OBVIOUS
  <2>1. expected = Unnamed
    BY <1>4
  <2>2. reported = ks.next
    BY <1>7, <2>1
  <2>3. ks.next # Untracked
    BY <2>2 DEF Untracked, Nonces
  <2>4. Earned(k, reported)
    BY <2>2, <2>3 DEF CallInv, OrdersAreEarned
  <2> HIDE DEF EarnedNow
  <2> QED
    BY <1>14, <2>4
<1>16. OrdersAreEarned'
  <2> SUFFICES ASSUME NEW j \in OrderKeys
               PROVE  /\ session'[j].next # Untracked => EarnedNow(j, session'[j].next)
                      /\ \A u \in Threads : slots'[u][j] # NoSlot => EarnedNow(j, slots'[u][j])
    BY <1>3 DEF OrdersAreEarned, Holds, Earned
  <2>1. j \in Keys /\ session[j].next \in Nonces \cup {Untracked}
    BY DEF Keys, KeyState
  <2>2. session[j].next # Untracked => EarnedNow(j, session[j].next)
    <3> HIDE DEF EarnedNow
    <3> QED
      BY <1>14, <2>1 DEF CallInv, OrdersAreEarned
  <2>3. ASSUME NEW u \in Threads, slots[u][j] # NoSlot PROVE EarnedNow(j, slots[u][j])
    <3>1. slots[u][j] \in Nonces
      BY <2>1, <2>3
    <3> HIDE DEF EarnedNow
    <3> QED
      BY <1>14, <2>1, <2>3, <3>1 DEF CallInv, OrdersAreEarned, Holds
  <2>4. session'[j].next = session[j].next \/ (ok /\ j = k /\ session'[j].next = reported)
    BY <1>3, <1>6, <2>1
  <2> HIDE DEF EarnedNow
  <2>5. session'[j].next # Untracked => EarnedNow(j, session'[j].next)
    BY <1>15, <2>2, <2>4
  <2>6. ASSUME NEW u \in Threads, slots'[u][j] # NoSlot PROVE EarnedNow(j, slots'[u][j])
    BY <1>4, <1>15, <2>1, <2>3, <2>6
  <2> QED
    BY <2>5, <2>6
<1>17. OneSignaturePerUnnamedNonce'
  BY <1>3, <1>4 DEF CallInv, OneSignaturePerUnnamedNonce
<1>18. OrderNoncesAreEarned'
  <2>1. \A j \in OrderKeys, n \in Nonces : sigs[j][n] > 0 => EarnedNow(j, n)
    <3> HIDE DEF EarnedNow
    <3> QED
      BY <1>14 DEF CallInv, OrderNoncesAreEarned, Keys
  <2> QED
    BY <1>3, <2>1 DEF OrderNoncesAreEarned, Earned
<1> QED
  BY <1>9, <1>10, <1>11, <1>12, <1>13, <1>16, <1>17, <1>18 DEF CallInv

\* The invariant holds of an empty session.
LEMMA InitInv == Init => SigningInv
<1> SUFFICES ASSUME Init PROVE SigningInv
  OBVIOUS
<1> USE MaxNonceAssumption
        DEF Init, FreshKey, NoHolds, Nonces, Untracked, NoSlot, Holds, Keys
<1>1. GuardsFollowPC
  BY DEF GuardsFollowPC, Spends, Started
<1>2. AcceptedIsPassed /\ SignedIsRemembered
  BY DEF AcceptedIsPassed, AcceptedPassed, SignedIsRemembered
<1>3. GuardsAreExclusive /\ GuardsOfSigned /\ OrdersAreEarned
  BY DEF GuardsAreExclusive, GuardsOfSigned, OrdersAreEarned
<1>4. OneSignaturePerUnnamedNonce /\ OrderNoncesAreEarned
  BY DEF OneSignaturePerUnnamedNonce, OrderNoncesAreEarned
<1>5. SavedIsSound
  BY DEF SavedIsSound, AcceptedPassed, Exported
<1> QED
  BY <1>1, <1>2, <1>3, <1>4, <1>5 DEF SigningInv, CallInv

\* A step of a call keeps the calls' part of the invariant.
LEMMA CallKeepsInv ==
  ASSUME TypeOK, CallInv, Calls
  PROVE  CallInv'
<1>1. ASSUME NEW t \in Threads, Begin(t) PROVE CallInv'
  BY <1>1, MoveKeepsInv DEF Begin, history, Session
<1>2. ASSUME NEW t \in Threads, ReserveOrder(t) \/ ReserveAccount(t) PROVE CallInv'
  <2>1. PICK k \in Keys, reported \in Nonces, expected \in Nonces \cup {Unnamed}, next \in PCs :
          /\ Reserve(t, k, reported, expected, next)
          /\ \/ pc[t] = "order" /\ next = "account" /\ k \in OrderKeys
             \/ pc[t] = "account" /\ next = "sign" /\ k = payer[t]
    BY <1>2, SlotTaken DEF CallInv
  <2> QED
    BY <2>1, ReserveKeepsInv
<1>4. ASSUME NEW t \in Threads, StopEarly(t) PROVE CallInv'
  BY <1>4, MoveKeepsInv DEF StopEarly, history, Session
<1>5. ASSUME NEW t \in Threads, Sign(t) PROVE CallInv'
  BY <1>5, SignKeepsInv
<1>6. ASSUME NEW t \in Threads, MarkSigned(t) PROVE CallInv'
  BY <1>6, MarkSignedKeepsInv
<1>7. ASSUME NEW t \in Threads, HookSaves(t) \/ HookFails(t) PROVE CallInv'
  BY <1>7, MoveKeepsInv DEF HookSaves, HookFails, history, Session
<1>8. ASSUME NEW t \in Threads, NEW accepted \in BOOLEAN, Answer(t, accepted)
      PROVE  CallInv'
  BY <1>8, AnswerKeepsInv
<1>9. ASSUME NEW t \in Threads, NoAnswer(t) \/ Return(t) PROVE CallInv'
  BY <1>9, MoveKeepsInv DEF NoAnswer, Return, history, Session
<1>10. ASSUME NEW t \in Threads, NEW k \in Keys, Drop(t, k) PROVE CallInv'
  BY <1>10, DropKeepsInv
<1> QED
  BY <1>1, <1>2, <1>4, <1>5, <1>6, <1>7, <1>8, <1>9, <1>10 DEF Calls, Step

\* A step of a call only adds to what was named and what landed.
LEMMA HistoryGrows ==
  ASSUME TypeOK, CallInv, Calls
  PROVE  \A k \in Keys : named[k] \subseteq named'[k] /\ landed[k] \subseteq landed'[k]
<1> USE DEF TypeOK
<1>1. ASSUME NEW t \in Threads, ReserveOrder(t) \/ ReserveAccount(t)
      PROVE  \A k \in Keys : named[k] \subseteq named'[k] /\ landed' = landed
  <2>1. PICK k \in Keys, reported \in Nonces, expected \in Nonces \cup {Unnamed}, next \in PCs :
          Reserve(t, k, reported, expected, next)
    BY <1>1, SlotTaken DEF CallInv
  <2> QED
    BY <2>1 DEF Reserve
<1>2. ASSUME NEW t \in Threads, NEW accepted \in BOOLEAN, Answer(t, accepted)
      PROVE  \A k \in Keys : landed[k] \subseteq landed'[k] /\ named' = named
  BY <1>2 DEF Answer
<1>3. ASSUME NEW t \in Threads,
             \/ Begin(t) \/ StopEarly(t) \/ Sign(t) \/ MarkSigned(t) \/ HookSaves(t)
             \/ HookFails(t) \/ NoAnswer(t) \/ Return(t) \/ \E k \in Keys : Drop(t, k)
      PROVE  named' = named /\ landed' = landed
  BY <1>3 DEF Begin, StopEarly, Sign, MarkSigned, HookSaves, HookFails, NoAnswer, Return,
              Drop, history
<1> QED
  BY <1>1, <1>2, <1>3 DEF Calls, Step

\* Restoring a sound text, whole or in part, closes nonces and opens none.
LEMMA RestoreKeepsInv ==
  ASSUME TypeOK, SigningInv, RestoreSession
  PROVE  CallInv'
<1> USE DEF TypeOK, SigningInv, KeyState, SavedKey, Nonces, Untracked
<1>1. /\ pc' = pc /\ slots' = slots /\ payer' = payer
      /\ sigs' = sigs /\ named' = named /\ landed' = landed /\ saved' = saved
  BY DEF RestoreSession, history
<1>2. \A k \in Keys :
        /\ session'[k].reserved = session[k].reserved
        /\ session'[k].next = Larger(session[k].next, saved[k].next)
        /\ \A n \in Nonces : \/ session'[k].held[n] = session[k].held[n]
                             \/ /\ saved[k].held[n] # "none"
                                /\ session'[k].held[n] = saved[k].held[n]
  <2> SUFFICES ASSUME NEW k \in Keys
               PROVE  /\ session'[k].reserved = session[k].reserved
                      /\ session'[k].next = Larger(session[k].next, saved[k].next)
                      /\ \A n \in Nonces : \/ session'[k].held[n] = session[k].held[n]
                                           \/ /\ saved[k].held[n] # "none"
                                              /\ session'[k].held[n] = saved[k].held[n]
    OBVIOUS
  <2>1. session[k] \in KeyState /\ saved[k] \in SavedKey
    OBVIOUS
  <2>2. CASE session'[k] = Imported(session[k], saved[k])
    BY <2>1, <2>2 DEF Imported
  <2>3. CASE session'[k] = ImportedNext(session[k], saved[k])
    BY <2>1, <2>3 DEF ImportedNext
  <2> QED
    BY <2>2, <2>3 DEF RestoreSession
<1>3. \A k \in Keys, n \in Nonces : Closed(session[k], n) => Closed(session'[k], n)
  <2> SUFFICES ASSUME NEW k \in Keys, NEW n \in Nonces, Closed(session[k], n)
               PROVE  Closed(session'[k], n)
    OBVIOUS
  <2>1. /\ session[k].next \in Nonces \cup {Untracked}
        /\ saved[k].next \in Nonces \cup {Untracked}
    OBVIOUS
  <2>2. session'[k].next >= session[k].next
    BY <1>2, <2>1, MaxNonceAssumption DEF Larger
  <2>3. n < session[k].next => n < session'[k].next
    BY <1>2, <2>1, <2>2, MaxNonceAssumption DEF Larger
  <2> QED
    BY <1>2, <2>3 DEF Closed
<1>4. GuardsFollowPC'
  BY <1>1 DEF CallInv, GuardsFollowPC, Spends, Holds, Started
<1>5. AcceptedIsPassed'
  <2> SUFFICES ASSUME NEW k \in Keys, NEW n \in Nonces, session'[k].held[n] = "accepted"
               PROVE  n < session'[k].next \/ (n = MaxNonce /\ session'[k].next = n)
    BY DEF AcceptedIsPassed, AcceptedPassed
  <2>1. session[k].held[n] = "accepted" \/ saved[k].held[n] = "accepted"
    BY <1>2
  <2>2. \/ n < session[k].next \/ (n = MaxNonce /\ session[k].next = n)
        \/ n < saved[k].next \/ (n = MaxNonce /\ saved[k].next = n)
    BY <2>1 DEF CallInv, AcceptedIsPassed, AcceptedPassed, SavedIsSound
  <2>3. session[k].next \in Nonces \cup {Untracked} /\ saved[k].next \in Nonces \cup {Untracked}
    OBVIOUS
  <2> QED
    BY <1>2, <2>2, <2>3, MaxNonceAssumption DEF Larger
<1>6. SignedIsRemembered'
  BY <1>1, <1>3 DEF CallInv, SignedIsRemembered
<1>7. GuardsAreExclusive'
  BY <1>1, <1>2, <1>3 DEF CallInv, GuardsAreExclusive
<1>8. GuardsOfSigned'
  BY <1>1 DEF CallInv, GuardsOfSigned, Holds
<1>9. OrdersAreEarned'
  <2> SUFFICES ASSUME NEW k \in OrderKeys
               PROVE  /\ session'[k].next # Untracked => Earned(k, session'[k].next)
                      /\ \A t \in Threads : Holds(t, k) => Earned(k, slots[t][k])
    BY <1>1 DEF OrdersAreEarned, Holds, Earned
  <2>1. session'[k].next = session[k].next \/ session'[k].next = saved[k].next
    BY <1>2 DEF Keys, Larger
  <2> QED
    BY <2>1 DEF CallInv, OrdersAreEarned, SavedIsSound
<1>10. OneSignaturePerUnnamedNonce' /\ OrderNoncesAreEarned'
  BY <1>1 DEF CallInv, OneSignaturePerUnnamedNonce, OrderNoncesAreEarned, Earned
<1> QED
  BY <1>4, <1>5, <1>6, <1>7, <1>8, <1>9, <1>10 DEF CallInv

\* The invariant is inductive.
LEMMA NextKeepsInv == TypeOK /\ SigningInv /\ [Next]_vars => SigningInv'
<1> SUFFICES ASSUME TypeOK, SigningInv, [Next]_vars PROVE SigningInv'
  OBVIOUS
<1>1. CASE Calls /\ UNCHANGED saved
  <2>1. CallInv'
    BY <1>1, CallKeepsInv DEF SigningInv
  <2>2. \A k \in Keys : named[k] \subseteq named'[k] /\ landed[k] \subseteq landed'[k]
    BY <1>1, HistoryGrows DEF SigningInv
  <2>3. SavedIsSound'
    BY <1>1, <2>2 DEF SigningInv, SavedIsSound, AcceptedPassed, Earned, Keys
  <2> QED
    BY <2>1, <2>3 DEF SigningInv
<1>2. CASE SaveSession
  <2>1. /\ UNCHANGED <<session, pc, slots, payer, sigs, named, landed>>
        /\ \A k \in Keys : saved'[k].next = session[k].next /\ saved'[k].held = session[k].held
    BY <1>2 DEF SaveSession, history, Exported
  <2>2. CallInv'
    BY <2>1
    DEF SigningInv, CallInv, GuardsFollowPC, Spends, Holds, AcceptedIsPassed, AcceptedPassed,
        SignedIsRemembered, Closed, GuardsAreExclusive, GuardsOfSigned, OrdersAreEarned,
        Earned, OneSignaturePerUnnamedNonce, OrderNoncesAreEarned
  <2>3. SavedIsSound'
    BY <2>1 DEF SigningInv, CallInv, AcceptedIsPassed, OrdersAreEarned, SavedIsSound,
                AcceptedPassed, Earned, Keys
  <2> QED
    BY <2>2, <2>3 DEF SigningInv
<1>3. CASE RestoreSession
  <2>1. CallInv'
    BY <1>3, RestoreKeepsInv
  <2>2. SavedIsSound'
    BY <1>3 DEF RestoreSession, history, SigningInv, SavedIsSound, AcceptedPassed, Earned
  <2> QED
    BY <2>1, <2>2 DEF SigningInv
<1>4. CASE UNCHANGED vars
  BY <1>4
  DEF vars, SigningInv, CallInv, GuardsFollowPC, Spends, Holds, AcceptedIsPassed,
      AcceptedPassed, SignedIsRemembered, Closed, GuardsAreExclusive, GuardsOfSigned,
      OrdersAreEarned, Earned, OneSignaturePerUnnamedNonce, OrderNoncesAreEarned, SavedIsSound
<1> QED
  BY <1>1, <1>2, <1>3, <1>4 DEF Next

-----------------------------------------------------------------------------
\* The inductive invariant, for any number of threads and keys.
THEOREM SigningInvariant == Spec => []SigningInv
<1> QED
  BY InitInv, NextKeepsInv, TypeCorrect, PTL DEF Spec

\* A nonce that no call named carries at most one signature, whatever the
\* gateway reports and however the calls interleave and end.
THEOREM OneSignature == Spec => []OneSignaturePerUnnamedNonce
<1>1. SigningInv => OneSignaturePerUnnamedNonce
  BY DEF SigningInv, CallInv
<1> QED
  BY <1>1, SigningInvariant, PTL

\* An order is signed only at nonce 0, at a named nonce, or right above an
\* accepted one.
THEOREM OrdersEarned == Spec => []OrderNoncesAreEarned
<1>1. SigningInv => OrderNoncesAreEarned
  BY DEF SigningInv, CallInv
<1> QED
  BY <1>1, SigningInvariant, PTL

\* No reservation outlives the guards of the calls in progress.
THEOREM NoLeakedReservation == Spec => []ReservationHasOwner
<1>1. Init => ReservationHasOwner
  BY DEF Init, ReservationHasOwner, FreshKey
<1>2. TypeOK /\ SigningInv /\ ReservationHasOwner /\ [Next]_vars => ReservationHasOwner'
  <2> SUFFICES ASSUME TypeOK, SigningInv, ReservationHasOwner, [Next]_vars,
                      NEW j \in Keys, NEW n \in session'[j].reserved
               PROVE  \E u \in Threads : slots'[u][j] = n
    BY DEF ReservationHasOwner
  <2> USE DEF TypeOK
  <2>1. CASE n \in session[j].reserved /\ slots' = slots
    BY <2>1 DEF ReservationHasOwner
  <2>2. ASSUME NEW t \in Threads, NEW k \in Keys, NEW reported \in Nonces,
               NEW expected \in Nonces \cup {Unnamed}, NEW next \in PCs,
               Reserve(t, k, reported, expected, next), ~Holds(t, k)
        PROVE  \E u \in Threads : slots'[u][j] = n
    <3> DEFINE ok == SlotGranted(session[k], reported, expected, k \in OrderKeys)
    <3>1. session[k] \in KeyState /\ (k \in OrderKeys) \in BOOLEAN
      OBVIOUS
    <3>2. IF ok THEN Slot(session[k], reported, expected, k \in OrderKeys).reserved
                       = session[k].reserved \cup {reported}
          ELSE Slot(session[k], reported, expected, k \in OrderKeys).reserved
                 = session[k].reserved
      <4> HIDE DEF TypeOK
      <4> QED
        BY ZenonT(30), <3>1, SlotNextAndReserved
    <3> HIDE DEF ok
    <3>3. /\ session' = [session EXCEPT ![k] = Slot(session[k], reported, expected,
                                                   k \in OrderKeys)]
          /\ slots' = IF ok THEN [slots EXCEPT ![t][k] = reported] ELSE slots
      BY <2>2 DEF Reserve, ok
    <3>4. n \in session[j].reserved \/ (ok /\ j = k /\ n = reported)
      BY <3>2, <3>3
    <3>5. CASE ok /\ j = k /\ n = reported
      BY <3>3, <3>5
    <3>6. CASE n \in session[j].reserved
      <4>1. PICK u \in Threads : slots[u][j] = n
        BY <3>6 DEF ReservationHasOwner
      <4>2. n # NoSlot
        BY <3>6 DEF KeyState, NoSlot, Nonces
      <4> QED
        BY <2>2, <3>3, <4>1, <4>2 DEF Holds
    <3> QED
      BY <3>4, <3>5, <3>6
  <2>3. ASSUME NEW t \in Threads, MarkSigned(t)
        PROVE  n \in session[j].reserved /\ slots' = slots
    <3>1. /\ slots' = slots
          /\ session'[j] = IF Holds(t, j) THEN Signed(session[j], slots[t][j]) ELSE session[j]
      BY <2>3 DEF MarkSigned
    <3>2. session[j] \in KeyState
      OBVIOUS
    <3>3. Signed(session[j], slots[t][j]).reserved = session[j].reserved \ {slots[t][j]}
      BY <3>2 DEF Signed, KeyState
    <3> QED
      BY <3>1, <3>3
  <2>4. ASSUME NEW t \in Threads, NEW accepted \in BOOLEAN, Answer(t, accepted)
        PROVE  n \in session[j].reserved /\ slots' = slots
    BY <2>4 DEF Answer, Outcome, KeyState, Holds
  <2>5. ASSUME NEW t \in Threads, NEW k \in Keys, Drop(t, k)
        PROVE  \E u \in Threads : slots'[u][j] = n
    <3>1. n \in session[j].reserved /\ ~(j = k /\ n = slots[t][k])
      BY <2>5 DEF Drop, Release, KeyState, Holds
    <3>2. PICK u \in Threads : slots[u][j] = n
      BY <3>1 DEF ReservationHasOwner
    <3> QED
      BY <2>5, <3>1, <3>2 DEF Drop
  <2>6. ASSUME NEW t \in Threads,
               \/ Begin(t) \/ StopEarly(t) \/ Sign(t) \/ HookSaves(t)
               \/ HookFails(t) \/ NoAnswer(t) \/ Return(t)
        PROVE  n \in session[j].reserved /\ slots' = slots
    BY <2>6 DEF Begin, StopEarly, Sign, HookSaves, HookFails, NoAnswer, Return, history
  <2>7. CASE SaveSession \/ RestoreSession \/ UNCHANGED vars
    <3>1. session'[j].reserved = session[j].reserved /\ slots' = slots
      BY <2>7 DEF SaveSession, RestoreSession, Imported, ImportedNext, vars, KeyState, history
    <3> QED
      BY <2>1, <3>1
  <2>8. ASSUME NEW t \in Threads, ReserveOrder(t) \/ ReserveAccount(t)
        PROVE  \E u \in Threads : slots'[u][j] = n
    <3> HIDE DEF TypeOK
    <3>1. PICK k \in Keys, reported \in Nonces, expected \in Nonces \cup {Unnamed},
               next \in PCs :
            Reserve(t, k, reported, expected, next) /\ ~Holds(t, k)
      BY <2>8, SlotTaken DEF SigningInv, CallInv
    <3> QED
      BY <2>2, <3>1
  <2> QED
    BY <2>1, <2>3, <2>4, <2>5, <2>6, <2>7, <2>8 DEF Next, Calls, Step
<1> QED
  BY <1>1, <1>2, TypeCorrect, SigningInvariant, PTL DEF Spec

\* slot never reopens a signed nonce behind the caller's back.
THEOREM HoldsForgottenSafely == Spec => HoldsAreForgottenSafely
<1>1. TypeOK /\ SigningInv /\ [Next]_vars => [HoldForgottenSafely]_vars
  <2> SUFFICES ASSUME TypeOK, SigningInv, Next, NEW j \in Keys, NEW n \in Nonces,
                      session[j].held[n] # "none", session'[j].held[n] = "none"
               PROVE  n < session'[j].next \/ n \in named'[j]
    BY DEF HoldForgottenSafely
  <2> USE DEF TypeOK
  <2>1. ASSUME NEW t \in Threads, MarkSigned(t) PROVE FALSE
    BY <2>1 DEF MarkSigned, Signed, KeyState, Holds
  <2>2. ASSUME NEW t \in Threads, NEW accepted \in BOOLEAN, Answer(t, accepted) PROVE FALSE
    BY <2>2 DEF Answer, Outcome, KeyState, Holds
  <2>3. ASSUME NEW t \in Threads, NEW k \in Keys, Drop(t, k) PROVE FALSE
    BY <2>3 DEF Drop, Release, KeyState
  <2>4. ASSUME NEW t \in Threads,
               \/ Begin(t) \/ StopEarly(t) \/ Sign(t) \/ HookSaves(t)
               \/ HookFails(t) \/ NoAnswer(t) \/ Return(t)
        PROVE  FALSE
    BY <2>4 DEF Begin, StopEarly, Sign, HookSaves, HookFails, NoAnswer, Return, history
  <2>5. ASSUME NEW t \in Threads, ReserveOrder(t) \/ ReserveAccount(t)
        PROVE  n < session'[j].next \/ n \in named'[j]
    <3> HIDE DEF TypeOK
    <3>1. PICK k \in Keys, reported \in Nonces, expected \in Nonces \cup {Unnamed},
               next \in PCs : Reserve(t, k, reported, expected, next)
      BY <2>5, SlotTaken DEF SigningInv, CallInv
    <3> DEFINE order == k \in OrderKeys
               ok == SlotGranted(session[k], reported, expected, order)
    <3>2. session' = [session EXCEPT ![k] = Slot(session[k], reported, expected, order)]
      BY <3>1 DEF Reserve
    <3>3. j = k
      BY <3>2 DEF TypeOK
    <3>4. session[k] \in KeyState /\ AcceptedPassed(session[k]) /\ order \in BOOLEAN
      BY DEF TypeOK, SigningInv, CallInv, AcceptedIsPassed
    <3>5. \/ Closed(Slot(session[k], reported, expected, order), n)
          \/ ok /\ expected # Unnamed /\ n = reported
      <4>1. ASSUME NEW o \in BOOLEAN
            PROVE  \/ Closed(Slot(session[k], reported, expected, o), n)
                   \/ /\ SlotGranted(session[k], reported, expected, o)
                      /\ expected # Unnamed
                      /\ n = reported
        <5>1. Closed(session[k], n)
          BY <3>3 DEF Closed
        <5> QED
          BY <3>4, <5>1, SlotKeepsClosed
      <4> QED
        BY <3>4, <4>1
    <3>6. CASE Closed(Slot(session[k], reported, expected, order), n)
      BY <3>2, <3>3, <3>6 DEF Closed, TypeOK
    <3>7. CASE ok /\ expected # Unnamed /\ n = reported
      BY <3>1, <3>3, <3>7 DEF Reserve, TypeOK
    <3> QED
      BY <3>5, <3>6, <3>7
  <2>6. CASE SaveSession
    BY <2>6 DEF SaveSession
  <2>7. CASE RestoreSession
    <3>1. session[j] \in KeyState /\ saved[j] \in SavedKey
      OBVIOUS
    <3>2. \/ session'[j] = Imported(session[j], saved[j])
          \/ session'[j] = ImportedNext(session[j], saved[j])
      BY <2>7 DEF RestoreSession
    <3> HIDE DEF TypeOK
    <3>3. Imported(session[j], saved[j]).held[n] # "none"
      BY <3>1 DEF Imported
    <3>4. ImportedNext(session[j], saved[j]).held[n] # "none"
      BY <3>1 DEF ImportedNext, KeyState
    <3> QED
      BY <3>2, <3>3, <3>4
  <2> QED
    BY <2>1, <2>2, <2>3, <2>4, <2>5, <2>6, <2>7 DEF Next, Calls, Step
<1> QED
  BY <1>1, TypeCorrect, SigningInvariant, PTL DEF Spec, HoldsAreForgottenSafely

-----------------------------------------------------------------------------
(* A rejected transaction is never signed past.                              *)

\* What the session or the history can say of a nonce that was signed: it is
\* held, was accepted, was named or superseded, or is not marked yet.
IsSettled(k, n) ==
  \/ session[k].held[n] = "pending"
  \/ n \in landed[k]
  \/ \E j \in named[k] : n <= j
  \/ \E u \in Threads : pc[u] = "signed" /\ slots[u][k] = n

\* No signed nonce is lost, and the session and the kept text believe only
\* what the gateway accepted.
SettledInv ==
  /\ \A k \in Keys, n \in Nonces : sigs[k][n] > 0 => IsSettled(k, n)
  /\ \A k \in Keys, n \in Nonces :
       session[k].held[n] = "accepted" \/ saved[k].held[n] = "accepted" => n \in landed[k]

\* A nonce stays settled in a step that keeps its mark, the histories and the
\* threads that signed.
LEMMA StaysSettled ==
  ASSUME NEW k \in Keys, NEW n \in Nonces, IsSettled(k, n),
         session'[k].held[n] = session[k].held[n] \/ session'[k].held[n] = "pending",
         landed[k] \subseteq landed'[k], named[k] \subseteq named'[k],
         \A u \in Threads : pc[u] = "signed" /\ slots[u][k] = n =>
           \/ pc'[u] = "signed" /\ slots'[u][k] = n
           \/ session'[k].held[n] = "pending"
  PROVE  IsSettled(k, n)'
  BY DEF IsSettled

LEMMA ReserveKeepsSettled ==
  ASSUME TypeOK, SigningInv, SettledInv, NEW t \in Threads, NEW k \in Keys,
         NEW reported \in Nonces, NEW expected \in Nonces \cup {Unnamed}, NEW next \in PCs,
         pc[t] \in {"order", "account"},
         Reserve(t, k, reported, expected, next), saved' = saved
  PROVE  SettledInv'
<1> DEFINE order == k \in OrderKeys
           ok == SlotGranted(session[k], reported, expected, order)
<1>1. /\ session' = [session EXCEPT ![k] = Slot(session[k], reported, expected, order)]
      /\ slots' = IF ok THEN [slots EXCEPT ![t][k] = reported] ELSE slots
      /\ pc' = [pc EXCEPT ![t] = IF ok THEN next ELSE "drop"]
      /\ named' = IF ok /\ expected # Unnamed
                  THEN [named EXCEPT ![k] = @ \cup {reported}] ELSE named
      /\ sigs' = sigs /\ landed' = landed
  BY DEF Reserve
<1>2. session[k] \in KeyState
  BY DEF TypeOK
<1>3. ASSUME NEW n \in Nonces
      PROVE  LET held == Slot(session[k], reported, expected, order).held[n]
             IN  \/ held = session[k].held[n]
                 \/ held = "none" /\ session[k].held[n] = "accepted"
                 \/ held = "none" /\ ok /\ expected # Unnamed /\ n <= reported
  BY <1>2 DEF Slot, SlotGranted, Retained, KeyState
<1> HIDE DEF ok, order
<1>4. \A j \in Keys : named[j] \subseteq named'[j]
  BY <1>1 DEF TypeOK
<1>5. \A u \in Threads : pc[u] = "signed" =>
        /\ pc'[u] = "signed"
        /\ \A j \in Keys : slots'[u][j] = slots[u][j]
  BY <1>1 DEF TypeOK
<1>6. ASSUME NEW j \in Keys, NEW n \in Nonces, sigs'[j][n] > 0
      PROVE  IsSettled(j, n)'
  <2>1. IsSettled(j, n)
    BY <1>1, <1>6 DEF SettledInv
  <2>2. CASE session'[j].held[n] = session[j].held[n]
    BY <1>1, <1>4, <1>5, <2>1, <2>2, StaysSettled
  <2>3. CASE session'[j].held[n] # session[j].held[n]
    <3>1. j = k /\ session'[j] = Slot(session[k], reported, expected, order)
      BY <1>1, <2>3 DEF TypeOK
    <3>2. CASE session[k].held[n] = "accepted"
      BY <1>1, <3>1, <3>2 DEF SettledInv, IsSettled
    <3>3. CASE ok /\ expected # Unnamed /\ n <= reported
      <4>1. reported \in named'[j]
        BY <1>1, <3>1, <3>3 DEF TypeOK
      <4> QED
        BY <3>3, <4>1 DEF IsSettled
    <3> QED
      BY <1>3, <2>3, <3>1, <3>2, <3>3
  <2> QED
    BY <2>2, <2>3
<1>7. ASSUME NEW j \in Keys, NEW n \in Nonces,
             session'[j].held[n] = "accepted" \/ saved'[j].held[n] = "accepted"
      PROVE  n \in landed'[j]
  <2>1. session'[j].held[n] = "accepted" => session[j].held[n] = "accepted"
    BY <1>1, <1>3 DEF TypeOK
  <2> QED
    BY <1>1, <1>7, <2>1 DEF SettledInv
<1> QED
  BY <1>6, <1>7 DEF SettledInv

LEMMA SignKeepsSettled ==
  ASSUME TypeOK, SettledInv, NEW t \in Threads, Sign(t), saved' = saved
  PROVE  SettledInv'
<1>1. /\ pc[t] = "sign" /\ pc' = [pc EXCEPT ![t] = "signed"]
      /\ session' = session /\ slots' = slots /\ named' = named /\ landed' = landed
      /\ sigs' = [k \in Keys |->
                    IF Holds(t, k)
                    THEN [sigs[k] EXCEPT ![slots[t][k]] = IF @ = 2 THEN 2 ELSE @ + 1]
                    ELSE sigs[k]]
  BY DEF Sign
<1>2. pc'[t] = "signed" /\ \A u \in Threads : pc[u] = "signed" => pc'[u] = "signed"
  BY <1>1 DEF TypeOK
<1>3. ASSUME NEW k \in Keys, NEW n \in Nonces, sigs'[k][n] > 0
      PROVE  IsSettled(k, n)'
  <2>1. CASE slots[t][k] = n
    BY <1>1, <1>2, <2>1 DEF IsSettled
  <2>2. CASE slots[t][k] # n
    <3>1. sigs'[k][n] = sigs[k][n]
      BY <1>1, <2>2 DEF TypeOK
    <3>2. IsSettled(k, n)
      BY <1>3, <3>1 DEF SettledInv
    <3> QED
      BY <1>1, <1>2, <3>2, StaysSettled
  <2> QED
    BY <2>1, <2>2
<1> QED
  BY <1>1, <1>3 DEF SettledInv

LEMMA MarkSignedKeepsSettled ==
  ASSUME TypeOK, SettledInv, NEW t \in Threads, MarkSigned(t), saved' = saved
  PROVE  SettledInv'
<1>1. /\ slots' = slots /\ sigs' = sigs /\ named' = named /\ landed' = landed
      /\ \A u \in Threads : u # t => pc'[u] = pc[u]
  BY DEF MarkSigned, history, TypeOK
<1>2. \A k \in Keys, n \in Nonces :
        session'[k].held[n] = IF slots[t][k] = n THEN "pending" ELSE session[k].held[n]
  <2> SUFFICES ASSUME NEW k \in Keys, NEW n \in Nonces
               PROVE  session'[k].held[n]
                        = IF slots[t][k] = n THEN "pending" ELSE session[k].held[n]
    OBVIOUS
  <2>1. session'[k] = IF Holds(t, k) THEN Signed(session[k], slots[t][k]) ELSE session[k]
    BY DEF MarkSigned
  <2>2. session[k] \in KeyState /\ n # NoSlot
    BY DEF TypeOK, NoSlot, Nonces
  <2> QED
    BY <2>1, <2>2 DEF Signed, KeyState, Holds
<1>3. ASSUME NEW k \in Keys, NEW n \in Nonces, sigs'[k][n] > 0
      PROVE  IsSettled(k, n)'
  <2>1. IsSettled(k, n)
    BY <1>1, <1>3 DEF SettledInv
  <2>2. \A u \in Threads : pc[u] = "signed" /\ slots[u][k] = n =>
          \/ pc'[u] = "signed" /\ slots'[u][k] = n
          \/ session'[k].held[n] = "pending"
    BY <1>1, <1>2
  <2> QED
    BY <1>1, <1>2, <2>1, <2>2, StaysSettled
<1>4. ASSUME NEW k \in Keys, NEW n \in Nonces,
             session'[k].held[n] = "accepted" \/ saved'[k].held[n] = "accepted"
      PROVE  n \in landed'[k]
  BY <1>1, <1>2, <1>4 DEF SettledInv
<1> QED
  BY <1>3, <1>4 DEF SettledInv

LEMMA AnswerKeepsSettled ==
  ASSUME TypeOK, SettledInv, NEW t \in Threads, NEW accepted \in BOOLEAN,
         Answer(t, accepted), saved' = saved
  PROVE  SettledInv'
<1>1. /\ pc[t] = "submit" /\ pc' = [pc EXCEPT ![t] = "drop"]
      /\ slots' = slots /\ sigs' = sigs /\ named' = named
  BY DEF Answer
<1>2. \A k \in Keys : landed[k] \subseteq landed'[k]
  BY DEF Answer
<1>3. \A u \in Threads : pc[u] = "signed" => pc'[u] = "signed"
  BY <1>1 DEF TypeOK
<1>4. ASSUME NEW k \in Keys, NEW n \in Nonces
      PROVE  \/ session'[k].held[n] = session[k].held[n]
             \/ n \in landed'[k]
  <2>1. CASE ~accepted \/ ~Holds(t, k)
    BY <2>1 DEF Answer, Outcome
  <2>2. CASE accepted /\ Holds(t, k)
    <3>1. session'[k] = Outcome(session[k], slots[t][k], TRUE) /\ slots[t][k] \in landed'[k]
      BY <2>2 DEF Answer
    <3>2. session[k] \in KeyState
      BY DEF TypeOK
    <3>3. session'[k].held = [session[k].held EXCEPT ![slots[t][k]] = "accepted"]
      BY <3>1, <3>2 DEF Outcome, KeyState
    <3> QED
      BY <3>1, <3>2, <3>3 DEF KeyState
  <2> QED
    BY <2>1, <2>2
<1>5. ASSUME NEW k \in Keys, NEW n \in Nonces, sigs'[k][n] > 0
      PROVE  IsSettled(k, n)'
  <2>1. IsSettled(k, n)
    BY <1>1, <1>5 DEF SettledInv
  <2>2. CASE n \in landed'[k]
    BY <2>2 DEF IsSettled
  <2>3. CASE session'[k].held[n] = session[k].held[n]
    BY <1>1, <1>2, <1>3, <2>1, <2>3, StaysSettled
  <2> QED
    BY <1>4, <2>2, <2>3
<1>6. ASSUME NEW k \in Keys, NEW n \in Nonces,
             session'[k].held[n] = "accepted" \/ saved'[k].held[n] = "accepted"
      PROVE  n \in landed'[k]
  BY <1>2, <1>4, <1>6 DEF SettledInv
<1> QED
  BY <1>5, <1>6 DEF SettledInv

\* The steps that leave the marks, the histories and the signed threads alone.
LEMMA RestKeepsSettled ==
  ASSUME TypeOK, SettledInv,
         \A k \in Keys : session'[k].held = session[k].held,
         sigs' = sigs, named' = named, landed' = landed,
         \A k \in Keys : saved'[k].held = saved[k].held \/ saved'[k].held = session[k].held,
         \A u \in Threads : pc[u] = "signed" => pc'[u] = "signed" /\ slots'[u] = slots[u]
  PROVE  SettledInv'
<1>1. ASSUME NEW k \in Keys, NEW n \in Nonces, sigs'[k][n] > 0
      PROVE  IsSettled(k, n)'
  <2>1. IsSettled(k, n)
    BY <1>1 DEF SettledInv
  <2>2. session'[k].held[n] = session[k].held[n]
    OBVIOUS
  <2> QED
    BY <2>1, <2>2, StaysSettled
<1>2. ASSUME NEW k \in Keys, NEW n \in Nonces,
             session'[k].held[n] = "accepted" \/ saved'[k].held[n] = "accepted"
      PROVE  n \in landed'[k]
  <2>1. session[k].held[n] = "accepted" \/ saved[k].held[n] = "accepted"
    BY <1>2
  <2> QED
    BY <2>1 DEF SettledInv
<1> QED
  BY <1>1, <1>2 DEF SettledInv

LEMMA RestoreKeepsSettled ==
  ASSUME TypeOK, SettledInv, RestoreSession
  PROVE  SettledInv'
<1>1. /\ pc' = pc /\ slots' = slots /\ sigs' = sigs /\ named' = named
      /\ landed' = landed /\ saved' = saved
  BY DEF RestoreSession, history
<1>2. ASSUME NEW k \in Keys, NEW n \in Nonces
      PROVE  \/ session'[k].held[n] = session[k].held[n]
             \/ saved[k].held[n] # "none" /\ session'[k].held[n] = saved[k].held[n]
  <2>1. session[k] \in KeyState
    BY DEF TypeOK
  <2>2. \/ session'[k] = Imported(session[k], saved[k])
        \/ session'[k] = ImportedNext(session[k], saved[k])
    BY DEF RestoreSession
  <2>3. CASE session'[k] = Imported(session[k], saved[k])
    BY <2>3 DEF Imported
  <2>4. CASE session'[k] = ImportedNext(session[k], saved[k])
    BY <2>1, <2>4 DEF ImportedNext, KeyState
  <2> QED
    BY <2>2, <2>3, <2>4
<1>3. ASSUME NEW k \in Keys, NEW n \in Nonces, sigs'[k][n] > 0
      PROVE  IsSettled(k, n)'
  <2>1. IsSettled(k, n)
    BY <1>1, <1>3 DEF SettledInv
  <2>2. saved[k].held[n] \in {"none", "pending", "accepted"}
    BY DEF TypeOK, SavedKey, Marks
  <2>3. CASE saved[k].held[n] = "accepted"
    BY <1>1, <2>3 DEF SettledInv, IsSettled
  <2>4. CASE saved[k].held[n] # "accepted"
    <3>1. session'[k].held[n] = session[k].held[n] \/ session'[k].held[n] = "pending"
      BY <1>2, <2>2, <2>4
    <3> QED
      BY <1>1, <2>1, <3>1, StaysSettled
  <2> QED
    BY <2>3, <2>4
<1>4. ASSUME NEW k \in Keys, NEW n \in Nonces,
             session'[k].held[n] = "accepted" \/ saved'[k].held[n] = "accepted"
      PROVE  n \in landed'[k]
  BY <1>1, <1>2, <1>4 DEF SettledInv
<1> QED
  BY <1>3, <1>4 DEF SettledInv

\* The invariant is inductive beside SigningInv.
LEMMA NextKeepsSettled ==
  ASSUME TypeOK, SigningInv, SettledInv, [Next]_vars
  PROVE  SettledInv'
<1>1. ASSUME NEW t \in Threads, ReserveOrder(t) \/ ReserveAccount(t), saved' = saved
      PROVE  SettledInv'
  <2>1. PICK k \in Keys, reported \in Nonces, expected \in Nonces \cup {Unnamed}, next \in PCs :
          Reserve(t, k, reported, expected, next) /\ pc[t] \in {"order", "account"}
    BY <1>1, SlotTaken DEF SigningInv, CallInv
  <2> QED
    BY <1>1, <2>1, ReserveKeepsSettled
<1>2. ASSUME NEW t \in Threads, saved' = saved,
             \/ Begin(t) \/ StopEarly(t) \/ HookSaves(t) \/ HookFails(t)
             \/ NoAnswer(t) \/ Return(t)
      PROVE  SettledInv'
  <2>1. /\ session' = session /\ sigs' = sigs /\ named' = named /\ landed' = landed
        /\ slots' = slots
        /\ \A u \in Threads : pc[u] = "signed" => pc'[u] = "signed"
    BY <1>2 DEF TypeOK, Begin, StopEarly, HookSaves, HookFails, NoAnswer, Return, history
  <2> QED
    BY <1>2, <2>1, RestKeepsSettled
<1>3. ASSUME NEW t \in Threads, NEW k \in Keys, Drop(t, k), saved' = saved
      PROVE  SettledInv'
  <2>1. /\ sigs' = sigs /\ named' = named /\ landed' = landed /\ pc' = pc /\ pc[t] = "drop"
        /\ \A j \in Keys : session'[j].held = session[j].held
        /\ \A u \in Threads : u # t => slots'[u] = slots[u]
    BY <1>3 DEF TypeOK, Drop, Release, KeyState, history
  <2>2. \A u \in Threads : pc[u] = "signed" => pc'[u] = "signed" /\ slots'[u] = slots[u]
    BY <2>1
  <2> QED
    BY <1>3, <2>1, <2>2, RestKeepsSettled
<1>4. CASE Calls /\ UNCHANGED saved
  BY <1>1, <1>2, <1>3, <1>4, SignKeepsSettled, MarkSignedKeepsSettled, AnswerKeepsSettled
  DEF Calls, Step
<1>5. CASE SaveSession
  <2>1. /\ session' = session /\ sigs' = sigs /\ named' = named /\ landed' = landed
        /\ slots' = slots /\ pc' = pc
        /\ \A k \in Keys : saved'[k].held = session[k].held
    BY <1>5 DEF SaveSession, history, Exported
  <2> QED
    BY <2>1, RestKeepsSettled
<1>6. CASE RestoreSession
  BY <1>6, RestoreKeepsSettled
<1>7. CASE UNCHANGED vars
  <2>1. /\ session' = session /\ sigs' = sigs /\ named' = named /\ landed' = landed
        /\ slots' = slots /\ pc' = pc /\ saved' = saved
    BY <1>7 DEF vars
  <2> QED
    BY <2>1, RestKeepsSettled
<1> QED
  BY <1>4, <1>5, <1>6, <1>7 DEF Next

\* What happened to every signed nonce is known, for any threads and keys.
THEOREM SignedIsSettled == Spec => []SettledInv
<1>1. Init => SettledInv
  <2> SUFFICES ASSUME Init PROVE SettledInv
    OBVIOUS
  <2>1. \A k \in Keys, n \in Nonces :
          /\ sigs[k][n] = 0 /\ session[k].held[n] = "none" /\ saved[k].held[n] = "none"
    BY DEF Init, FreshKey, NoHolds, Exported
  <2> QED
    BY <2>1 DEF SettledInv
<1> QED
  BY <1>1, NextKeepsSettled, TypeCorrect, SigningInvariant, PTL DEF Spec

\* A call that names nothing is never granted a nonce above a transaction that
\* was rejected, lost or is still open and that the session knows of (slot).
THEOREM RejectedNotPassed == Spec => RejectedIsNotPassed
<1>1. ASSUME TypeOK, SigningInv, SettledInv, Next, NEW t \in Threads, NEW k \in Keys
      PROVE  NothingUnsettledBelow(t, k)
  <2> DEFINE m == slots'[t][k]
  <2>1. SUFFICES ASSUME ~Holds(t, k), m # NoSlot, m \notin named'[k],
                        NEW n \in 0 .. m - 1, sigs[k][n] > 0
                 PROVE  \/ n \in landed[k]
                        \/ \E j \in named[k] : n <= j
                        \/ \E u \in Threads : pc[u] = "signed" /\ slots[u][k] = n
    BY DEF NothingUnsettledBelow
  <2>2. ReserveOrder(t) \/ ReserveAccount(t)
    <3>1. slots'[t][k] # slots[t][k]
      BY <2>1 DEF Holds
    <3>2. ASSUME NEW u \in Threads, u # t, ReserveOrder(u) \/ ReserveAccount(u)
          PROVE  slots'[t] = slots[t]
      <4>1. PICK j \in Keys, reported \in Nonces, expected \in Nonces \cup {Unnamed}, next \in PCs :
              Reserve(u, j, reported, expected, next)
        BY <1>1, <3>2, SlotTaken DEF SigningInv, CallInv
      <4> QED
        BY <1>1, <3>2, <4>1 DEF Reserve, TypeOK
    <3>3. ASSUME NEW u \in Threads, NEW j \in Keys, Drop(u, j)
          PROVE  slots'[t][k] = slots[t][k] \/ slots'[t][k] = NoSlot
      BY <3>3 DEF Drop, TypeOK
    <3>4. ASSUME NEW u \in Threads, NEW accepted,
                 \/ Begin(u) \/ StopEarly(u) \/ Sign(u) \/ MarkSigned(u) \/ HookSaves(u)
                 \/ HookFails(u) \/ Answer(u, accepted) \/ NoAnswer(u) \/ Return(u)
          PROVE  slots' = slots
      BY <3>4 DEF Begin, StopEarly, Sign, MarkSigned, HookSaves, HookFails, Answer,
                  NoAnswer, Return
    <3>5. CASE SaveSession \/ RestoreSession
      BY <3>1, <3>5 DEF SaveSession, RestoreSession
    <3>6. CASE Calls
      BY <2>1, <3>1, <3>2, <3>3, <3>4, <3>6 DEF Calls, Step
    <3> QED
      BY <1>1, <3>5, <3>6 DEF Next
  <2>3. PICK j \in Keys, reported \in Nonces, expected \in Nonces \cup {Unnamed}, next \in PCs :
          Reserve(t, j, reported, expected, next)
    BY <1>1, <2>2, SlotTaken DEF SigningInv, CallInv
  <2>4. /\ j = k /\ m = reported /\ expected = Unnamed
        /\ SlotGranted(session[k], reported, expected, k \in OrderKeys)
    BY <1>1, <2>1, <2>3 DEF Reserve, Holds, TypeOK
  <2>5. ~HeldBelow(session[k], reported)
    BY <2>4 DEF SlotGranted
  <2>6. n \in Nonces /\ n < reported
    BY <2>1, <2>4, MaxNonceAssumption DEF Nonces
  <2>7. session[k].held[n] # "pending"
    BY <2>5, <2>6 DEF HeldBelow
  <2> QED
    BY <1>1, <2>1, <2>6, <2>7 DEF SettledInv, IsSettled
<1>2. ASSUME TypeOK, SigningInv, SettledInv, UNCHANGED vars, NEW t \in Threads, NEW k \in Keys
      PROVE  NothingUnsettledBelow(t, k)
  BY <1>2 DEF NothingUnsettledBelow, vars, Holds
<1>3. TypeOK /\ SigningInv /\ SettledInv /\ [Next]_vars =>
        [\A t \in Threads, k \in Keys : NothingUnsettledBelow(t, k)]_vars
  BY <1>1, <1>2
<1> QED
  BY <1>3, TypeCorrect, SigningInvariant, SignedIsSettled, PTL DEF Spec, RejectedIsNotPassed

-----------------------------------------------------------------------------
(* ClientSigning implements NonceLedger.                                     *)

\* The slots of a signed call are one transaction of the ledger.
LEMMA SlotsAreTransaction ==
  ASSUME TypeOK, GuardsFollowPC, NEW t \in Threads, pc[t] \in Started
  PROVE  Ledger!Transaction(slots[t])
<1>1. slots[t] \in [Ledger!Keys -> Ledger!Nonces \cup {Ledger!NoSlot}]
  BY DEF TypeOK, Ledger!Keys, Keys, Ledger!Nonces, Nonces, Ledger!NoSlot, NoSlot
<1>2. \E a \in AccountKeys : slots[t][a] # Ledger!NoSlot
  BY DEF TypeOK, GuardsFollowPC, Holds, NoSlot, Ledger!NoSlot
<1>3. Ledger!OneOf(slots[t], AccountKeys) /\ Ledger!OneOf(slots[t], OrderKeys)
  BY DEF GuardsFollowPC, Holds, NoSlot, Ledger!NoSlot, Ledger!OneOf
<1> QED
  BY <1>1, <1>2, <1>3 DEF Ledger!Transaction

\* Every step of a thread is a step of the ledger or leaves it alone.
THEOREM ImplementsLedger == Spec => LedgerSpec
<1> USE DEF Ledger!Keys, Keys, Ledger!Nonces, Nonces, Ledger!NoSlot, NoSlot
<1>1. Init => Ledger!Init
  BY DEF Init, Ledger!Init
<1>2. TypeOK /\ SigningInv /\ [Next]_vars => [Ledger!Next]_(Ledger!vars)
  <2> SUFFICES ASSUME TypeOK, SigningInv, [Next]_vars
               PROVE  Ledger!Next \/ UNCHANGED <<sigs, named, landed>>
    BY DEF Ledger!vars
  <2>1. ASSUME NEW t \in Threads,
               \/ Begin(t) \/ StopEarly(t) \/ MarkSigned(t) \/ HookSaves(t)
               \/ HookFails(t) \/ NoAnswer(t) \/ Return(t)
        PROVE  UNCHANGED <<sigs, named, landed>>
    BY <2>1 DEF Begin, StopEarly, MarkSigned, HookSaves, HookFails, NoAnswer, Return, history
  <2>2. ASSUME NEW t \in Threads, NEW k \in Keys, Drop(t, k)
        PROVE  UNCHANGED <<sigs, named, landed>>
    BY <2>2 DEF Drop, history
  <2>3. ASSUME NEW t \in Threads, ReserveOrder(t) \/ ReserveAccount(t)
        PROVE  Ledger!Next \/ UNCHANGED <<sigs, named, landed>>
    <3>1. PICK k \in Keys, reported \in Nonces, expected \in Nonces \cup {Unnamed},
               next \in PCs : Reserve(t, k, reported, expected, next)
      BY <2>3, SlotTaken DEF SigningInv, CallInv
    <3>2. \/ UNCHANGED <<sigs, named, landed>>
          \/ Ledger!NameNonce(k, reported)
      BY <3>1 DEF Reserve, Ledger!NameNonce
    <3> QED
      BY <3>2 DEF Ledger!Next
  <2>4. ASSUME NEW t \in Threads, Sign(t) PROVE Ledger!Next
    <3>1. Ledger!Transaction(slots[t])
      BY <2>4, SlotsAreTransaction DEF Sign, Started, SigningInv, CallInv
    <3>2. ASSUME NEW k \in Keys, slots[t][k] # NoSlot
          PROVE  Ledger!MaySign(k, slots[t][k])
      <4> DEFINE n == slots[t][k]
      <4>1. n \in Nonces /\ Holds(t, k)
        BY <3>2 DEF TypeOK, Holds
      <4>2. n \notin named[k] => sigs[k][n] = 0
        BY <2>4, <4>1 DEF Sign, SigningInv, CallInv, GuardsAreExclusive
      <4>3. n \notin named[k] /\ k \in OrderKeys => n = 0 \/ n - 1 \in landed[k]
        BY <4>1 DEF SigningInv, CallInv, OrdersAreEarned, Earned
      <4> QED
        BY <4>2, <4>3 DEF Ledger!MaySign
    <3>3. Ledger!SignAt(slots[t])
      BY <2>4, <3>1, <3>2 DEF Sign, Holds, Ledger!SignAt
    <3> QED
      BY <3>1, <3>3 DEF Ledger!Next, Ledger!Transaction
  <2>5. ASSUME NEW t \in Threads, NEW accepted \in BOOLEAN, Answer(t, accepted)
        PROVE  Ledger!Next \/ UNCHANGED <<sigs, named, landed>>
    <3>1. Ledger!Transaction(slots[t])
      BY <2>5, SlotsAreTransaction DEF Answer, Started, SigningInv, CallInv
    <3>2. \A k \in Keys : slots[t][k] # NoSlot => sigs[k][slots[t][k]] > 0
      BY <2>5 DEF Answer, Holds, SigningInv, CallInv, GuardsOfSigned
    <3>3. CASE accepted
      <4>1. Ledger!LandAt(slots[t])
        BY <2>5, <3>1, <3>2, <3>3 DEF Answer, Holds, Ledger!LandAt
      <4> QED
        BY <3>1, <4>1 DEF Ledger!Next, Ledger!Transaction
    <3>4. CASE ~accepted
      BY <2>5, <3>4 DEF Answer
    <3> QED
      BY <3>3, <3>4
  <2>6. CASE SaveSession \/ RestoreSession \/ UNCHANGED vars
    BY <2>6 DEF SaveSession, RestoreSession, vars, history
  <2> QED
    BY <2>1, <2>2, <2>3, <2>4, <2>5, <2>6 DEF Next, Calls, Step
<1> QED
  BY <1>1, <1>2, TypeCorrect, SigningInvariant, PTL DEF Spec, LedgerSpec, Ledger!Spec
-----------------------------------------------------------------------------
(* DurableSigning: hooks that do not overlap.                                *)

\* No hook is called while another one has a text it has not written.
HooksInTurn ==
  \A t, u \in Threads : text[t] # Blank /\ text[u] # Blank => t = u

DurableType ==
  /\ TypeOK
  /\ text \in [Threads -> [Keys -> SavedKey]]
  /\ file \in [Keys -> SavedKey]
  /\ sent \in [Keys -> [Nonces -> 0 .. 2]]

TextsArePassed ==
  \A k \in Keys : AcceptedPassed(file[k]) /\ \A t \in Threads : AcceptedPassed(text[t][k])

\* What was sent is on the file, and what is on the file is in the session.
FileIsKnown ==
  \A k \in Keys, n \in Nonces : n \notin named[k] =>
    /\ sent[k][n] > 0 => Closed(file[k], n)
    /\ Closed(file[k], n) => Closed(session[k], n)

\* The text a hook is about to write has all that is on the file, and the
\* nonces of its own transaction.
TextIsNewest ==
  \A t \in Threads : text[t] # Blank =>
    /\ pc[t] = "hook"
    /\ \A k \in Keys, n \in Nonces : n \notin named[k] =>
         /\ Closed(file[k], n) \/ slots[t][k] = n => Closed(text[t][k], n)
         /\ Closed(text[t][k], n) => Closed(session[k], n)

\* What a call is about to send is on the file.
SubmitIsOnFile ==
  \A k \in Keys, n \in Nonces : n \notin named[k] =>
    \A t \in Threads : slots[t][k] = n /\ pc[t] = "submit" => Closed(file[k], n)

\* GuardsAreExclusive for what was sent: a restart forgets signatures.
Unsent == {"account", "sign", "signed", "hook", "submit"}
GuardsAreUnsent ==
  \A k \in Keys, n \in Nonces : n \notin named[k] =>
    \A t \in Threads : slots[t][k] = n =>
      /\ \A u \in Threads : slots[u][k] = n => u = t
      /\ IF pc[t] \in {"hook", "submit"} THEN Closed(session[k], n)
         ELSE n \in session[k].reserved \/ (pc[t] = "drop" /\ Closed(session[k], n))
      /\ pc[t] \in Unsent => sent[k][n] = 0

\* GuardsAreUnsent after a step, with what had been sent before it.
GuardsStayUnsent ==
  \A k \in Keys, n \in Nonces : n \notin named'[k] =>
    \A t \in Threads : slots'[t][k] = n =>
      /\ \A u \in Threads : slots'[u][k] = n => u = t
      /\ IF pc'[t] \in {"hook", "submit"} THEN Closed(session'[k], n)
         ELSE n \in session'[k].reserved \/ (pc'[t] = "drop" /\ Closed(session'[k], n))
      /\ pc'[t] \in Unsent => sent[k][n] = 0

DurableInv ==
  /\ GuardsFollowPC
  /\ AcceptedIsPassed
  /\ TextsArePassed
  /\ FileIsKnown
  /\ TextIsNewest
  /\ SubmitIsOnFile
  /\ GuardsAreUnsent
  /\ SentOnce

\* A step of a call opens no nonce that is not named, and what it accepts is
\* passed.
LEMMA CallKeepsClosed ==
  ASSUME TypeOK, GuardsFollowPC, AcceptedIsPassed, Calls
  PROVE  /\ AcceptedIsPassed'
         /\ \A k \in Keys : named[k] \subseteq named'[k]
         /\ \A k \in Keys, n \in Nonces :
              Closed(session[k], n) /\ n \notin named'[k] => Closed(session'[k], n)
<1> USE DEF TypeOK
<1>1. ASSUME NEW t \in Threads, ReserveOrder(t) \/ ReserveAccount(t),
             NEW j \in Keys
      PROVE  /\ AcceptedPassed(session'[j])
             /\ named[j] \subseteq named'[j]
             /\ \A n \in Nonces :
                  Closed(session[j], n) /\ n \notin named'[j] => Closed(session'[j], n)
  <2>1. PICK k \in Keys, reported \in Nonces, expected \in Nonces \cup {Unnamed}, next \in PCs :
          Reserve(t, k, reported, expected, next)
    BY <1>1, SlotTaken
  <2> DEFINE order == k \in OrderKeys
             ok == SlotGranted(session[k], reported, expected, order)
  <2>2. /\ session' = [session EXCEPT ![k] = Slot(session[k], reported, expected, order)]
        /\ named' = IF ok /\ expected # Unnamed
                    THEN [named EXCEPT ![k] = @ \cup {reported}] ELSE named
    BY <2>1 DEF Reserve
  <2>3. order \in BOOLEAN /\ session[k] \in KeyState /\ session[j] \in KeyState
        /\ AcceptedPassed(session[k]) /\ AcceptedPassed(session[j])
    BY DEF AcceptedIsPassed
  <2> HIDE DEF ok, order, TypeOK
  <2>4. CASE j # k
    <3>1. session'[j] = session[j] /\ named'[j] = named[j]
      BY <2>2, <2>4 DEF TypeOK
    <3> QED
      BY <2>3, <3>1
  <2>5. CASE j = k
    <3>1. session'[k] = Slot(session[k], reported, expected, order)
      BY <2>2 DEF TypeOK
    <3>2. /\ named[k] \subseteq named'[k]
          /\ ok /\ expected # Unnamed => reported \in named'[k]
      BY <2>2 DEF TypeOK
    <3>3. AcceptedPassed(Slot(session[k], reported, expected, order))
      BY <2>3, SlotKeepsAcceptedPassed
    <3>4. ASSUME NEW n \in Nonces, Closed(session[k], n), n \notin named'[k]
          PROVE  Closed(Slot(session[k], reported, expected, order), n)
      BY <2>3, <3>2, <3>4, SlotKeepsClosed DEF ok
    <3> QED
      BY <2>5, <3>1, <3>2, <3>3, <3>4
  <2> QED
    BY <2>4, <2>5
<1>2. ASSUME NEW t \in Threads,
             \/ MarkSigned(t)
             \/ \E accepted \in BOOLEAN : Answer(t, accepted)
             \/ \E k \in Keys : Drop(t, k),
             NEW j \in Keys
      PROVE  /\ AcceptedPassed(session'[j])
             /\ named' = named
             /\ \A n \in Nonces : Closed(session[j], n) => Closed(session'[j], n)
  <2>1. named' = named
    BY <1>2 DEF MarkSigned, Answer, Drop, history
  <2>2. session[j] \in KeyState /\ AcceptedPassed(session[j])
    BY DEF AcceptedIsPassed
  <2>3. slots[t][j] # NoSlot => slots[t][j] \in Nonces
    OBVIOUS
  <2>4. \/ session'[j] = session[j]
        \/ /\ slots[t][j] # NoSlot
           /\ \/ session'[j] = Signed(session[j], slots[t][j])
              \/ \E accepted \in BOOLEAN :
                   session'[j] = Outcome(session[j], slots[t][j], accepted)
              \/ session'[j] = Release(session[j], slots[t][j])
    BY <1>2 DEF MarkSigned, Answer, Drop, Holds
  <2> HIDE DEF TypeOK
  <2>5. CASE session'[j] = session[j]
    BY <2>1, <2>2, <2>5
  <2>6. CASE slots[t][j] # NoSlot /\ session'[j] = Signed(session[j], slots[t][j])
    BY <2>1, <2>2, <2>3, <2>6, SignedCloses
  <2>7. ASSUME slots[t][j] # NoSlot, NEW accepted \in BOOLEAN,
               session'[j] = Outcome(session[j], slots[t][j], accepted)
        PROVE  /\ AcceptedPassed(session'[j])
               /\ \A n \in Nonces : Closed(session[j], n) => Closed(session'[j], n)
    BY <2>2, <2>3, <2>7, OutcomeKeepsClosed
  <2>8. CASE slots[t][j] # NoSlot /\ session'[j] = Release(session[j], slots[t][j])
    BY <2>1, <2>2, <2>8 DEF Release, AcceptedPassed, Closed, KeyState
  <2> QED
    BY <2>1, <2>4, <2>5, <2>6, <2>7, <2>8
<1>3. ASSUME NEW t \in Threads,
             \/ Begin(t) \/ StopEarly(t) \/ Sign(t) \/ HookSaves(t)
             \/ HookFails(t) \/ NoAnswer(t) \/ Return(t)
      PROVE  named' = named /\ session' = session
  BY <1>3 DEF Begin, StopEarly, Sign, HookSaves, HookFails, NoAnswer, Return, history
<1>4. ASSUME NEW j \in Keys
      PROVE  /\ AcceptedPassed(session'[j])
             /\ named[j] \subseteq named'[j]
             /\ \A n \in Nonces :
                  Closed(session[j], n) /\ n \notin named'[j] => Closed(session'[j], n)
  BY <1>1, <1>2, <1>3 DEF Calls, Step, AcceptedIsPassed
<1> QED
  BY <1>4 DEF AcceptedIsPassed, AcceptedPassed

\* A slot granted in a step of a call, for what is sent.
LEMMA ReserveKeepsUnsent ==
  ASSUME DurableType, DurableInv, NEW t \in Threads, ReserveOrder(t) \/ ReserveAccount(t)
  PROVE  GuardsStayUnsent
<1> USE DEF DurableType
<1>1. PICK k \in Keys, reported \in Nonces, expected \in Nonces \cup {Unnamed}, next \in PCs :
        /\ Reserve(t, k, reported, expected, next)
        /\ ~Holds(t, k)
        /\ \/ pc[t] = "order" /\ next = "account" /\ k \in OrderKeys
           \/ pc[t] = "account" /\ next = "sign" /\ k = payer[t]
  BY SlotTaken DEF DurableInv
<1> DEFINE order == k \in OrderKeys
           ok == SlotGranted(session[k], reported, expected, order)
<1>2. /\ session' = [session EXCEPT ![k] = Slot(session[k], reported, expected, order)]
      /\ named' = IF ok /\ expected # Unnamed
                  THEN [named EXCEPT ![k] = @ \cup {reported}] ELSE named
      /\ slots' = IF ok THEN [slots EXCEPT ![t][k] = reported] ELSE slots
      /\ pc' = [pc EXCEPT ![t] = IF ok THEN next ELSE "drop"]
  BY <1>1 DEF Reserve
<1>3. order \in BOOLEAN /\ session[k] \in KeyState
  BY DEF TypeOK
<1> HIDE DEF ok, order
<1>4. \A u \in Threads, j \in Keys :
        slots'[u][j] = IF ok /\ u = t /\ j = k THEN reported ELSE slots[u][j]
  BY <1>2 DEF TypeOK
<1>5. /\ \A j \in Keys : \A n \in session[j].reserved : n \in session'[j].reserved
      /\ ok => reported \in session'[k].reserved
  <2> HIDE DEF DurableType
  <2> DEFINE after == Slot(session[k], reported, expected, order)
  <2>1. IF SlotGranted(session[k], reported, expected, order)
        THEN /\ after.reserved = session[k].reserved \cup {reported}
             /\ after.next = session[k].next \/ after.next = reported
        ELSE after.reserved = session[k].reserved /\ after.next = session[k].next
    BY <1>3, SlotNextAndReserved
  <2>2. session'[k] = Slot(session[k], reported, expected, order)
    BY <1>2 DEF TypeOK, DurableType
  <2>3. \A j \in Keys : j # k => session'[j] = session[j]
    BY <1>2 DEF TypeOK, DurableType
  <2> QED
    BY <2>1, <2>2, <2>3 DEF ok
<1>6. \A j \in Keys, n \in Nonces :
        Closed(session[j], n) /\ n \notin named'[j] => Closed(session'[j], n)
  <2>1. Calls
    BY DEF Calls, Step
  <2> QED
    BY <2>1, CallKeepsClosed DEF DurableInv
<1>7. \A j \in Keys : named[j] \subseteq named'[j]
  BY <1>2 DEF TypeOK
<1>8. ASSUME ok, reported \notin named'[k]
      PROVE  /\ \A u \in Threads : slots[u][k] # reported
             /\ sent[k][reported] = 0
  <2>1. expected = Unnamed /\ reported \notin named[k]
    BY <1>2, <1>7, <1>8 DEF TypeOK
  <2>2. ~Closed(session[k], reported) /\ reported \notin session[k].reserved
    BY <1>3, <1>8, <2>1, SlotGrantedUnnamed DEF ok
  <2>3. \A u \in Threads : slots[u][k] # reported
    BY <2>1, <2>2 DEF DurableInv, GuardsAreUnsent
  <2>4. ~(sent[k][reported] > 0)
    BY <2>1, <2>2 DEF DurableInv, FileIsKnown
  <2>5. sent[k][reported] \in 0 .. 2
    OBVIOUS
  <2> QED
    BY <2>3, <2>4, <2>5
<1> SUFFICES ASSUME NEW j \in Keys, NEW n \in Nonces, n \notin named'[j],
                    NEW u \in Threads, slots'[u][j] = n
             PROVE  /\ \A v \in Threads : slots'[v][j] = n => v = u
                    /\ IF pc'[u] \in {"hook", "submit"} THEN Closed(session'[j], n)
                       ELSE \/ n \in session'[j].reserved
                            \/ pc'[u] = "drop" /\ Closed(session'[j], n)
                    /\ pc'[u] \in Unsent => sent[j][n] = 0
  BY DEF GuardsStayUnsent
<1>9. n \notin named[j]
  BY <1>7
<1>10. pc'[t] \in {"account", "sign", "drop"} /\ \A v \in Threads : v # t => pc'[v] = pc[v]
  BY <1>1, <1>2 DEF TypeOK
<1>11. CASE ok /\ u = t /\ j = k
  <2>1. n = reported
    BY <1>4, <1>11
  <2> QED
    BY <1>4, <1>5, <1>8, <1>10, <1>11, <2>1
<1>12. CASE ~(ok /\ u = t /\ j = k)
  <2>1. slots[u][j] = n
    BY <1>4, <1>12
  <2>2. /\ \A v \in Threads : slots[v][j] = n => v = u
        /\ IF pc[u] \in {"hook", "submit"} THEN Closed(session[j], n)
           ELSE n \in session[j].reserved \/ (pc[u] = "drop" /\ Closed(session[j], n))
        /\ pc[u] \in Unsent => sent[j][n] = 0
    BY <1>9, <2>1 DEF DurableInv, GuardsAreUnsent
  <2>3. ~(ok /\ j = k /\ reported = n)
    BY <1>8, <2>1
  <2>4. \A v \in Threads : slots'[v][j] = n => v = u
    BY <1>4, <2>2, <2>3
  <2>5. Closed(session[j], n) => Closed(session'[j], n)
    BY <1>6
  <2>6. n \in session[j].reserved => n \in session'[j].reserved
    BY <1>5
  <2> HIDE DEF DurableType
  <2>7. CASE u # t
    BY <1>10, <2>2, <2>4, <2>5, <2>6, <2>7
  <2>8. CASE u = t
    <3>1. pc[t] = "account"
      <4>1. Holds(t, j)
        BY <2>1, <2>8 DEF Holds, NoSlot, Nonces
      <4> QED
        BY <1>1, <4>1 DEF DurableInv, GuardsFollowPC, Spends
    <3> QED
      BY <1>10, <2>2, <2>4, <2>6, <2>8, <3>1 DEF Unsent
  <2> QED
    BY <2>7, <2>8
<1> QED
  BY <1>11, <1>12

\* The other steps of a call, for what is sent.
LEMMA CallKeepsUnsent ==
  ASSUME DurableType, DurableInv, NEW t \in Threads, pc[t] # "hook", Begin(t) \/ Step(t)
  PROVE  GuardsStayUnsent
<1> USE DEF DurableType, TypeOK
<1>1. CASE ReserveOrder(t) \/ ReserveAccount(t)
  BY <1>1, ReserveKeepsUnsent
<1>2. ASSUME \/ Begin(t) \/ StopEarly(t) \/ Sign(t) \/ MarkSigned(t)
             \/ \E accepted \in BOOLEAN : Answer(t, accepted)
             \/ NoAnswer(t) \/ (\E k \in Keys : Drop(t, k)) \/ Return(t)
      PROVE  GuardsStayUnsent
  <2>1. Calls
    BY <1>2 DEF Calls, Step
  <2>2. /\ \A j \in Keys : named[j] \subseteq named'[j]
        /\ \A j \in Keys, n \in Nonces :
             Closed(session[j], n) /\ n \notin named'[j] => Closed(session'[j], n)
    BY <2>1, CallKeepsClosed DEF DurableInv
  <2>3. \A u \in Threads : u # t => pc'[u] = pc[u]
    BY <1>2 DEF Begin, StopEarly, Sign, MarkSigned, Answer, NoAnswer, Drop, Return
  <2>4. \A u \in Threads, j \in Keys, n \in Nonces : slots'[u][j] = n => slots[u][j] = n
    <3>1. slots' = slots \/ \E k \in Keys : slots' = [slots EXCEPT ![t][k] = NoSlot]
      BY <1>2 DEF Begin, StopEarly, Sign, MarkSigned, Answer, NoAnswer, Drop, Return
    <3>2. ASSUME NEW k \in Keys, slots' = [slots EXCEPT ![t][k] = NoSlot],
                 NEW u \in Threads, NEW j \in Keys
          PROVE  slots'[u][j] = slots[u][j] \/ slots'[u][j] = NoSlot
      BY <3>2
    <3>3. \A n \in Nonces : n # NoSlot
      BY DEF NoSlot, Nonces
    <3> HIDE DEF TypeOK, DurableType
    <3> QED
      BY <3>1, <3>2, <3>3
  \* What the step gives back is the thread's own, and its mark closes it.
  <2>5. \A j \in Keys, n \in Nonces :
          n \in session[j].reserved =>
            \/ n \in session'[j].reserved
            \/ /\ slots[t][j] = n
               /\ \/ pc[t] = "signed" /\ pc'[t] \in {"hook", "submit"} /\ Closed(session'[j], n)
                  \/ slots'[t][j] # n
    <3> SUFFICES ASSUME NEW j \in Keys, NEW n \in Nonces,
                        n \in session[j].reserved, n \notin session'[j].reserved
                 PROVE  /\ slots[t][j] = n
                        /\ \/ /\ pc[t] = "signed" /\ pc'[t] \in {"hook", "submit"}
                              /\ Closed(session'[j], n)
                           \/ slots'[t][j] # n
      OBVIOUS
    <3>1. CASE MarkSigned(t)
      <4>1. Holds(t, j) /\ session'[j] = Signed(session[j], slots[t][j])
        BY <3>1 DEF MarkSigned
      <4>2. slots[t][j] = n
        BY <4>1 DEF Signed, KeyState
      <4>3. pc[t] = "signed" /\ pc'[t] \in {"hook", "submit"}
        BY <3>1 DEF MarkSigned
      <4>4. Closed(session'[j], n)
        BY <4>1, <4>2 DEF Signed, KeyState, Closed
      <4> QED
        BY <4>2, <4>3, <4>4
    <3>2. ASSUME NEW k \in Keys, Drop(t, k) PROVE slots[t][j] = n /\ slots'[t][j] # n
      <4>1. j = k /\ session'[j] = Release(session[j], slots[t][j]) /\ slots'[t][j] = NoSlot
        BY <3>2 DEF Drop
      <4> QED
        BY <4>1 DEF Release, KeyState, NoSlot, Nonces
    <3>3. ASSUME NEW accepted \in BOOLEAN, Answer(t, accepted) PROVE FALSE
      <4>1. session'[j] = session[j] \/ session'[j] = Outcome(session[j], slots[t][j], accepted)
        BY <3>3 DEF Answer
      <4> QED
        BY <4>1 DEF Outcome, KeyState
    <3>4. CASE Begin(t) \/ StopEarly(t) \/ Sign(t) \/ NoAnswer(t) \/ Return(t)
      BY <3>4 DEF Begin, StopEarly, Sign, NoAnswer, Return
    <3> QED
      BY <1>2, <3>1, <3>2, <3>3, <3>4
  <2>6. \/ pc[t] = "idle" /\ Spends(t) = {}
        \/ pc[t] \in {"order", "account", "sign"} /\ pc'[t] = "drop"
        \/ pc[t] = "sign" /\ pc'[t] = "signed"
        \/ pc[t] = "signed" /\ pc'[t] \in {"hook", "submit"} /\ MarkSigned(t)
        \/ pc[t] = "submit" /\ pc'[t] = "drop"
        \/ pc[t] = "drop" /\ pc'[t] = "drop"
        \/ pc[t] = "drop" /\ Spends(t) = {}
    <3>1. Begin(t) => pc[t] = "idle" /\ Spends(t) = {}
      BY DEF Begin, DurableInv, GuardsFollowPC
    <3> QED
      BY <1>2, <3>1 DEF StopEarly, Sign, MarkSigned, Answer, NoAnswer, Drop, Return
  <2> SUFFICES ASSUME NEW j \in Keys, NEW n \in Nonces, n \notin named'[j],
                      NEW u \in Threads, slots'[u][j] = n
               PROVE  /\ \A v \in Threads : slots'[v][j] = n => v = u
                      /\ IF pc'[u] \in {"hook", "submit"} THEN Closed(session'[j], n)
                         ELSE \/ n \in session'[j].reserved
                              \/ pc'[u] = "drop" /\ Closed(session'[j], n)
                      /\ pc'[u] \in Unsent => sent[j][n] = 0
    BY DEF GuardsStayUnsent
  <2>7. n \notin named[j] /\ slots[u][j] = n
    BY <2>2, <2>4
  <2>8. /\ \A v \in Threads : slots[v][j] = n => v = u
        /\ IF pc[u] \in {"hook", "submit"} THEN Closed(session[j], n)
           ELSE n \in session[j].reserved \/ (pc[u] = "drop" /\ Closed(session[j], n))
        /\ pc[u] \in Unsent => sent[j][n] = 0
    BY <2>7 DEF DurableInv, GuardsAreUnsent
  <2>9. \A v \in Threads : slots'[v][j] = n => v = u
    <3> HIDE DEF DurableType, TypeOK
    <3> QED
      BY <2>4, <2>8
  <2>10. Closed(session[j], n) => Closed(session'[j], n)
    BY <2>2
  <2>11. n \in session[j].reserved =>
           \/ n \in session'[j].reserved
           \/ u = t /\ pc[t] = "signed" /\ pc'[t] \in {"hook", "submit"} /\ Closed(session'[j], n)
    BY <2>5, <2>8
  <2>12. Spends(u) # {}
    BY <2>7 DEF Spends, Holds, NoSlot, Nonces
  <2> HIDE DEF DurableType, TypeOK
  <2>13. CASE u # t
    BY <2>3, <2>8, <2>9, <2>10, <2>11, <2>13
  <2>14. CASE u = t
    <3>1. MarkSigned(t) => Closed(session'[j], n)
      <4>1. session[j] \in KeyState /\ n # NoSlot
        BY DEF DurableType, TypeOK, NoSlot, Nonces
      <4>2. MarkSigned(t) => session'[j] = Signed(session[j], n)
        BY <2>7, <2>14, <4>1 DEF MarkSigned, Holds
      <4>3. Closed(Signed(session[j], n), n)
        BY <4>1 DEF Signed, Closed, KeyState
      <4> QED
        BY <4>2, <4>3
    <3>2. pc[t] = "order" => Spends(t) = {}
      BY DEF DurableInv, GuardsFollowPC
    <3> QED
      BY <2>6, <2>8, <2>9, <2>10, <2>11, <2>12, <2>14, <3>1, <3>2 DEF Unsent
  <2> QED
    BY <2>13, <2>14
<1> QED
  BY <1>1, <1>2 DEF Step, HookSaves, HookFails

\* A step of a call outside its hook leaves the texts alone.
LEMMA CallKeepsTexts ==
  ASSUME DurableType, DurableInv, NEW t \in Threads, pc[t] # "hook", Begin(t) \/ Step(t),
         text' = text, file' = file
  PROVE  /\ GuardsFollowPC' /\ AcceptedIsPassed' /\ TextsArePassed' /\ TextIsNewest'
         /\ \A k \in Keys : named[k] \subseteq named'[k]
         /\ \A k \in Keys, n \in Nonces : n \notin named'[k] =>
              (Closed(file[k], n) => Closed(session'[k], n))
         /\ \A u \in Threads : u # t => pc'[u] = pc[u] /\ slots'[u] = slots[u]
<1>1. Calls
  BY DEF Calls
<1>2. GuardsFollowPC' /\ AcceptedIsPassed'
  BY <1>1, CallKeepsGuards, CallKeepsClosed DEF DurableType, DurableInv
<1>3. /\ \A k \in Keys : named[k] \subseteq named'[k]
      /\ \A k \in Keys, n \in Nonces :
           Closed(session[k], n) /\ n \notin named'[k] => Closed(session'[k], n)
  BY <1>1, CallKeepsClosed DEF DurableType, DurableInv
<1>4. TextsArePassed'
  BY DEF DurableInv, TextsArePassed, AcceptedPassed
<1>5. \A k \in Keys, n \in Nonces : n \notin named'[k] =>
        (Closed(file[k], n) => Closed(session'[k], n))
  BY <1>3 DEF DurableInv, FileIsKnown
<1>6. \A u \in Threads : u # t => pc'[u] = pc[u] /\ slots'[u] = slots[u]
  <2>1. CASE ReserveOrder(t) \/ ReserveAccount(t)
    BY <2>1 DEF ReserveOrder, ReserveAccount, Reserve, DurableType, TypeOK
  <2>2. CASE ~(ReserveOrder(t) \/ ReserveAccount(t))
    BY <2>2 DEF Step, Begin, StopEarly, Sign, MarkSigned, HookSaves, HookFails, Answer,
                NoAnswer, Drop, Return, DurableType, TypeOK
  <2> QED
    BY <2>1, <2>2
<1>7. TextIsNewest'
  <2>1. \A u \in Threads : text[u] # Blank => u # t
    BY DEF DurableInv, TextIsNewest
  <2> SUFFICES ASSUME NEW u \in Threads, text[u] # Blank
               PROVE  /\ pc'[u] = "hook"
                      /\ \A k \in Keys, n \in Nonces : n \notin named'[k] =>
                           /\ Closed(file[k], n) \/ slots'[u][k] = n => Closed(text[u][k], n)
                           /\ Closed(text[u][k], n) => Closed(session'[k], n)
    BY DEF TextIsNewest, Closed, Blank
  <2> QED
    BY <1>3, <1>6, <2>1 DEF DurableInv, TextIsNewest
<1> QED
  BY <1>2, <1>3, <1>4, <1>5, <1>6, <1>7

\* A step that neither writes nor sends.
LEMMA OtherKeepsDurable ==
  ASSUME DurableType, DurableInv, Hooked = Threads, NEW t \in Threads, OtherStep(t)
  PROVE  DurableInv'
<1>1. /\ pc[t] # "hook" /\ pc[t] # "submit" /\ (Begin(t) \/ Step(t))
      /\ text' = text /\ file' = file /\ sent' = sent
  BY DEF OtherStep, durable
<1>2. /\ GuardsFollowPC' /\ AcceptedIsPassed' /\ TextsArePassed' /\ TextIsNewest'
      /\ \A k \in Keys : named[k] \subseteq named'[k]
      /\ \A k \in Keys, n \in Nonces : n \notin named'[k] =>
           (Closed(file[k], n) => Closed(session'[k], n))
      /\ \A u \in Threads : u # t => pc'[u] = pc[u] /\ slots'[u] = slots[u]
  BY <1>1, CallKeepsTexts
<1>3. FileIsKnown'
  <2> SUFFICES ASSUME NEW k \in Keys, NEW n \in Nonces, n \notin named'[k]
               PROVE  /\ sent[k][n] > 0 => Closed(file[k], n)
                      /\ Closed(file[k], n) => Closed(session'[k], n)
    BY <1>1 DEF FileIsKnown, Closed
  <2> QED
    BY <1>2 DEF DurableInv, FileIsKnown
<1>4. SubmitIsOnFile'
  <2>1. pc'[t] # "submit"
    <3>1. CASE ReserveOrder(t) \/ ReserveAccount(t)
      <4>1. PICK k \in Keys, reported \in Nonces, expected \in Nonces \cup {Unnamed}, next \in PCs :
              /\ Reserve(t, k, reported, expected, next)
              /\ next = "account" \/ next = "sign"
        BY <3>1, SlotTaken DEF DurableType, DurableInv
      <4> QED
        BY <4>1 DEF Reserve, DurableType, TypeOK
    <3>2. CASE ~(ReserveOrder(t) \/ ReserveAccount(t))
      BY <1>1, <3>2 DEF Step, Begin, StopEarly, Sign, MarkSigned, HookSaves, HookFails, Answer,
                        NoAnswer, Drop, Return, DurableType, TypeOK
    <3> QED
      BY <3>1, <3>2
  <2> SUFFICES ASSUME NEW k \in Keys, NEW n \in Nonces, n \notin named'[k],
                      NEW u \in Threads, slots'[u][k] = n, pc'[u] = "submit"
               PROVE  Closed(file[k], n)
    BY <1>1 DEF SubmitIsOnFile, Closed
  <2> QED
    BY <1>2, <2>1 DEF DurableInv, SubmitIsOnFile
<1>5. GuardsAreUnsent'
  <2>1. GuardsStayUnsent
    BY <1>1, CallKeepsUnsent
  <2> QED
    BY <1>1, <2>1 DEF GuardsStayUnsent, GuardsAreUnsent, Closed
<1>6. SentOnce'
  BY <1>1, <1>2 DEF DurableInv, SentOnce
<1> QED
  BY <1>2, <1>3, <1>4, <1>5, <1>6 DEF DurableInv

\* What a send counts, once for every nonce of the transaction.
LEMMA SentCounted ==
  ASSUME DurableType, NEW t \in Threads, Send(t), NEW k \in Keys, NEW n \in Nonces
  PROVE  sent'[k][n] = IF slots[t][k] = n
                       THEN IF sent[k][n] = 2 THEN 2 ELSE sent[k][n] + 1
                       ELSE sent[k][n]
<1>1. slots[t][k] = n => Holds(t, k)
  BY DEF Holds, NoSlot, Nonces
<1>2. sent'[k] = IF Holds(t, k)
                 THEN [sent[k] EXCEPT ![slots[t][k]] = IF @ = 2 THEN 2 ELSE @ + 1]
                 ELSE sent[k]
  BY DEF Send
<1>3. sent[k] \in [Nonces -> 0 .. 2]
  BY DEF DurableType
<1>4. CASE slots[t][k] = n
  BY <1>1, <1>2, <1>3, <1>4
<1>5. CASE slots[t][k] # n
  BY <1>2, <1>3, <1>5
<1> QED
  BY <1>4, <1>5

\* A transaction goes out at nonces that are on the file and were not sent.
LEMMA SendKeepsDurable ==
  ASSUME DurableType, DurableInv, NEW t \in Threads, Send(t)
  PROVE  DurableInv'
<1>1. /\ pc[t] = "submit" /\ pc[t] # "hook" /\ (Begin(t) \/ Step(t))
      /\ text' = text /\ file' = file /\ slots' = slots /\ named' = named
      /\ pc' = [pc EXCEPT ![t] = "drop"]
  BY DEF Send, NoAnswer, Answer, history, Step
<1>2. /\ GuardsFollowPC' /\ AcceptedIsPassed' /\ TextsArePassed' /\ TextIsNewest'
      /\ \A k \in Keys, n \in Nonces : n \notin named[k] =>
           (Closed(file[k], n) => Closed(session'[k], n))
  BY <1>1, CallKeepsTexts
<1>3. pc'[t] = "drop" /\ \A u \in Threads : u # t => pc'[u] = pc[u]
  BY <1>1 DEF DurableType, TypeOK
<1>4. ASSUME NEW k \in Keys, NEW n \in Nonces, n \notin named[k]
      PROVE  /\ slots[t][k] = n => /\ Closed(file[k], n)
                                   /\ sent'[k][n] = 1
                                   /\ \A u \in Threads : slots[u][k] = n => u = t
             /\ slots[t][k] # n => sent'[k][n] = sent[k][n]
  <2>1. slots[t][k] = n => /\ Closed(file[k], n)
                           /\ sent[k][n] = 0
                           /\ \A u \in Threads : slots[u][k] = n => u = t
    BY <1>1, <1>4 DEF DurableInv, SubmitIsOnFile, GuardsAreUnsent, Unsent
  <2> QED
    BY <2>1, SentCounted
<1>5. FileIsKnown'
  <2> SUFFICES ASSUME NEW k \in Keys, NEW n \in Nonces, n \notin named[k]
               PROVE  /\ sent'[k][n] > 0 => Closed(file[k], n)
                      /\ Closed(file[k], n) => Closed(session'[k], n)
    BY <1>1 DEF FileIsKnown, Closed
  <2> QED
    BY <1>2, <1>4 DEF DurableInv, FileIsKnown
<1>6. SubmitIsOnFile'
  BY <1>1, <1>3 DEF DurableInv, SubmitIsOnFile, Closed
<1>7. GuardsAreUnsent'
  <2>1. GuardsStayUnsent
    BY <1>1, CallKeepsUnsent
  <2> SUFFICES ASSUME NEW k \in Keys, NEW n \in Nonces, n \notin named[k],
                      NEW u \in Threads, slots[u][k] = n
               PROVE  /\ \A v \in Threads : slots[v][k] = n => v = u
                      /\ IF pc'[u] \in {"hook", "submit"} THEN Closed(session'[k], n)
                         ELSE \/ n \in session'[k].reserved
                              \/ pc'[u] = "drop" /\ Closed(session'[k], n)
                      /\ pc'[u] \in Unsent => sent'[k][n] = 0
    BY <1>1 DEF GuardsAreUnsent, Closed
  <2>2. /\ \A v \in Threads : slots[v][k] = n => v = u
        /\ IF pc'[u] \in {"hook", "submit"} THEN Closed(session'[k], n)
           ELSE n \in session'[k].reserved \/ (pc'[u] = "drop" /\ Closed(session'[k], n))
        /\ pc'[u] \in Unsent => sent[k][n] = 0
    BY <1>1, <2>1 DEF GuardsStayUnsent
  <2>3. pc'[u] \in Unsent => sent'[k][n] = 0
    BY <1>3, <1>4, <2>2 DEF Unsent
  <2> QED
    BY <2>2, <2>3
<1>8. SentOnce'
  <2> SUFFICES ASSUME NEW k \in Keys, NEW n \in Nonces, n \notin named[k]
               PROVE  sent'[k][n] <= 1
    BY <1>1 DEF SentOnce
  <2>1. sent[k][n] <= 1
    BY DEF DurableInv, SentOnce
  <2> QED
    BY <1>4, <2>1
<1> QED
  BY <1>2, <1>5, <1>6, <1>7, <1>8 DEF DurableInv

\* What is exported closes what the session closes.
LEMMA ExportedCloses ==
  ASSUME NEW ks \in KeyState
  PROVE  /\ \A n \in Nonces : Closed(Exported(ks), n) <=> Closed(ks, n)
         /\ AcceptedPassed(ks) => AcceptedPassed(Exported(ks))
  BY DEF Exported, Closed, AcceptedPassed

\* The text a hook is handed.
LEMMA TakeTextKeepsDurable ==
  ASSUME DurableType, DurableInv, NEW t \in Threads, TakeText(t)
  PROVE  DurableInv'
<1>1. /\ pc[t] = "hook" /\ text[t] = Blank /\ file' = file /\ sent' = sent
      /\ session' = session /\ pc' = pc /\ slots' = slots /\ payer' = payer /\ named' = named
  BY DEF TakeText, vars
<1>2. \A u \in Threads, k \in Keys :
        text'[u][k] = IF u = t THEN Exported(session[k]) ELSE text[u][k]
  BY DEF TakeText, DurableType
<1>3. \A k \in Keys : /\ session[k] \in KeyState
                      /\ AcceptedPassed(session[k])
  BY DEF DurableType, TypeOK, DurableInv, AcceptedIsPassed
<1>4. GuardsFollowPC' /\ AcceptedIsPassed'
  BY <1>1 DEF DurableInv, GuardsFollowPC, Spends, Holds, AcceptedIsPassed, AcceptedPassed
<1>5. FileIsKnown' /\ SubmitIsOnFile' /\ GuardsAreUnsent' /\ SentOnce'
  BY <1>1 DEF DurableInv, FileIsKnown, SubmitIsOnFile, GuardsAreUnsent, SentOnce, Closed
<1>6. TextsArePassed'
  <2> SUFFICES ASSUME NEW k \in Keys
               PROVE  AcceptedPassed(file[k]) /\ \A u \in Threads : AcceptedPassed(text'[u][k])
    BY <1>1 DEF TextsArePassed, AcceptedPassed
  <2>1. AcceptedPassed(Exported(session[k]))
    BY <1>3, ExportedCloses
  <2> QED
    BY <1>2, <2>1 DEF DurableInv, TextsArePassed
<1>7. TextIsNewest'
  <2> SUFFICES ASSUME NEW u \in Threads, text'[u] # Blank
               PROVE  /\ pc[u] = "hook"
                      /\ \A k \in Keys, n \in Nonces : n \notin named[k] =>
                           /\ Closed(file[k], n) \/ slots[u][k] = n => Closed(text'[u][k], n)
                           /\ Closed(text'[u][k], n) => Closed(session[k], n)
    BY <1>1 DEF TextIsNewest, Closed, Blank
  <2> SUFFICES ASSUME NEW k \in Keys, NEW n \in Nonces
               PROVE  /\ pc[u] = "hook"
                      /\ n \notin named[k] =>
                           /\ Closed(file[k], n) \/ slots[u][k] = n => Closed(text'[u][k], n)
                           /\ Closed(text'[u][k], n) => Closed(session[k], n)
    <3>1. pc[u] = "hook"
      BY <1>1, <1>2 DEF DurableInv, TextIsNewest, TakeText
    <3> QED
      BY <3>1
  <2>1. CASE u = t
    <3>1. text'[u][k] = Exported(session[k])
      BY <1>2, <2>1
    <3>2. Closed(Exported(session[k]), n) <=> Closed(session[k], n)
      BY <1>3, ExportedCloses
    <3>3. n \notin named[k] /\ slots[t][k] = n => Closed(session[k], n)
      BY <1>1 DEF DurableInv, GuardsAreUnsent
    <3>4. n \notin named[k] /\ Closed(file[k], n) => Closed(session[k], n)
      BY DEF DurableInv, FileIsKnown
    <3> QED
      BY <1>1, <2>1, <3>1, <3>2, <3>3, <3>4
  <2>2. CASE u # t
    <3>1. text'[u] = text[u]
      BY <2>2 DEF TakeText, DurableType
    <3> QED
      BY <3>1 DEF DurableInv, TextIsNewest
  <2> QED
    BY <2>1, <2>2
<1> QED
  BY <1>4, <1>5, <1>6, <1>7 DEF DurableInv

\* A hook ends, with its text written or not.  No other hook has a text: it
\* would lack what is now on the file.
LEMMA HookKeepsDurable ==
  ASSUME DurableType, DurableInv, HooksInTurn, NEW t \in Threads, WriteText(t) \/ FailToWrite(t)
  PROVE  DurableInv'
<1>1. /\ pc[t] = "hook" /\ text[t] # Blank
      /\ \/ pc' = [pc EXCEPT ![t] = "submit"] /\ file' = text[t]
         \/ pc' = [pc EXCEPT ![t] = "drop"] /\ file' \in {file, text[t]}
      /\ text' = [text EXCEPT ![t] = Blank] /\ sent' = sent
      /\ session' = session /\ slots' = slots /\ payer' = payer /\ named' = named
  BY DEF WriteText, FailToWrite, HookSaves, HookFails, history
<1>2. \A u \in Threads : text'[u] = Blank
  BY <1>1 DEF HooksInTurn, DurableType
<1>3. /\ (pc'[t] = "submit" /\ file' = text[t]) \/ pc'[t] = "drop"
      /\ \A u \in Threads : u # t => pc'[u] = pc[u]
  BY <1>1 DEF DurableType, TypeOK
<1>4. GuardsFollowPC' /\ AcceptedIsPassed'
  <2>1. \A u \in Threads : Spends(u)' = Spends(u)
    BY <1>1 DEF Spends, Holds
  <2>2. GuardsFollowPC'
    BY <1>1, <1>3, <2>1 DEF DurableInv, GuardsFollowPC, Holds, Started
  <2> QED
    BY <1>1, <2>2 DEF DurableInv, AcceptedIsPassed, AcceptedPassed
<1>5. TextsArePassed'
  <2>1. \A k \in Keys : AcceptedPassed(Blank[k])
    BY DEF Blank, Exported, FreshKey, NoHolds, AcceptedPassed
  <2>2. \A k \in Keys : AcceptedPassed(file[k]) /\ AcceptedPassed(text[t][k])
    BY DEF DurableInv, TextsArePassed
  <2>3. \A k \in Keys : AcceptedPassed(file'[k]) /\ \A u \in Threads : AcceptedPassed(text'[u][k])
    BY <1>1, <1>2, <2>1, <2>2
  <2> QED
    BY <2>3 DEF TextsArePassed, AcceptedPassed
<1>6. ASSUME NEW k \in Keys, NEW n \in Nonces, n \notin named[k]
      PROVE  /\ Closed(file[k], n) => Closed(file'[k], n)
             /\ Closed(file'[k], n) => Closed(session[k], n)
             /\ slots[t][k] = n => Closed(text[t][k], n)
  <2>1. /\ Closed(file[k], n) \/ slots[t][k] = n => Closed(text[t][k], n)
        /\ Closed(text[t][k], n) => Closed(session[k], n)
    BY <1>1, <1>6 DEF DurableInv, TextIsNewest
  <2>2. Closed(file[k], n) => Closed(session[k], n)
    BY <1>6 DEF DurableInv, FileIsKnown
  <2> QED
    BY <1>1, <2>1, <2>2
<1>7. FileIsKnown'
  <2> SUFFICES ASSUME NEW k \in Keys, NEW n \in Nonces, n \notin named[k]
               PROVE  /\ sent[k][n] > 0 => Closed(file'[k], n)
                      /\ Closed(file'[k], n) => Closed(session[k], n)
    BY <1>1 DEF FileIsKnown, Closed
  <2> QED
    BY <1>6 DEF DurableInv, FileIsKnown
<1>8. TextIsNewest'
  BY <1>2 DEF TextIsNewest, Blank
<1>9. SubmitIsOnFile'
  <2> SUFFICES ASSUME NEW k \in Keys, NEW n \in Nonces, n \notin named[k],
                      NEW u \in Threads, slots[u][k] = n, pc'[u] = "submit"
               PROVE  Closed(file'[k], n)
    BY <1>1 DEF SubmitIsOnFile, Closed
  <2>1. CASE u = t
    BY <1>3, <1>6, <2>1
  <2>2. CASE u # t
    BY <1>3, <1>6, <2>2 DEF DurableInv, SubmitIsOnFile
  <2> QED
    BY <2>1, <2>2
<1>10. GuardsAreUnsent'
  <2> SUFFICES ASSUME NEW k \in Keys, NEW n \in Nonces, n \notin named[k],
                      NEW u \in Threads, slots[u][k] = n
               PROVE  /\ \A v \in Threads : slots[v][k] = n => v = u
                      /\ IF pc'[u] \in {"hook", "submit"} THEN Closed(session[k], n)
                         ELSE \/ n \in session[k].reserved
                              \/ pc'[u] = "drop" /\ Closed(session[k], n)
                      /\ pc'[u] \in Unsent => sent[k][n] = 0
    BY <1>1 DEF GuardsAreUnsent, Closed
  <2>1. /\ \A v \in Threads : slots[v][k] = n => v = u
        /\ IF pc[u] \in {"hook", "submit"} THEN Closed(session[k], n)
           ELSE n \in session[k].reserved \/ (pc[u] = "drop" /\ Closed(session[k], n))
        /\ pc[u] \in Unsent => sent[k][n] = 0
    BY DEF DurableInv, GuardsAreUnsent
  <2> QED
    BY <1>1, <1>3, <2>1 DEF Unsent
<1>11. SentOnce'
  BY <1>1 DEF DurableInv, SentOnce
<1> QED
  BY <1>4, <1>5, <1>7, <1>8, <1>9, <1>10, <1>11 DEF DurableInv

\* The next process knows what is on the file, and has no guards.
LEMMA RestartKeepsDurable ==
  ASSUME DurableType, DurableInv, Restart
  PROVE  DurableInv'
<1>1. /\ \A k \in Keys : session'[k] = Imported(FreshKey, file[k])
      /\ \A t \in Threads : pc'[t] = "idle" /\ text'[t] = Blank
      /\ \A t \in Threads, k \in Keys : slots'[t][k] = NoSlot
      /\ named' = named /\ file' = file /\ sent' = sent
  BY DEF Restart, history
<1>2. \A k \in Keys :
        /\ \A n \in Nonces : Closed(file[k], n) => Closed(session'[k], n)
        /\ AcceptedPassed(session'[k])
  BY <1>1, ImportedCloses DEF DurableType, DurableInv, TextsArePassed
<1>3. GuardsFollowPC'
  BY <1>1 DEF GuardsFollowPC, Spends, Holds, Started, Keys
<1>4. AcceptedIsPassed'
  BY <1>2 DEF AcceptedIsPassed, AcceptedPassed
<1>5. TextsArePassed'
  <2>1. \A k \in Keys : AcceptedPassed(Blank[k])
    BY DEF Blank, Exported, FreshKey, NoHolds, AcceptedPassed
  <2>2. \A k \in Keys : AcceptedPassed(file'[k]) /\ \A u \in Threads : AcceptedPassed(text'[u][k])
    BY <1>1, <2>1 DEF DurableInv, TextsArePassed
  <2> QED
    BY <2>2 DEF TextsArePassed, AcceptedPassed
<1>6. FileIsKnown'
  BY <1>1, <1>2 DEF DurableInv, FileIsKnown, Closed
<1>7. TextIsNewest'
  BY <1>1 DEF TextIsNewest, Blank
<1>8. SubmitIsOnFile' /\ GuardsAreUnsent'
  BY <1>1 DEF SubmitIsOnFile, GuardsAreUnsent, NoSlot, Nonces
<1>9. SentOnce'
  BY <1>1 DEF DurableInv, SentOnce
<1> QED
  BY <1>3, <1>4, <1>5, <1>6, <1>7, <1>8, <1>9 DEF DurableInv

\* The types of the texts, and of the session a new process begins with.
THEOREM DurableTypeCorrect == DurableSpec => []DurableType
<1>1. DurableInit => DurableType
  <2>1. Init => TypeOK
    BY FreshKeyType, ExportedType, MaxNonceAssumption DEF Init, TypeOK, PCs, Nonces, NoSlot
  <2>2. Blank \in [Keys -> SavedKey]
    BY FreshKeyType, ExportedType DEF Blank
  <2> QED
    BY <2>1, <2>2 DEF DurableInit, DurableType
<1>2. DurableType /\ [DurableNext]_<<vars, durable>> => DurableType'
  <2> SUFFICES ASSUME DurableType, [DurableNext]_<<vars, durable>> PROVE DurableType'
    OBVIOUS
  <2>1. Blank \in [Keys -> SavedKey]
    BY FreshKeyType, ExportedType DEF Blank
  <2>2. ASSUME NEW t \in Threads, TakeText(t) PROVE DurableType'
    <3>1. \A k \in Keys : Exported(session[k]) \in SavedKey
      BY ExportedType DEF DurableType, TypeOK
    <3>2. TypeOK'
      BY <2>2 DEF TakeText, vars, DurableType, TypeOK
    <3> QED
      BY <2>2, <3>1, <3>2 DEF TakeText, DurableType
  <2>3. ASSUME NEW t \in Threads, WriteText(t) \/ FailToWrite(t) PROVE DurableType'
    <3>1. TypeOK'
      <4>1. Calls /\ UNCHANGED saved
        BY <2>3 DEF WriteText, FailToWrite, Calls, Step
      <4> QED
        BY <4>1, CallType DEF DurableType
    <3> QED
      BY <2>1, <2>3, <3>1 DEF WriteText, FailToWrite, DurableType
  <2>7. ASSUME NEW t \in Threads, Send(t) PROVE DurableType'
    <3>1. TypeOK'
      <4>1. Calls /\ UNCHANGED saved
        BY <2>7 DEF Send, Calls, Step
      <4> QED
        BY <4>1, CallType DEF DurableType
    <3>2. sent' \in [Keys -> [Nonces -> 0 .. 2]]
      <4>1. ASSUME NEW k \in Keys, Holds(t, k)
            PROVE  [sent[k] EXCEPT ![slots[t][k]] = IF @ = 2 THEN 2 ELSE @ + 1]
                     \in [Nonces -> 0 .. 2]
        <5>1. sent[k] \in [Nonces -> 0 .. 2] /\ slots[t][k] \in Nonces
          BY <4>1 DEF DurableType, TypeOK, Holds
        <5> QED
          BY <5>1
      <4> QED
        BY <2>7, <4>1 DEF Send, DurableType
    <3> QED
      BY <2>7, <3>1, <3>2 DEF Send, DurableType
  <2>4. ASSUME NEW t \in Threads, OtherStep(t) PROVE DurableType'
    <3>1. Calls /\ UNCHANGED saved
      BY <2>4 DEF OtherStep, Calls
    <3>2. TypeOK'
      BY <3>1, CallType DEF DurableType
    <3> QED
      BY <2>4, <3>2 DEF OtherStep, durable, DurableType
  <2>5. CASE Restart
    <3>1. \A k \in Keys : Imported(FreshKey, file[k]) \in KeyState
      BY FreshKeyType, ImportedType DEF DurableType
    <3>2. TypeOK'
      BY <2>5, <3>1 DEF Restart, history, DurableType, TypeOK, PCs
    <3> QED
      BY <2>1, <2>5, <3>2 DEF Restart, DurableType
  <2>6. CASE UNCHANGED <<vars, durable>>
    BY <2>6 DEF vars, durable, DurableType, TypeOK
  <2> QED
    BY <2>2, <2>3, <2>4, <2>5, <2>6, <2>7 DEF DurableNext
<1> QED
  BY <1>1, <1>2, PTL DEF DurableSpec

\* While no two hooks overlap and every client has one, what is on the file
\* covers what was sent.
THEOREM DurableInvariant ==
  ASSUME Hooked = Threads
  PROVE  DurableSpec /\ []HooksInTurn => []DurableInv
<1>1. DurableInit => DurableInv
  <2> SUFFICES ASSUME DurableInit PROVE DurableInv
    OBVIOUS
  <2>1. /\ \A t \in Threads : pc[t] = "idle" /\ text[t] = Blank
        /\ \A t \in Threads, k \in Keys : slots[t][k] = NoSlot
        /\ \A k \in Keys : session[k] = FreshKey /\ file[k] = Exported(FreshKey)
        /\ \A k \in Keys, n \in Nonces : sent[k][n] = 0
    BY DEF DurableInit, Init, Blank
  <2>2. AcceptedPassed(FreshKey) /\ AcceptedPassed(Exported(FreshKey))
    BY DEF AcceptedPassed, Exported, FreshKey, NoHolds
  <2>3. \A n \in Nonces : Closed(Exported(FreshKey), n) <=> Closed(FreshKey, n)
    BY FreshKeyType, ExportedCloses
  <2>4. GuardsFollowPC
    BY <2>1 DEF GuardsFollowPC, Spends, Holds, Started, Keys
  <2>5. AcceptedIsPassed /\ TextsArePassed
    BY <2>1, <2>2 DEF AcceptedIsPassed, TextsArePassed, Blank
  <2>6. FileIsKnown
    BY <2>1, <2>3 DEF FileIsKnown
  <2>7. TextIsNewest
    BY <2>1 DEF TextIsNewest
  <2>8. SubmitIsOnFile /\ GuardsAreUnsent /\ SentOnce
    BY <2>1 DEF SubmitIsOnFile, GuardsAreUnsent, SentOnce, NoSlot, Nonces
  <2> QED
    BY <2>4, <2>5, <2>6, <2>7, <2>8 DEF DurableInv
<1>2. DurableType /\ DurableInv /\ HooksInTurn /\ [DurableNext]_<<vars, durable>> => DurableInv'
  <2> SUFFICES ASSUME DurableType, DurableInv, HooksInTurn, [DurableNext]_<<vars, durable>>
               PROVE  DurableInv'
    OBVIOUS
  <2>1. CASE UNCHANGED <<vars, durable>>
    BY <2>1 DEF vars, durable, DurableInv, GuardsFollowPC, Spends, Holds, AcceptedIsPassed,
                AcceptedPassed, TextsArePassed, FileIsKnown, TextIsNewest, Closed, Blank,
                SubmitIsOnFile, GuardsAreUnsent, SentOnce
  <2> QED
    BY <2>1, OtherKeepsDurable, TakeTextKeepsDurable, HookKeepsDurable, SendKeepsDurable,
       RestartKeepsDurable
    DEF DurableNext
<1> QED
  BY <1>1, <1>2, DurableTypeCorrect, PTL DEF DurableSpec

\* README.md: no two transactions at one nonce, with the session saved by the
\* hook and restored by the next process, whenever processes die: it holds as
\* long as every client has a hook and no two of them overlap.
THEOREM HooksInTurnSendOnce ==
  ASSUME Hooked = Threads
  PROVE  DurableSpec /\ []HooksInTurn => []SentOnce
<1>1. DurableInv => SentOnce
  BY DEF DurableInv
<1> QED
  BY <1>1, DurableInvariant, PTL
=============================================================================
