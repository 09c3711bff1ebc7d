--------------------------- MODULE HeadGuard_proofs ---------------------------
(* What a lying gateway cannot do to the deadlines of a client, for any      *)
(* number of threads, any rate and slack of the chain clock, any validity    *)
(* and any bound on heads.                                                   *)
EXTENDS HeadGuard, TLAPS

USE BlocksAssumption

\* The points of a call past the check against the floor.
Passed == {"note", "sign", "hook", "submit"}

\* A head the check let through is plausible.
TypeInv ==
  /\ TypeOK
  /\ \A t \in Threads : pc[t] \in Passed => reported[t] <= MaxHead

InClock(h) == h.height <= HeadCeiling(h.at) /\ h.at <= wall

\* Every head that is kept or on its way to be kept, in memory, in the saved
\* session, in a hook's snapshot or in a call, is within the chain clock.
ClockInv ==
  /\ chain <= wall * Rate
  /\ InClock(head) /\ InClock(saved)
  /\ \A t \in Threads :
       /\ InClock(snap[t])
       /\ read[t] <= wall
       /\ pc[t] # "idle" /\ t \in verifying =>
            reported[t] <= chain /\ reported[t] <= read[t] * Rate
       /\ pc[t] \in Passed => reported[t] <= HeadCeiling(read[t])

\* Heads noted by verifying clients alone are heights the chain has reached.
ProvenInv ==
  ~unproven =>
    /\ head.height <= chain /\ saved.height <= chain
    /\ \A t \in Threads : snap[t].height <= chain

\* Within a process the floor covers every deadline submitted, and the head of
\* a call that has passed the check covers those submitted before it read the
\* floor.  While no two calls have overlapped the saved floor covers them too,
\* unless a client without a hook has submitted since the save.
OrderInv ==
  ~lost =>
    /\ latest = 0 \/ latest <= head.height + Validity
    /\ \A t \in Threads :
         /\ pc[t] \in {"sign", "hook", "submit"} => reported[t] <= head.height
         /\ pc[t] \in Passed => due[t] <= Deadline(t)
    /\ ~raced =>
         /\ \A t, u \in Threads : pc[t] # "idle" /\ pc[u] # "idle" => t = u
         /\ latest = 0 \/ unsaved \/ latest <= saved.height + Validity
         /\ \A t \in Threads :
              /\ pc[t] \in Passed => latest <= Deadline(t)
              /\ pc[t] = "hook" => reported[t] <= snap[t].height
              /\ pc[t] = "submit" /\ t \in Hooked => reported[t] <= saved.height

-----------------------------------------------------------------------------
\* More seconds, more blocks.
LEMMA RateGrows ==
  ASSUME NEW a \in Nat, NEW b \in Nat, a <= b
  PROVE  a * Rate \in Nat /\ a * Rate <= b * Rate
<1> PICK d \in Nat : b = a + d
  BY b - a \in Nat
<1> b * Rate = a * Rate + d * Rate
  OBVIOUS
<1> a * Rate \in Nat /\ d * Rate \in Nat
  OBVIOUS
<1> QED
  OBVIOUS

LEMMA WallBound ==
  ASSUME NEW w \in Walls
  PROVE  w * Rate \in Nat /\ MaxWall * Rate \in Nat /\ w * Rate <= MaxWall * Rate
<1> w \in Nat /\ MaxWall \in Nat /\ w <= MaxWall
  BY DEF Walls
<1> QED
  BY RateGrows

\* The ceiling of the chain clock is a height.
LEMMA CeilingType ==
  ASSUME NEW w \in Nat
  PROVE  HeadCeiling(w) \in Nat /\ w * Rate \in Nat /\ w * Rate <= HeadCeiling(w)
<1> w * Rate \in Nat
  OBVIOUS
<1> QED
  BY DEF HeadCeiling

\* Heads are compared by their heights, also with none.
LEMMA HeadTypes ==
  ASSUME NEW h \in Heads
  PROVE  /\ h.height \in Int /\ h.height >= -1 /\ h.height <= MaxHead + 1
         /\ h.at \in Nat /\ h.at <= MaxWall
  BY DEF Heads, NoHead, Reports, Walls

LEMMA NotedType ==
  ASSUME NEW h \in Heads, NEW height \in Reports, NEW now \in Walls
  PROVE  Noted(h, height, now) \in Heads
  BY DEF Noted, Heads

\* A restored head is the one in memory or the saved one, the higher of the two.
LEMMA ImportedHead ==
  ASSUME NEW mem \in Heads, NEW h \in Heads
  PROVE  /\ ImportedHeads(mem, h) \in {mem, h}
         /\ ImportedHeads(mem, h).height >= mem.height
         /\ ImportedHeads(mem, h).height >= h.height
<1>1. CASE h = NoHead
  BY <1>1, HeadTypes DEF ImportedHeads, NoHead
<1>2. CASE h # NoHead
  <2>0. h \in [height : Reports, at : Walls]
    BY <1>2 DEF Heads
  <2>1. h = [height |-> h.height, at |-> h.at]
    BY <2>0
  <2> QED
    BY <1>2, <2>1, HeadTypes DEF ImportedHeads, Noted
<1> QED
  BY <1>1, <1>2

-----------------------------------------------------------------------------
\* The state is well typed, and a head past the check is plausible.
THEOREM TypeCorrect == Spec => []TypeInv
<1>1. Init => TypeInv
  <2> SUFFICES ASSUME Init PROVE TypeInv
    OBVIOUS
  <2>1. MaxWall * Rate \in Nat
    OBVIOUS
  <2>2. chain \in 0 .. MaxWall * Rate
    BY <2>1 DEF Init
  <2>3. NoHead \in Heads /\ snap \in [Threads -> Heads]
    BY DEF Init, Heads
  <2> QED
    <3>1. wall \in Walls /\ latest \in 0 .. MaxHead + Validity
      BY DEF Init, Walls
    <3>2. /\ reported \in [Threads -> Reports] /\ read \in [Threads -> Walls]
          /\ pc \in [Threads -> PCs]
      BY DEF Init, Reports, Walls, PCs
    <3> QED
      BY <2>2, <2>3, <3>1, <3>2 DEF Init, TypeInv, TypeOK, Passed
<1>2. TypeInv /\ [Next]_vars => TypeInv'
  <2> SUFFICES ASSUME TypeInv, [Next]_vars PROVE TypeInv'
    OBVIOUS
  <2> USE DEF TypeInv, TypeOK, Passed, world, own, history
  <2>1. CASE Tick
    <3>1. wall' \in Walls /\ wall' \in Nat
      BY <2>1 DEF Tick, Walls
    <3>2. wall' * Rate \in Nat /\ wall' * Rate <= MaxWall * Rate /\ MaxWall * Rate \in Nat
      BY <3>1, WallBound
    <3>3. chain' \in 0 .. MaxWall * Rate
      <4>1. chain' \in chain .. wall' * Rate
        BY <2>1 DEF Tick
      <4>2. chain \in 0 .. MaxWall * Rate
        OBVIOUS
      <4> HIDE DEF TypeInv
      <4> QED
        BY <3>2, <4>1, <4>2
    <3> QED
      BY <2>1, <3>1, <3>3 DEF Tick
  <2>2. ASSUME NEW t \in Threads, NEW height \in Reports, Report(t, height) PROVE TypeInv'
    BY <2>2 DEF Report, Goto, PCs
  <2>3. ASSUME NEW t \in Threads, TrustRoster(t) PROVE TypeInv'
    BY <2>3 DEF TrustRoster
  <2>4. ASSUME NEW t \in Threads, CheckFloor(t) PROVE TypeInv'
    BY <2>4 DEF CheckFloor, BoundedValidUntil, Goto, Leave, PCs, Reports, Walls, Heads
  <2>5. ASSUME NEW t \in Threads, NoteHead(t) PROVE TypeInv'
    BY <2>5, NotedType DEF NoteHead, Goto, PCs
  <2>6. ASSUME NEW t \in Threads, Sign(t) PROVE TypeInv'
    BY <2>6 DEF Sign, Goto, PCs, ExportedHeads
  <2>7. ASSUME NEW t \in Threads, HookWrites(t) PROVE TypeInv'
    BY <2>7 DEF HookWrites, Goto, PCs
  <2>8. ASSUME NEW t \in Threads, Submit(t) PROVE TypeInv'
    <3>1. latest' \in 0 .. MaxHead + Validity
      BY <2>8 DEF Submit, Deadline, Reports
    <3> QED
      BY <2>8, <3>1 DEF Submit, Goto, Leave, PCs, Reports, Walls, Heads
  <2>9. ASSUME NEW t \in Threads, Fail(t) PROVE TypeInv'
    BY <2>9 DEF Fail, Goto, Leave, PCs, Reports, Walls, Heads
  <2>10. CASE SaveSession
    BY <2>10 DEF SaveSession, ExportedHeads
  <2>11. CASE RestoreSession
    BY <2>11, ImportedHead DEF RestoreSession
  <2>12. CASE Restart
    <3>1. head' \in Heads
      BY <2>12, ImportedHead DEF Restart, Heads
    <3>2. lost' \in BOOLEAN /\ unsaved' \in BOOLEAN
      BY <2>12 DEF Restart
    <3>3. snap' \in [Threads -> Heads] /\ reported' \in [Threads -> Reports]
          /\ read' \in [Threads -> Walls] /\ pc' \in [Threads -> PCs]
          /\ due' \in [Threads -> 0 .. MaxHead + Validity]
      BY <2>12 DEF Restart, PCs, Reports, Walls, Heads
    <3> QED
      BY <2>12, <3>1, <3>2, <3>3 DEF Restart
  <2>13. CASE UNCHANGED vars
    BY <2>13 DEF vars
  <2> QED
    BY <2>1, <2>2, <2>3, <2>4, <2>5, <2>6, <2>7, <2>8, <2>9, <2>10, <2>11, <2>12, <2>13 DEF Next
<1> QED
  BY <1>1, <1>2, PTL DEF Spec

-----------------------------------------------------------------------------
\* A thread that leaves its call takes no head with it.
LEMMA LeftWithinClock ==
  ASSUME TypeInv, ClockInv, NEW t \in Threads, Leave(t),
         UNCHANGED <<wall, chain, verifying>>
  PROVE  \A u \in Threads :
           /\ InClock(snap[u])'
           /\ read'[u] <= wall'
           /\ pc'[u] # "idle" /\ u \in verifying' =>
                reported'[u] <= chain' /\ reported'[u] <= read'[u] * Rate
           /\ pc'[u] \in Passed => reported'[u] <= HeadCeiling(read'[u])
<1>1. SUFFICES ASSUME NEW u \in Threads
               PROVE  /\ InClock(snap[u])'
                      /\ read'[u] <= wall'
                      /\ pc'[u] # "idle" /\ u \in verifying' =>
                           reported'[u] <= chain' /\ reported'[u] <= read'[u] * Rate
                      /\ pc'[u] \in Passed => reported'[u] <= HeadCeiling(read'[u])
  OBVIOUS
<1>2. CASE u = t
  <2>1. /\ pc'[u] = "idle" /\ read'[u] = 0 /\ snap'[u] = NoHead
    BY <1>2 DEF Leave, Goto, TypeInv, TypeOK
  <2>2. HeadCeiling(0) \in Nat
    BY CeilingType
  <2>3. wall \in Nat
    BY DEF TypeInv, TypeOK, Walls
  <2> QED
    BY <2>1, <2>2, <2>3 DEF InClock, NoHead, Passed
<1>3. CASE u # t
  <2>1. /\ pc'[u] = pc[u] /\ read'[u] = read[u] /\ snap'[u] = snap[u]
        /\ reported'[u] = reported[u]
    BY <1>3 DEF Leave, Goto, TypeInv, TypeOK
  <2> QED
    BY <2>1 DEF ClockInv, InClock
<1> QED
  BY <1>2, <1>3

\* No head is kept, or about to be kept, that the chain clock did not allow
\* at the time it was read.
THEOREM ClockInvariant == Spec => []ClockInv
<1>1. Init => ClockInv
  <2> SUFFICES ASSUME Init PROVE ClockInv
    OBVIOUS
  <2>1. HeadCeiling(0) \in Nat /\ 0 * Rate = 0
    BY CeilingType
  <2> QED
    BY <2>1 DEF Init, ClockInv, InClock, NoHead, Passed
<1>2. TypeInv /\ ClockInv /\ [Next]_vars => ClockInv'
  <2> SUFFICES ASSUME TypeInv, ClockInv, [Next]_vars PROVE ClockInv'
    OBVIOUS
  <2> USE DEF world, own, history
  <2>0. wall \in Nat /\ chain \in Nat /\ (\A t \in Threads : read[t] \in Nat /\ reported[t] \in Nat)
    <3>1. chain \in Nat
      BY DEF TypeInv, TypeOK
    <3> QED
      BY <3>1 DEF TypeInv, TypeOK, Walls, Reports
  <2>1. CASE Tick
    <3>1. chain' \in chain .. wall' * Rate /\ wall' = wall + 1
      BY <2>1 DEF Tick
    <3>2. wall' * Rate \in Nat
      BY <2>0, <3>1
    <3>3. chain' <= wall' * Rate /\ chain <= chain' /\ chain' \in Nat
      BY <2>0, <3>1, <3>2
    <3>4. InClock(head)' /\ InClock(saved)' /\ \A t \in Threads : InClock(snap[t])'
      <4>1. \A h \in Heads : InClock(h) => h.height <= HeadCeiling(h.at) /\ h.at <= wall'
        BY <2>0, <3>1, HeadTypes DEF InClock
      <4> QED
        BY <2>1, <4>1 DEF Tick, ClockInv, InClock, TypeInv, TypeOK
    <3>5. \A t \in Threads : read[t] <= wall'
      BY <2>0, <3>1 DEF ClockInv
    <3>6. \A t \in Threads : pc[t] # "idle" /\ t \in verifying => reported[t] <= chain'
      BY <2>0, <3>3 DEF ClockInv
    <3> QED
      BY <2>1, <3>3, <3>4, <3>5, <3>6 DEF Tick, ClockInv
  <2>2. ASSUME NEW t \in Threads, NEW height \in Reports, Report(t, height) PROVE ClockInv'
    <3>1. /\ reported' = [reported EXCEPT ![t] = height] /\ read' = [read EXCEPT ![t] = wall]
          /\ pc' = [pc EXCEPT ![t] = "floor"]
          /\ UNCHANGED <<wall, chain, head, saved, verifying, snap>>
          /\ t \in verifying => height <= chain
      BY <2>2 DEF Report, Goto
    <3>2. t \in verifying => height <= wall * Rate
      <4>1. wall * Rate \in Nat /\ chain <= wall * Rate /\ height \in Nat
        BY <2>0, CeilingType DEF ClockInv, Reports
      <4> QED
        BY <2>0, <3>1, <4>1
    <3> QED
      BY <2>0, <3>1, <3>2 DEF ClockInv, InClock, TypeInv, TypeOK, Passed
  <2>3. ASSUME NEW t \in Threads, TrustRoster(t) PROVE ClockInv'
    BY <2>3 DEF TrustRoster, ClockInv, InClock
  <2>4. ASSUME NEW t \in Threads, CheckFloor(t) PROVE ClockInv'
    <3>1. CASE BoundedValidUntil(t \in verifying, reported[t], read[t], head)
      <4>1. reported[t] <= HeadCeiling(read[t])
        <5>1. CASE t \in verifying
          BY <2>0, <2>4, <5>1, CeilingType DEF CheckFloor, ClockInv
        <5>2. CASE t \notin verifying
          BY <3>1, <5>2 DEF BoundedValidUntil, WithinClock
        <5> QED
          BY <5>1, <5>2
      <4> QED
        BY <2>4, <3>1, <4>1 DEF CheckFloor, Goto, ClockInv, InClock, TypeInv, TypeOK, Passed
    <3>2. CASE ~BoundedValidUntil(t \in verifying, reported[t], read[t], head)
      <4>1. Leave(t) /\ UNCHANGED <<wall, chain, head, saved, verifying>>
        BY <2>4, <3>2 DEF CheckFloor
      <4> QED
        BY <4>1, LeftWithinClock DEF ClockInv, InClock
    <3> QED
      BY <3>1, <3>2
  <2>5. ASSUME NEW t \in Threads, NoteHead(t) PROVE ClockInv'
    <3>1. InClock(head)'
      BY <2>5 DEF NoteHead, Noted, ClockInv, InClock, Passed
    <3> QED
      BY <2>5, <3>1 DEF NoteHead, Goto, ClockInv, InClock, TypeInv, TypeOK, Passed
  <2>6. ASSUME NEW t \in Threads, Sign(t) PROVE ClockInv'
    BY <2>6 DEF Sign, ExportedHeads, Goto, ClockInv, InClock, TypeInv, TypeOK, Passed
  <2>7. ASSUME NEW t \in Threads, HookWrites(t) PROVE ClockInv'
    BY <2>7 DEF HookWrites, Goto, ClockInv, InClock, TypeInv, TypeOK, Passed
  <2>8. ASSUME NEW t \in Threads, Submit(t) PROVE ClockInv'
    BY <2>8, LeftWithinClock DEF Submit, ClockInv, InClock
  <2>9. ASSUME NEW t \in Threads, Fail(t) PROVE ClockInv'
    BY <2>9, LeftWithinClock DEF Fail, ClockInv, InClock
  <2>10. CASE SaveSession
    BY <2>10 DEF SaveSession, ExportedHeads, ClockInv, InClock
  <2>11. CASE RestoreSession
    BY <2>11, ImportedHead DEF RestoreSession, ClockInv, InClock, TypeInv, TypeOK
  <2>12. CASE Restart
    <3>1. InClock(NoHead)'
      BY <2>0, <2>12, CeilingType DEF Restart, InClock, NoHead
    <3>2. head' \in {NoHead, saved}
      BY <2>12, ImportedHead DEF Restart, TypeInv, TypeOK, Heads
    <3> QED
      BY <2>0, <2>12, <3>1, <3>2 DEF Restart, ClockInv, InClock, Passed
  <2>13. CASE UNCHANGED vars
    BY <2>13 DEF vars, ClockInv, InClock
  <2> QED
    BY <2>1, <2>2, <2>3, <2>4, <2>5, <2>6, <2>7, <2>8, <2>9, <2>10, <2>11, <2>12, <2>13 DEF Next
<1> QED
  BY <1>1, <1>2, TypeCorrect, PTL DEF Spec

\* No sequence of reports lifts the floor above what the clock allowed.
THEOREM FloorHolds == Spec => []FloorWithinClock
<1>1. ClockInv => FloorWithinClock
  BY DEF ClockInv, InClock, FloorWithinClock
<1> QED
  BY <1>1, ClockInvariant, PTL

\* With a trusted roster no lie about the head moves a deadline.
THEOREM DeadlinesFollowTheChain == Spec => []DeadlinesAreReal
<1>1. TypeInv /\ ClockInv => DeadlinesAreReal
  BY DEF TypeInv, TypeOK, Reports, ClockInv, DeadlinesAreReal, Deadline
<1> QED
  BY <1>1, TypeCorrect, ClockInvariant, PTL

-----------------------------------------------------------------------------
\* What verifying clients alone have noted is no higher than the chain.
THEOREM ProvenInvariant == Spec => []ProvenInv
<1>1. Init => ProvenInv
  BY DEF Init, ProvenInv, NoHead
<1>2. TypeInv /\ ClockInv /\ ProvenInv /\ [Next]_vars => ProvenInv'
  <2> SUFFICES ASSUME TypeInv, ClockInv, ProvenInv, [Next]_vars, ~unproven' PROVE ProvenInv'
    BY DEF ProvenInv
  <2> USE DEF world, own, history
  <2>0. ~unproven
    BY DEF Next, Tick, TrustRoster, Report, CheckFloor, NoteHead, Sign, HookWrites, Submit, Fail,
           SaveSession, RestoreSession, Restart, vars
  <2>a. /\ chain \in Nat /\ head.height <= chain /\ saved.height <= chain
        /\ \A t \in Threads : snap[t].height <= chain
    BY <2>0 DEF TypeInv, TypeOK, ProvenInv
  <2>b. ASSUME NEW t \in Threads, Leave(t) PROVE \A u \in Threads : snap'[u].height <= chain
    BY <2>a, <2>b DEF Leave, TypeInv, TypeOK, NoHead
  <2>1. CASE Tick
    <3>1. chain <= chain' /\ chain' \in Int
      <4>1. chain' \in chain .. wall' * Rate /\ wall' \in Nat
        BY <2>1 DEF Tick, TypeInv, TypeOK, Walls
      <4>2. wall' * Rate \in Nat
        BY <4>1, CeilingType
      <4> QED
        BY <2>a, <4>1, <4>2
    <3>2. \A h \in Heads : h.height <= chain => h.height <= chain'
      BY <2>a, <3>1, HeadTypes
    <3> QED
      BY <2>1, <2>a, <3>2 DEF Tick, ProvenInv, TypeInv, TypeOK
  <2>2. ASSUME NEW t \in Threads, NEW height \in Reports, Report(t, height) PROVE ProvenInv'
    BY <2>2, <2>a DEF Report, ProvenInv
  <2>3. ASSUME NEW t \in Threads, TrustRoster(t) PROVE ProvenInv'
    BY <2>3, <2>a DEF TrustRoster, ProvenInv
  <2>4. ASSUME NEW t \in Threads, CheckFloor(t) PROVE ProvenInv'
    BY <2>4, <2>a, <2>b DEF CheckFloor, ProvenInv
  <2>5. ASSUME NEW t \in Threads, NoteHead(t) PROVE ProvenInv'
    <3>1. t \in verifying /\ reported[t] <= chain
      BY <2>5 DEF NoteHead, ClockInv
    <3>2. head'.height <= chain
      BY <2>5, <2>a, <3>1 DEF NoteHead, Noted
    <3> QED
      BY <2>5, <2>a, <3>2 DEF NoteHead, ProvenInv
  <2>6. ASSUME NEW t \in Threads, Sign(t) PROVE ProvenInv'
    BY <2>6, <2>a DEF Sign, ExportedHeads, ProvenInv, TypeInv, TypeOK
  <2>7. ASSUME NEW t \in Threads, HookWrites(t) PROVE ProvenInv'
    BY <2>7, <2>a DEF HookWrites, ProvenInv
  <2>8. ASSUME NEW t \in Threads, Submit(t) PROVE ProvenInv'
    BY <2>8, <2>a, <2>b DEF Submit, ProvenInv
  <2>9. ASSUME NEW t \in Threads, Fail(t) PROVE ProvenInv'
    BY <2>9, <2>a, <2>b DEF Fail, ProvenInv
  <2>10. CASE SaveSession
    BY <2>10, <2>a DEF SaveSession, ExportedHeads, ProvenInv
  <2>11. CASE RestoreSession
    BY <2>11, <2>a, ImportedHead DEF RestoreSession, ProvenInv, TypeInv, TypeOK
  <2>12. CASE Restart
    <3>1. head' \in {NoHead, saved}
      BY <2>12, ImportedHead DEF Restart, TypeInv, TypeOK, Heads
    <3> QED
      BY <2>12, <2>a, <3>1 DEF Restart, ProvenInv, NoHead
  <2>13. CASE UNCHANGED vars
    BY <2>13, <2>a DEF vars, ProvenInv
  <2> QED
    BY <2>1, <2>2, <2>3, <2>4, <2>5, <2>6, <2>7, <2>8, <2>9, <2>10, <2>11, <2>12, <2>13 DEF Next
<1> QED
  BY <1>1, <1>2, TypeCorrect, ClockInvariant, PTL DEF Spec

\* A lie told to a verifying client never blocks the chain's own head.
THEOREM TipAccepted == Spec => []TipIsAcceptable
<1>1. TypeInv /\ ProvenInv => TipIsAcceptable
  BY DEF TypeInv, TypeOK, ProvenInv, TipIsAcceptable, BoundedValidUntil, WithinClock
<1> QED
  BY <1>1, TypeCorrect, ProvenInvariant, PTL

-----------------------------------------------------------------------------
\* The floor covers every deadline submitted, and a call's head those before it.
THEOREM OrderInvariant == Spec => []OrderInv
<1>1. Init => OrderInv
  BY DEF Init, OrderInv, Passed
<1>2. TypeInv /\ OrderInv /\ [Next]_vars => OrderInv'
  <2> SUFFICES ASSUME TypeInv, OrderInv, [Next]_vars, ~lost' PROVE OrderInv'
    BY DEF OrderInv
  <2> USE DEF world, own, history
  <2>0. ~lost /\ (Restart => ~unsaved /\ ~raced)
    <3>1. CASE Restart
      BY <3>1 DEF Restart
    <3>2. CASE ~Restart
      BY <3>2 DEF Next, Tick, TrustRoster, Report, CheckFloor, NoteHead, Sign, HookWrites, Submit,
                  Fail, SaveSession, RestoreSession, vars
    <3> QED
      BY <3>1, <3>2
  <2> DEFINE Covered == latest = 0 \/ latest <= head.height + Validity
             Calls == \A t \in Threads :
                        /\ pc[t] \in {"sign", "hook", "submit"} => reported[t] <= head.height
                        /\ pc[t] \in Passed => due[t] <= Deadline(t)
             One == \A t, u \in Threads : pc[t] # "idle" /\ pc[u] # "idle" => t = u
             Kept == latest = 0 \/ unsaved \/ latest <= saved.height + Validity
             Hooks == \A t \in Threads :
                        /\ pc[t] \in Passed => latest <= Deadline(t)
                        /\ pc[t] = "hook" => reported[t] <= snap[t].height
                        /\ pc[t] = "submit" /\ t \in Hooked => reported[t] <= saved.height
  <2>a. Covered /\ Calls /\ (~raced => One /\ Kept /\ Hooks)
    BY <2>0 DEF OrderInv
  <2> DEFINE Goal == /\ Covered' /\ Calls'
                     /\ ~raced' => One' /\ Kept' /\ Hooks'
  <2>b. SUFFICES Goal
    BY DEF OrderInv
  <2>t. /\ latest \in Nat /\ head.height \in Int /\ saved.height \in Int
        /\ head.height >= -1 /\ saved.height >= -1
        /\ \A t \in Threads : /\ snap[t].height \in Int /\ reported[t] \in Nat
                              /\ due[t] \in Nat /\ Deadline(t) = reported[t] + Validity
                              /\ Deadline(t)' = reported'[t] + Validity
    BY HeadTypes DEF TypeInv, TypeOK, Reports, Deadline
  \* What a step of a call does to the other threads: nothing.
  <2>c. ASSUME NEW t \in Threads, Leave(t), pc[t] # "idle"
        PROVE  /\ pc'[t] = "idle"
               /\ \A u \in Threads : u # t => /\ pc'[u] = pc[u] /\ reported'[u] = reported[u]
                                               /\ due'[u] = due[u] /\ snap'[u] = snap[u]
               /\ One => One' /\ \A u \in Threads : pc'[u] = "idle"
    BY <2>c DEF Leave, Goto, TypeInv, TypeOK
  <2>d. ASSUME NEW t \in Threads, NEW l, Goto(t, l), pc[t] # "idle"
        PROVE  /\ pc'[t] = l /\ \A u \in Threads : u # t => pc'[u] = pc[u]
               /\ One => One' /\ \A u \in Threads : pc'[u] # "idle" => u = t
    BY <2>d DEF Goto, TypeInv, TypeOK
  <2>1. CASE Tick
    BY <2>1, <2>a, <2>t DEF Tick
  <2>2. ASSUME NEW t \in Threads, NEW height \in Reports, Report(t, height) PROVE Goal
    <3>1. /\ pc[t] = "idle" /\ pc'[t] = "floor" /\ UNCHANGED <<head, saved, snap, due, latest, unsaved>>
          /\ \A u \in Threads : u # t => pc'[u] = pc[u] /\ reported'[u] = reported[u]
      BY <2>2 DEF Report, Goto, TypeInv, TypeOK
    <3>2. ~raced' => ~raced /\ \A u \in Threads : pc[u] = "idle"
      BY <2>2 DEF Report
    <3>3. Covered' /\ Calls'
      BY <3>1, <2>a, <2>t DEF Passed
    <3>4. ~raced' => One' /\ Kept' /\ Hooks'
      BY <3>1, <3>2, <2>a, <2>t DEF Passed
    <3> QED
      BY <3>3, <3>4
  <2>3. ASSUME NEW t \in Threads, TrustRoster(t) PROVE Goal
    BY <2>3, <2>a, <2>t DEF TrustRoster
  <2>4. ASSUME NEW t \in Threads, CheckFloor(t) PROVE Goal
    <3>0. UNCHANGED <<head, saved, latest, raced, unsaved>> /\ pc[t] # "idle"
      BY <2>4 DEF CheckFloor
    <3>1. CASE BoundedValidUntil(t \in verifying, reported[t], read[t], head)
      <4>1. /\ Goto(t, "note") /\ UNCHANGED <<reported, snap>> /\ due'[t] = latest
            /\ \A u \in Threads : u # t => due'[u] = due[u]
        BY <2>4, <3>1 DEF CheckFloor, TypeInv, TypeOK
      <4>2. due'[t] <= Deadline(t)'
        BY <3>1, <4>1, <2>a, <2>t DEF BoundedValidUntil
      <4>3. Covered' /\ Calls'
        BY <3>0, <4>1, <4>2, <2>a, <2>d, <2>t DEF Passed
      <4>4. ~raced' => One' /\ Kept' /\ Hooks'
        BY <3>0, <4>1, <4>2, <2>a, <2>d, <2>t DEF Passed
      <4> QED
        BY <4>3, <4>4
    <3>2. CASE ~BoundedValidUntil(t \in verifying, reported[t], read[t], head)
      <4>1. Leave(t)
        BY <2>4, <3>2 DEF CheckFloor
      <4>2. Covered' /\ Calls'
        BY <3>0, <4>1, <2>a, <2>c, <2>t DEF Passed
      <4>3. ~raced' => One' /\ Kept' /\ Hooks'
        BY <3>0, <4>1, <2>a, <2>c, <2>t DEF Passed
      <4> QED
        BY <4>2, <4>3
    <3> QED
      BY <3>1, <3>2
  <2>5. ASSUME NEW t \in Threads, NoteHead(t) PROVE Goal
    <3>1. Goto(t, "sign") /\ pc[t] = "note"
          /\ UNCHANGED <<saved, reported, snap, due, latest, raced, unsaved>>
      BY <2>5 DEF NoteHead
    <3>2. head'.height >= head.height /\ head'.height >= reported[t] /\ head'.height \in Int
      BY <2>5, <2>t DEF NoteHead, Noted
    <3>3. Covered'
      BY <3>1, <3>2, <2>a, <2>t
    <3>4. Calls'
      BY <3>1, <3>2, <2>a, <2>d, <2>t DEF Passed
    <3>5. ~raced' => One' /\ Kept' /\ Hooks'
      BY <3>1, <2>a, <2>d, <2>t DEF Passed
    <3> QED
      BY <3>3, <3>4, <3>5
  <2>6. ASSUME NEW t \in Threads, Sign(t) PROVE Goal
    <3>1. pc[t] = "sign" /\ UNCHANGED <<head, saved, reported, due, latest, raced, unsaved>>
          /\ \A u \in Threads : u # t => snap'[u] = snap[u]
      BY <2>6 DEF Sign, TypeInv, TypeOK
    <3>2. CASE t \in Hooked
      <4>1. Goto(t, "hook") /\ snap'[t] = head
        BY <2>6, <3>2 DEF Sign, ExportedHeads, TypeInv, TypeOK
      <4>2. Covered' /\ Calls'
        BY <3>1, <4>1, <2>a, <2>d, <2>t DEF Passed
      <4>3. ~raced' => One' /\ Kept' /\ Hooks'
        BY <3>1, <4>1, <2>a, <2>d, <2>t DEF Passed
      <4> QED
        BY <4>2, <4>3
    <3>3. CASE t \notin Hooked
      <4>1. Goto(t, "submit")
        BY <2>6, <3>3 DEF Sign
      <4>2. Covered' /\ Calls'
        BY <3>1, <4>1, <2>a, <2>d, <2>t DEF Passed
      <4>3. ~raced' => One' /\ Kept' /\ Hooks'
        BY <3>1, <3>3, <4>1, <2>a, <2>d, <2>t DEF Passed
      <4> QED
        BY <4>2, <4>3
    <3> QED
      BY <3>2, <3>3
  <2>7. ASSUME NEW t \in Threads, HookWrites(t) PROVE Goal
    <3>1. Goto(t, "submit") /\ pc[t] = "hook" /\ saved' = snap[t]
          /\ UNCHANGED <<head, reported, snap, due, latest, raced>>
      BY <2>7 DEF HookWrites
    <3>2. Covered' /\ Calls'
      BY <3>1, <2>a, <2>d, <2>t DEF Passed
    <3>3. ~raced => Kept'
      <4>1. ~raced => latest <= Deadline(t) /\ reported[t] <= snap[t].height
        BY <3>1, <2>a DEF Passed
      <4> QED
        BY <3>1, <4>1, <2>t
    <3>4. ~raced => One' /\ Hooks'
      BY <3>1, <2>a, <2>d, <2>t DEF Passed
    <3> QED
      BY <3>1, <3>2, <3>3, <3>4
  <2>8. ASSUME NEW t \in Threads, Submit(t) PROVE Goal
    <3>1. Leave(t) /\ pc[t] = "submit" /\ UNCHANGED <<head, saved, raced>>
      BY <2>8 DEF Submit
    <3>2. latest' \in {Deadline(t), latest}
      BY <2>8 DEF Submit
    <3>3. (unsaved => unsaved') /\ (t \notin Hooked => unsaved')
      BY <2>8 DEF Submit
    <3>4. Covered'
      BY <3>1, <3>2, <2>a, <2>t
    <3>5. Calls'
      BY <3>1, <2>a, <2>c, <2>t DEF Passed
    <3>6. ~raced => One' /\ Hooks'
      BY <3>1, <2>a, <2>c DEF Passed
    <3>7. ~raced => Kept'
      <4>1. CASE t \in Hooked
        <5>1. ~raced => Deadline(t) <= saved.height + Validity
          BY <3>1, <4>1, <2>a, <2>t
        <5> QED
          BY <3>1, <3>2, <3>3, <5>1, <2>a, <2>t
      <4>2. CASE t \notin Hooked
        BY <3>3, <4>2
      <4> QED
        BY <4>1, <4>2
    <3> QED
      BY <3>1, <3>4, <3>5, <3>6, <3>7
  <2>9. ASSUME NEW t \in Threads, Fail(t) PROVE Goal
    <3>1. Leave(t) /\ pc[t] # "idle" /\ UNCHANGED <<head, saved, latest, raced, unsaved>>
      BY <2>9 DEF Fail
    <3>2. Covered' /\ Calls'
      BY <3>1, <2>a, <2>c, <2>t DEF Passed
    <3>3. ~raced' => One' /\ Kept' /\ Hooks'
      BY <3>1, <2>a, <2>c, <2>t DEF Passed
    <3> QED
      BY <3>2, <3>3
  <2>10. CASE SaveSession
    <3>1. saved' = head /\ UNCHANGED <<head, pc, reported, snap, due, latest, raced>>
      BY <2>10 DEF SaveSession, ExportedHeads
    <3>2. Covered' /\ Calls'
      BY <3>1, <2>a, <2>t
    <3>3. ~raced' => One' /\ Kept' /\ Hooks'
      BY <3>1, <2>a, <2>t
    <3> QED
      BY <3>2, <3>3
  <2>11. CASE RestoreSession
    <3>1. head'.height >= head.height /\ head'.height \in Int
          /\ UNCHANGED <<saved, pc, reported, snap, due, latest, raced, unsaved>>
      BY <2>11, <2>t, ImportedHead DEF RestoreSession, TypeInv, TypeOK
    <3>2. Covered' /\ Calls'
      BY <3>1, <2>a, <2>t
    <3>3. ~raced' => One' /\ Kept' /\ Hooks'
      BY <3>1, <2>a, <2>t
    <3> QED
      BY <3>2, <3>3
  <2>12. CASE Restart
    <3>1. /\ head'.height >= saved.height /\ head'.height \in Int
          /\ UNCHANGED <<saved, latest, raced>> /\ \A t \in Threads : pc'[t] = "idle"
      <4>1. NoHead \in Heads
        BY DEF Heads
      <4>2. head' \in {NoHead, saved} /\ head'.height >= saved.height
        BY <2>12, <4>1, ImportedHead DEF Restart, TypeInv, TypeOK
      <4> QED
        BY <2>12, <2>t, <4>2 DEF Restart, NoHead
    <3>2. Covered'
      BY <2>0, <2>12, <3>1, <2>a, <2>t
    <3>3. Kept'
      BY <2>0, <2>12, <3>1, <2>a, <2>t
    <3> QED
      BY <3>1, <3>2, <3>3 DEF Passed
  <2>13. CASE UNCHANGED vars
    BY <2>13, <2>a, <2>t DEF vars
  <2> QED
    BY <2>1, <2>2, <2>3, <2>4, <2>5, <2>6, <2>7, <2>8, <2>9, <2>10, <2>11, <2>12, <2>13 DEF Next
<1> QED
  BY <1>1, <1>2, TypeCorrect, PTL DEF Spec

\* Deadlines never go back, for calls that overlap too.
THEOREM DeadlinesNeverGoBack == Spec => []DeadlinesRise
<1>1. OrderInv => DeadlinesRise
  BY DEF OrderInv, DeadlinesRise, Passed
<1> QED
  BY <1>1, OrderInvariant, PTL
=============================================================================
