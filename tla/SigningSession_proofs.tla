------------------------ MODULE SigningSession_proofs ------------------------
(* What the methods of a SigningSession do to the state of one key, for      *)
(* every largest nonce.                                                      *)
EXTENDS SigningSession, TLAPS

-----------------------------------------------------------------------------
(* The methods of SigningSession keep their types.                           *)

\* An untouched key is a key state.
LEMMA FreshKeyType == FreshKey \in KeyState
  BY MaxNonceAssumption DEF FreshKey, KeyState, NoHolds, Nonces, Untracked, Marks

\* The saved form of a key state, and what restoring it makes of another.
LEMMA ExportedType ==
  ASSUME NEW ks \in KeyState
  PROVE  Exported(ks) \in SavedKey
  BY DEF Exported, KeyState, SavedKey

LEMMA ImportedType ==
  ASSUME NEW ks \in KeyState, NEW saved \in SavedKey
  PROVE  Imported(ks, saved) \in KeyState /\ ImportedNext(ks, saved) \in KeyState
  BY DEF Imported, ImportedNext, KeyState, SavedKey, Larger

\* slot returns a key state, granted or refused.
LEMMA SlotType ==
  ASSUME NEW ks \in KeyState, NEW reported \in Nonces,
         NEW expected \in Nonces \cup {Unnamed}, NEW order \in BOOLEAN
  PROVE  Slot(ks, reported, expected, order) \in KeyState
<1>1. Retained(ks, reported, expected) \in [Nonces -> Marks]
  BY DEF Retained, KeyState, Marks
<1>2. Larger(ks.next, reported) \in Nonces
  BY MaxNonceAssumption DEF Larger, KeyState, Nonces, Untracked
<1> QED
  BY <1>1, <1>2 DEF Slot, KeyState

\* release returns a key state.
LEMMA ReleaseType ==
  ASSUME NEW ks \in KeyState, NEW n \in Nonces
  PROVE  Release(ks, n) \in KeyState
  BY DEF Release, KeyState

\* signed returns a key state.
LEMMA SignedType ==
  ASSUME NEW ks \in KeyState, NEW n \in Nonces
  PROVE  Signed(ks, n) \in KeyState
  BY DEF Signed, KeyState, Marks

\* outcome returns a key state: the successor saturates at the largest nonce.
LEMMA OutcomeType ==
  ASSUME NEW ks \in KeyState, NEW n \in Nonces, NEW accepted \in BOOLEAN
  PROVE  Outcome(ks, n, accepted) \in KeyState
<1>1. Larger(ks.next, SatSucc(n)) \in Nonces
  BY MaxNonceAssumption DEF Larger, SatSucc, KeyState, Nonces, Untracked
<1> QED
  BY <1>1 DEF Outcome, KeyState, Marks

-----------------------------------------------------------------------------
(* What slot does to one key.                                                *)

\* A nonce that is closed stays closed unless the call names that nonce.
LEMMA SlotKeepsClosed ==
  ASSUME NEW ks \in KeyState, AcceptedPassed(ks), NEW reported \in Nonces,
         NEW expected \in Nonces \cup {Unnamed}, NEW order \in BOOLEAN,
         NEW n \in Nonces, Closed(ks, n)
  PROVE  \/ Closed(Slot(ks, reported, expected, order), n)
         \/ /\ SlotGranted(ks, reported, expected, order)
            /\ expected # Unnamed
            /\ n = reported
<1> SUFFICES ASSUME ~(SlotGranted(ks, reported, expected, order)
                        /\ expected # Unnamed /\ n = reported)
             PROVE  Closed(Slot(ks, reported, expected, order), n)
  OBVIOUS
<1> DEFINE after == Slot(ks, reported, expected, order)
<1> USE MaxNonceAssumption DEF KeyState, Nonces, Untracked, Unnamed, Closed
<1>1. CASE RefusedOutright(ks, reported, expected)
  BY <1>1 DEF Slot
<1>2. CASE SlotGranted(ks, reported, expected, order)
  <2>1. /\ after.next = Larger(ks.next, reported)
        /\ after.held[n] = Retained(ks, reported, expected)[n]
    BY <1>2 DEF Slot, SlotGranted
  <2>2. CASE n < ks.next
    BY <2>1, <2>2 DEF Larger
  <2>3. CASE n < reported
    BY <2>1, <2>3 DEF Larger
  <2>4. CASE n >= reported /\ ks.held[n] # "none"
    BY <1>2, <2>1, <2>4 DEF Retained
  <2> QED
    BY <2>2, <2>3, <2>4
<1>3. CASE /\ ~RefusedOutright(ks, reported, expected)
           /\ ~SlotGranted(ks, reported, expected, order)
  <2>1. after = [ks EXCEPT !.held = Retained(ks, reported, expected)]
    BY <1>3 DEF Slot
  <2>2. expected = Unnamed
    BY <1>3 DEF SlotGranted
  <2>3. /\ after.next = ks.next
        /\ after.held[n] = IF n < reported /\ ks.held[n] = "accepted"
                           THEN "none" ELSE ks.held[n]
    BY <2>1, <2>2 DEF Retained
  <2>4. CASE n < reported /\ ks.held[n] = "accepted"
    BY <2>3, <2>4 DEF AcceptedPassed
  <2> QED
    BY <2>3, <2>4
<1> QED
  BY <1>1, <1>2, <1>3

\* Pruning and raising next keep every accepted entry below next.
LEMMA SlotKeepsAcceptedPassed ==
  ASSUME NEW ks \in KeyState, AcceptedPassed(ks), NEW reported \in Nonces,
         NEW expected \in Nonces \cup {Unnamed}, NEW order \in BOOLEAN
  PROVE  AcceptedPassed(Slot(ks, reported, expected, order))
<1> USE MaxNonceAssumption DEF KeyState, Nonces, Untracked
<1> SUFFICES ASSUME NEW n \in Nonces,
                    Slot(ks, reported, expected, order).held[n] = "accepted"
             PROVE  LET after == Slot(ks, reported, expected, order)
                    IN  n < after.next \/ (n = MaxNonce /\ after.next = n)
  BY DEF AcceptedPassed
<1>1. ks.held[n] = "accepted"
  BY DEF Slot, Retained
<1>2. /\ Slot(ks, reported, expected, order).next >= ks.next
      /\ Slot(ks, reported, expected, order).next \in Nonces \cup {Untracked}
  BY DEF Slot, Larger
<1> QED
  BY <1>1, <1>2 DEF AcceptedPassed

\* What a call that names nothing has been told when it is granted a nonce.
LEMMA SlotGrantedUnnamed ==
  ASSUME NEW ks \in KeyState, NEW reported \in Nonces, NEW order \in BOOLEAN,
         SlotGranted(ks, reported, Unnamed, order)
  PROVE  /\ ~Closed(ks, reported)
         /\ reported \notin ks.reserved
         /\ order => reported = ks.next \/ reported = 0
  BY MaxNonceAssumption
  DEF SlotGranted, RefusedOutright, RaisesOrder, Closed, Larger,
      KeyState, Nonces, Untracked, Unnamed

\* A grant reserves the nonce and raises next to it at most; a refusal touches
\* neither.
LEMMA SlotNextAndReserved ==
  ASSUME NEW ks \in KeyState, NEW reported \in Nonces,
         NEW expected \in Nonces \cup {Unnamed}, NEW order \in BOOLEAN
  PROVE  LET after == Slot(ks, reported, expected, order)
         IN  IF SlotGranted(ks, reported, expected, order)
             THEN /\ after.reserved = ks.reserved \cup {reported}
                  /\ after.next = ks.next \/ after.next = reported
             ELSE after.reserved = ks.reserved /\ after.next = ks.next
  BY DEF Slot, SlotGranted, Larger, KeyState

-----------------------------------------------------------------------------
(* What the other methods keep.                                              *)

\* A signature closes its nonce and opens none.
LEMMA SignedCloses ==
  ASSUME NEW ks \in KeyState, AcceptedPassed(ks), NEW n \in Nonces
  PROVE  /\ Closed(Signed(ks, n), n)
         /\ \A m \in Nonces : Closed(ks, m) => Closed(Signed(ks, n), m)
         /\ AcceptedPassed(Signed(ks, n))
  BY DEF Signed, Closed, AcceptedPassed, KeyState

\* The outcome of a call opens no nonce, and an accepted one is passed.
LEMMA OutcomeKeepsClosed ==
  ASSUME NEW ks \in KeyState, AcceptedPassed(ks), NEW n \in Nonces,
         NEW accepted \in BOOLEAN
  PROVE  /\ \A m \in Nonces : Closed(ks, m) => Closed(Outcome(ks, n, accepted), m)
         /\ AcceptedPassed(Outcome(ks, n, accepted))
<1> USE MaxNonceAssumption DEF KeyState, Nonces, Untracked
<1>1. CASE ~accepted
  BY <1>1 DEF Outcome
<1>2. CASE accepted
  <2> DEFINE after == Outcome(ks, n, accepted)
  <2>1. /\ after.next = Larger(ks.next, SatSucc(n))
        /\ after.held = [ks.held EXCEPT ![n] = "accepted"]
    BY <1>2 DEF Outcome
  <2>2. /\ after.next >= ks.next /\ after.next \in Nonces
        /\ n < after.next \/ (n = MaxNonce /\ after.next = n)
    BY <2>1 DEF Larger, SatSucc
  <2> HIDE DEF after
  <2>3. \A m \in Nonces : Closed(ks, m) => Closed(after, m)
    BY <2>1, <2>2 DEF Closed
  <2>4. AcceptedPassed(after)
    BY <2>1, <2>2 DEF AcceptedPassed
  <2> QED
    BY <2>3, <2>4 DEF after
<1> QED
  BY <1>1, <1>2

\* What a new process makes of a saved session closes what was saved closed.
LEMMA ImportedCloses ==
  ASSUME NEW saved \in SavedKey, AcceptedPassed(saved)
  PROVE  /\ \A n \in Nonces : Closed(saved, n) => Closed(Imported(FreshKey, saved), n)
         /\ AcceptedPassed(Imported(FreshKey, saved))
  BY MaxNonceAssumption
  DEF Imported, FreshKey, NoHolds, SavedKey, Closed, AcceptedPassed, Larger,
      Nonces, Untracked, Marks
=============================================================================
