--------------------------- MODULE QcoreCli_proofs ---------------------------
(* What the session file of the qcore program guarantees, for any number of  *)
(* runs one after the other and any largest nonce.  The theorems assume that *)
(* one run is alive at a time: with two the file loses what it said, which   *)
(* the run cli_concurrent shows.                                             *)
EXTENDS QcoreCli, SigningSession_proofs, FiniteSetTheorems

\* The points of a run with a signature that has not been submitted.
Unsent == {"hookOpen", "hookWrite", "hookRename", "submit"}

\* A run that writes has a file open.
TypeInv ==
  /\ TypeOK
  /\ \A r \in Runs : pc[r] \in {"hookWrite", "saveWrite"} => fd[r] # NoFile

OneAlive == \A q, r \in Runs : pc[q] # "off" /\ pc[r] # "off" => q = r

\* The session file is absent or whole, and its accepted entries are passed.
FileWhole ==
  /\ path = Absent \/ path.kind = "session"
  /\ path.kind = "session" => AcceptedPassed(path.saved)

\* What was submitted is on file, once.
SentOnFile == \A n \in Nonces : sent[n] <= 1 /\ (sent[n] > 0 => OnFile(n))

\* A run's session closes what the file closes and what the run signed; a
\* signature that was not submitted is the only one at its nonce, and it is
\* on file before it is submitted.
RunKnows(r) ==
  /\ pc[r] # "off" => /\ AcceptedPassed(mem[r])
                     /\ \A n \in Nonces : OnFile(n) => Closed(mem[r], n)
  /\ pc[r] \in Unsent => Closed(mem[r], nonce[r]) /\ sent[nonce[r]] = 0
  /\ pc[r] = "submit" => OnFile(nonce[r])

\* The temporary file is the run's own, empty when it writes and whole when
\* it renames it.
TempOwned(r) ==
  /\ pc[r] \in {"hookWrite", "saveWrite"} => fd[r] = "temp" /\ temp = Torn
  /\ pc[r] \in {"hookRename", "saveRename"} =>
       fd[r] = "temp" /\ temp = Whole(Exported(mem[r]))

CliInv ==
  /\ TypeInv /\ OneAlive /\ FileWhole /\ SentOnFile
  /\ \A r \in Runs : RunKnows(r) /\ TempOwned(r)

-----------------------------------------------------------------------------
\* What a run writes is a saved session, and reading it back gives its parts.
LEMMA WholeType ==
  ASSUME NEW ks \in KeyState
  PROVE  /\ Whole(Exported(ks)) \in Contents
         /\ Whole(Exported(ks)).kind = "session"
         /\ Whole(Exported(ks)).saved = Exported(ks)
  BY ExportedType DEF Whole, Contents

\* A call that signs nothing opens no nonce.
LEMMA UnsignedKeepsClosed ==
  ASSUME NEW ks \in KeyState, AcceptedPassed(ks), NEW reported \in Nonces
  PROVE  /\ AcceptedPassed(Unsigned(ks, reported))
         /\ \A n \in Nonces : Closed(ks, n) => Closed(Unsigned(ks, reported), n)
<1> DEFINE slot == Slot(ks, reported, Unnamed, FALSE)
<1>1. slot \in KeyState
  BY SlotType
<1>2. AcceptedPassed(slot)
  BY SlotKeepsAcceptedPassed
<1>3. \A n \in Nonces : Closed(ks, n) => Closed(slot, n)
  BY SlotKeepsClosed
<1> HIDE DEF slot
<1>4. Release(slot, reported).next = slot.next /\ Release(slot, reported).held = slot.held
  BY <1>1 DEF Release, KeyState
<1>5. Unsigned(ks, reported) \in {slot, Release(slot, reported)}
  BY DEF Unsigned, slot
<1> QED
  BY <1>2, <1>3, <1>4, <1>5 DEF AcceptedPassed, Closed

LEMMA BlankType == Blank \in SavedKey /\ Absent \in Contents /\ Torn \in Contents
  BY DEF Blank, SavedKey, NoHolds, Marks, Absent, Torn, Contents

\* The state is well typed, and a run that writes has a file open.
THEOREM TypeCorrect == Spec => []TypeInv
<1>1. Init => TypeInv
  BY BlankType, FreshKeyType, MaxNonceAssumption
  DEF Init, TypeInv, TypeOK, PCs, NoFile, Nonces
<1>2. TypeInv /\ [Next]_vars => TypeInv'
  <2> SUFFICES ASSUME TypeInv, [Next]_vars PROVE TypeInv'
    OBVIOUS
  <2> USE DEF TypeInv, TypeOK, Goto, files
  <2>0. Unnamed \in Nonces \cup {Unnamed} /\ 0 \in Nonces
    BY MaxNonceAssumption DEF Nonces
  <2>1. ASSUME NEW r \in Runs, Load(r) PROVE TypeInv'
    <3>1. path.saved \in SavedKey
      BY DEF Contents
    <3>2. Imported(FreshKey, path.saved) \in KeyState
      BY <3>1, FreshKeyType, ImportedType
    <3> QED
      BY <2>1, <3>2, FreshKeyType DEF Load, PCs
  <2>2. ASSUME NEW r \in Runs, NEW reported \in Nonces, SignAt(r, reported) PROVE TypeInv'
    <3>1. Signed(Slot(mem[r], reported, Unnamed, FALSE), reported) \in KeyState
      BY <2>0, SlotType, SignedType
    <3> QED
      BY <2>2, <3>1 DEF SignAt, PCs
  <2>3. ASSUME NEW r \in Runs, CallFails(r) PROVE TypeInv'
    <3>1. \A reported \in Nonces : Unsigned(mem[r], reported) \in KeyState
      BY <2>0, SlotType, ReleaseType DEF Unsigned
    <3>2. mem' \in [Runs -> KeyState]
      BY <2>3, <3>1 DEF CallFails
    <3> QED
      BY <2>3, <3>2 DEF CallFails, PCs
  <2>4. ASSUME NEW r \in Runs, OpenTemp(r) PROVE TypeInv'
    BY <2>4, BlankType DEF OpenTemp, PCs, NoFile
  <2>5. ASSUME NEW r \in Runs, WriteTemp(r) PROVE TypeInv'
    <3> DEFINE text == Whole(Exported(mem[r]))
    <3>1. text \in Contents
      BY WholeType
    <3>2. Filled(temp, text) \subseteq Contents /\ Filled(path, text) \subseteq Contents
      BY <3>1, BlankType DEF Filled
    <3> HIDE DEF text
    <3>3. path' \in Contents /\ temp' \in Contents
      <4>1. \/ fd[r] = "temp" /\ temp' \in Filled(temp, text) /\ path' = path
            \/ fd[r] = "path" /\ path' \in Filled(path, text) /\ temp' = temp
            \/ path' = path /\ temp' = temp
        BY <2>5 DEF WriteTemp, text, NoFile
      <4> QED
        BY <3>2, <4>1
    <3> QED
      BY <2>5, <3>3 DEF WriteTemp, PCs
  <2>6. ASSUME NEW r \in Runs, HookRenames(r) PROVE TypeInv'
    BY <2>6, BlankType DEF HookRenames, RenameTemp, AfterRename, PCs, NoFile
  <2>7. ASSUME NEW r \in Runs, SaveRenames(r) PROVE TypeInv'
    BY <2>0, <2>7, BlankType, FreshKeyType DEF SaveRenames, RenameTemp, AfterRename, PCs, NoFile
  <2>8. ASSUME NEW r \in Runs, HookFails(r) PROVE TypeInv'
    BY <2>8 DEF HookFails, PCs, NoFile
  <2>9. ASSUME NEW r \in Runs, Submit(r) PROVE TypeInv'
    BY <2>9 DEF Submit, PCs
  <2>10. ASSUME NEW r \in Runs, Answered(r) PROVE TypeInv'
    <3>1. \A accepted \in BOOLEAN : Outcome(mem[r], nonce[r], accepted) \in KeyState
      BY OutcomeType
    <3>2. mem' \in [Runs -> KeyState]
      BY <2>10, <3>1 DEF Answered
    <3> QED
      BY <2>10, <3>2 DEF Answered, PCs
  <2>11. ASSUME NEW r \in Runs, Dies(r) PROVE TypeInv'
    BY <2>0, <2>11, FreshKeyType DEF Dies, Ends, PCs, NoFile
  <2>12. CASE UNCHANGED vars
    BY <2>12 DEF vars
  <2> QED
    BY <2>1, <2>2, <2>3, <2>4, <2>5, <2>6, <2>7, <2>8, <2>9, <2>10, <2>11, <2>12 DEF Next
<1> QED
  BY <1>1, <1>2, PTL DEF Spec

-----------------------------------------------------------------------------
\* A run may start only while no other is alive.
LEMMA LoadsAlone ==
  ASSUME MaxAlive <= 1, OneAlive, NEW r \in Runs, Load(r)
  PROVE  \A q \in Runs : pc[q] = "off"
<1> SUFFICES ASSUME NEW q \in Runs, pc[q] # "off" PROVE FALSE
  OBVIOUS
<1>1. Alive = {q}
  BY DEF Alive, OneAlive
<1>2. Cardinality(Alive) = 1
  BY <1>1, FS_Singleton
<1> QED
  BY <1>2, MaxAliveAssumption DEF Load

\* What a step of the only run has to keep: the runs that are off know and
\* own nothing.
LEMMA StepOfOne ==
  ASSUME TypeOK, NEW r \in Runs, \A q \in Runs : q # r => pc[q] = "off",
         NEW l \in PCs, Goto(r, l),
         TypeInv', FileWhole', SentOnFile', RunKnows(r)', TempOwned(r)'
  PROVE  CliInv'
<1>1. \A q \in Runs : q # r => pc'[q] = "off"
  BY DEF Goto, TypeOK
<1>2. OneAlive'
  BY <1>1 DEF OneAlive
<1>3. \A q \in Runs : q # r => RunKnows(q)' /\ TempOwned(q)'
  BY <1>1 DEF RunKnows, TempOwned, Unsent
<1> QED
  BY <1>2, <1>3 DEF CliInv

\* The one file step that changes session.json: it becomes what the run holds.
LEMMA RenamePublishes ==
  ASSUME CliInv, NEW r \in Runs, pc[r] \in {"hookRename", "saveRename"},
         RenameTemp(r), UNCHANGED sent
  PROVE  /\ FileWhole' /\ SentOnFile'
         /\ \A n \in Nonces : OnFile(n)' <=> Closed(mem[r], n)
<1>1. path' = Whole(Exported(mem[r])) /\ mem[r] \in KeyState /\ AcceptedPassed(mem[r])
      /\ \A n \in Nonces : OnFile(n) => Closed(mem[r], n)
  BY DEF RenameTemp, CliInv, TempOwned, RunKnows, TypeInv, TypeOK
<1>2. path'.kind = "session" /\ path'.saved = Exported(mem[r])
  BY <1>1, WholeType
<1>3. /\ Exported(mem[r]).next = mem[r].next
      /\ Exported(mem[r]).held = mem[r].held
  BY DEF Exported
<1>4. \A n \in Nonces : OnFile(n)' <=> Closed(mem[r], n)
  BY <1>2, <1>3 DEF OnFile, Closed
<1>5. FileWhole'
  BY <1>1, <1>2, <1>3 DEF FileWhole, AcceptedPassed
<1>6. SentOnFile'
  BY <1>1, <1>4 DEF SentOnFile, CliInv
<1> QED
  BY <1>4, <1>5, <1>6

-----------------------------------------------------------------------------
\* The file is never behind what was submitted, and a run never behind the
\* file, as long as one run is alive at a time.
LEMMA NextKeepsInv ==
  ASSUME MaxAlive <= 1, CliInv, [Next]_vars, TypeInv'
  PROVE  CliInv'
<1> USE DEF files, PCs
<1>a. TypeInv /\ TypeOK /\ OneAlive /\ FileWhole /\ SentOnFile
  BY DEF CliInv, TypeInv
<1>b. \A r \in Runs : /\ RunKnows(r) /\ TempOwned(r)
                     /\ mem[r] \in KeyState /\ nonce[r] \in Nonces
  BY <1>a DEF CliInv, TypeOK
<1>c. \A r \in Runs : pc[r] # "off" => \A q \in Runs : q # r => pc[q] = "off"
  BY <1>a DEF OneAlive
<1>d. \A r \in Runs : \A l \in PCs :
        Goto(r, l) => pc'[r] = l
  BY <1>a DEF Goto, TypeOK
<1>e. UNCHANGED <<path, sent>> =>
        /\ FileWhole' /\ SentOnFile'
        /\ \A n \in Nonces : OnFile(n)' <=> OnFile(n)
  BY <1>a DEF FileWhole, SentOnFile, OnFile
<1>1. ASSUME NEW r \in Runs, Load(r) PROVE CliInv'
  <2>1. \A q \in Runs : q # r => pc[q] = "off"
    BY <1>1, <1>a, LoadsAlone
  <2>2. /\ UNCHANGED <<path, sent>> /\ Goto(r, "loaded") /\ pc'[r] = "loaded"
        /\ mem'[r] = IF path = Absent THEN FreshKey ELSE Imported(FreshKey, path.saved)
    BY <1>1, <1>a, <1>d DEF Load, TypeOK
  <2>3. AcceptedPassed(mem[r])' /\ \A n \in Nonces : OnFile(n) => Closed(mem[r], n)'
    <3>1. CASE path = Absent
      <4>1. mem'[r] = FreshKey /\ \A n \in Nonces : ~OnFile(n)
        BY <2>2, <3>1 DEF OnFile, Absent
      <4>2. AcceptedPassed(FreshKey)
        BY DEF AcceptedPassed, FreshKey, NoHolds
      <4> QED
        BY <4>1, <4>2 DEF AcceptedPassed
    <3>2. CASE path # Absent
      <4>1. path.kind = "session" /\ AcceptedPassed(path.saved) /\ path.saved \in SavedKey
        BY <1>a, <3>2 DEF FileWhole, TypeOK, Contents
      <4>2. mem'[r] = Imported(FreshKey, path.saved)
        BY <2>2, <3>2
      <4>3. /\ AcceptedPassed(Imported(FreshKey, path.saved))
            /\ \A n \in Nonces : Closed(path.saved, n) => Closed(Imported(FreshKey, path.saved), n)
        BY <4>1, ImportedCloses
      <4> QED
        BY <4>2, <4>3 DEF OnFile, Closed, AcceptedPassed
    <3> QED
      BY <3>1, <3>2
  <2>4. RunKnows(r)' /\ TempOwned(r)'
    BY <2>2, <2>3, <1>e DEF RunKnows, TempOwned, Unsent
  <2> QED
    BY <2>1, <2>2, <2>4, <1>a, <1>e, StepOfOne
<1>2. ASSUME NEW r \in Runs, NEW reported \in Nonces, SignAt(r, reported) PROVE CliInv'
  <2> DEFINE slot  == Slot(mem[r], reported, Unnamed, FALSE)
  <2>1. /\ UNCHANGED <<path, sent>> /\ Goto(r, "hookOpen") /\ pc'[r] = "hookOpen"
        /\ pc[r] = "loaded" /\ nonce'[r] = reported
        /\ mem'[r] = Signed(slot, reported)
        /\ SlotGranted(mem[r], reported, Unnamed, FALSE)
    BY <1>2, <1>a, <1>d DEF SignAt, TypeOK
  <2>2. /\ AcceptedPassed(mem[r]) /\ mem[r] \in KeyState
        /\ \A n \in Nonces : OnFile(n) => Closed(mem[r], n)
    BY <2>1, <1>b DEF RunKnows
  <2>3. ~Closed(mem[r], reported)
    BY <2>1, <2>2, SlotGrantedUnnamed
  <2>4. sent[reported] = 0
    BY <2>2, <2>3, <1>a DEF SentOnFile, TypeOK
  <2>5. slot \in KeyState /\ AcceptedPassed(slot)
        /\ \A n \in Nonces : Closed(mem[r], n) => Closed(slot, n)
    BY <2>2, SlotType, SlotKeepsAcceptedPassed, SlotKeepsClosed DEF Unnamed
  <2> HIDE DEF slot
  <2>6. /\ AcceptedPassed(Signed(slot, reported)) /\ Closed(Signed(slot, reported), reported)
        /\ \A n \in Nonces : Closed(slot, n) => Closed(Signed(slot, reported), n)
    BY <2>5, SignedCloses
  <2>7. /\ AcceptedPassed(mem[r])' /\ Closed(mem[r], reported)'
        /\ \A n \in Nonces : OnFile(n) => Closed(mem[r], n)'
    BY <2>1, <2>2, <2>5, <2>6 DEF AcceptedPassed, Closed
  <2>8. RunKnows(r)' /\ TempOwned(r)'
    BY <2>1, <2>4, <2>7, <1>e DEF RunKnows, TempOwned, Unsent
  <2> QED
    BY <2>1, <2>8, <1>a, <1>c, <1>e, StepOfOne
<1>3. ASSUME NEW r \in Runs, CallFails(r) PROVE CliInv'
  <2>1. /\ UNCHANGED <<path, sent>> /\ Goto(r, "saveOpen") /\ pc'[r] = "saveOpen"
        /\ pc[r] = "loaded"
    BY <1>3, <1>d DEF CallFails
  <2>2. /\ AcceptedPassed(mem[r]) /\ mem[r] \in KeyState
        /\ \A n \in Nonces : OnFile(n) => Closed(mem[r], n)
    BY <2>1, <1>b DEF RunKnows
  <2>3. AcceptedPassed(mem'[r]) /\ \A n \in Nonces : Closed(mem[r], n) => Closed(mem'[r], n)
    <3>1. CASE mem' = mem
      BY <2>2, <3>1
    <3>2. CASE \E reported \in Nonces : mem' = [mem EXCEPT ![r] = Unsigned(@, reported)]
      <4>1. PICK reported \in Nonces : mem'[r] = Unsigned(mem[r], reported)
        BY <3>2, <1>a DEF TypeOK
      <4> QED
        BY <2>2, <4>1, UnsignedKeepsClosed
    <3> QED
      BY <1>3, <3>1, <3>2 DEF CallFails
  <2>4. RunKnows(r)' /\ TempOwned(r)'
    BY <2>1, <2>2, <2>3, <1>e DEF RunKnows, TempOwned, Unsent
  <2> QED
    BY <2>1, <2>4, <1>a, <1>c, <1>e, StepOfOne
<1>4. ASSUME NEW r \in Runs, OpenTemp(r) PROVE CliInv'
  <2> DEFINE l == IF pc[r] = "hookOpen" THEN "hookWrite" ELSE "saveWrite"
  <2>1. /\ UNCHANGED <<path, mem, nonce, sent>> /\ Goto(r, l) /\ l \in PCs /\ pc'[r] = l
        /\ pc[r] \in {"hookOpen", "saveOpen"} /\ temp' = Torn /\ fd'[r] = "temp"
    BY <1>4, <1>a, <1>d DEF OpenTemp, TypeOK
  <2>2. RunKnows(r)' /\ TempOwned(r)'
    BY <2>1, <1>b, <1>e DEF RunKnows, TempOwned, Unsent
  <2> QED
    BY <2>1, <2>2, <1>a, <1>c, <1>e, StepOfOne
<1>5. ASSUME NEW r \in Runs, WriteTemp(r) PROVE CliInv'
  <2> DEFINE l == IF pc[r] = "hookWrite" THEN "hookRename" ELSE "saveRename"
  <2>1. /\ UNCHANGED <<mem, nonce, fd, sent>> /\ Goto(r, l) /\ l \in PCs /\ pc'[r] = l
        /\ pc[r] \in {"hookWrite", "saveWrite"}
    BY <1>5, <1>d DEF WriteTemp
  <2>2. fd[r] = "temp" /\ temp = Torn
    BY <2>1, <1>b DEF TempOwned
  <2>3. temp' = Whole(Exported(mem[r])) /\ path' = path
    BY <1>5, <2>2 DEF WriteTemp, Filled
  <2>4. RunKnows(r)' /\ TempOwned(r)'
    BY <2>1, <2>2, <2>3, <1>b, <1>e DEF RunKnows, TempOwned, Unsent
  <2> QED
    BY <2>1, <2>3, <2>4, <1>a, <1>c, <1>e, StepOfOne
<1>6. ASSUME NEW r \in Runs, HookRenames(r) PROVE CliInv'
  <2>1. /\ UNCHANGED <<mem, nonce, sent>> /\ Goto(r, "submit") /\ pc'[r] = "submit"
        /\ pc[r] = "hookRename" /\ RenameTemp(r)
    BY <1>6, <1>d DEF HookRenames
  <2>2. /\ FileWhole' /\ SentOnFile'
        /\ \A n \in Nonces : OnFile(n)' <=> Closed(mem[r], n)
    BY <2>1, RenamePublishes
  <2>3. RunKnows(r)' /\ TempOwned(r)'
    BY <2>1, <2>2, <1>b DEF RunKnows, TempOwned, Unsent
  <2> QED
    BY <2>1, <2>2, <2>3, <1>a, <1>c, StepOfOne
<1>7. ASSUME NEW r \in Runs, SaveRenames(r) PROVE CliInv'
  <2>1. /\ UNCHANGED sent /\ Goto(r, "off") /\ pc'[r] = "off"
        /\ pc[r] = "saveRename" /\ RenameTemp(r)
    BY <1>7, <1>d DEF SaveRenames
  <2>2. FileWhole' /\ SentOnFile'
    BY <2>1, RenamePublishes
  <2>3. RunKnows(r)' /\ TempOwned(r)'
    BY <2>1 DEF RunKnows, TempOwned, Unsent
  <2> QED
    BY <2>1, <2>2, <2>3, <1>a, <1>c, StepOfOne
<1>8. ASSUME NEW r \in Runs, HookFails(r) PROVE CliInv'
  <2>1. /\ UNCHANGED <<path, temp, mem, nonce, sent>> /\ Goto(r, "saveOpen")
        /\ pc'[r] = "saveOpen" /\ pc[r] \in {"hookOpen", "hookWrite", "hookRename"}
    BY <1>8, <1>d DEF HookFails
  <2>2. RunKnows(r)' /\ TempOwned(r)'
    BY <2>1, <1>b, <1>e DEF RunKnows, TempOwned, Unsent
  <2> QED
    BY <2>1, <2>2, <1>a, <1>c, <1>e, StepOfOne
<1>9. ASSUME NEW r \in Runs, Submit(r) PROVE CliInv'
  <2>1. /\ UNCHANGED <<path, temp, mem, nonce>> /\ Goto(r, "answer")
        /\ pc'[r] = "answer" /\ pc[r] = "submit"
        /\ sent' = [sent EXCEPT ![nonce[r]] = IF @ = 2 THEN 2 ELSE @ + 1]
    BY <1>9, <1>d DEF Submit
  <2>2. sent[nonce[r]] = 0 /\ OnFile(nonce[r]) /\ nonce[r] \in Nonces
    BY <2>1, <1>b DEF RunKnows, Unsent
  <2>3. \A n \in Nonces : sent'[n] = IF n = nonce[r] THEN 1 ELSE sent[n]
    BY <2>1, <2>2, <1>a DEF TypeOK
  <2>4. FileWhole' /\ SentOnFile'
    BY <2>1, <2>2, <2>3, <1>a DEF FileWhole, SentOnFile, OnFile
  <2>5. RunKnows(r)' /\ TempOwned(r)'
    BY <2>1, <1>b DEF RunKnows, TempOwned, Unsent, OnFile
  <2> QED
    BY <2>1, <2>4, <2>5, <1>a, <1>c, StepOfOne
<1>10. ASSUME NEW r \in Runs, Answered(r) PROVE CliInv'
  <2>1. PICK accepted \in BOOLEAN : mem'[r] = Outcome(mem[r], nonce[r], accepted)
    BY <1>10, <1>a DEF Answered, TypeOK
  <2>2. /\ UNCHANGED <<path, temp, sent>> /\ Goto(r, "saveOpen")
        /\ pc'[r] = "saveOpen" /\ pc[r] = "answer"
    BY <1>10, <1>d DEF Answered
  <2>3. /\ AcceptedPassed(mem[r]) /\ mem[r] \in KeyState /\ nonce[r] \in Nonces
        /\ \A n \in Nonces : OnFile(n) => Closed(mem[r], n)
    BY <2>2, <1>b DEF RunKnows
  <2>4. /\ AcceptedPassed(mem'[r])
        /\ \A n \in Nonces : Closed(mem[r], n) => Closed(mem'[r], n)
    BY <2>1, <2>3, OutcomeKeepsClosed
  <2>5. RunKnows(r)' /\ TempOwned(r)'
    BY <2>2, <2>3, <2>4, <1>e DEF RunKnows, TempOwned, Unsent
  <2> QED
    BY <2>2, <2>5, <1>a, <1>c, <1>e, StepOfOne
<1>11. ASSUME NEW r \in Runs, Dies(r) PROVE CliInv'
  <2>1. /\ UNCHANGED <<path, temp, sent>> /\ Goto(r, "off") /\ pc'[r] = "off" /\ pc[r] # "off"
    BY <1>11, <1>d DEF Dies, Ends
  <2>2. RunKnows(r)' /\ TempOwned(r)'
    BY <2>1 DEF RunKnows, TempOwned, Unsent
  <2> QED
    BY <2>1, <2>2, <1>a, <1>c, <1>e, StepOfOne
<1>12. CASE UNCHANGED vars
  BY <1>12 DEF vars, CliInv, OneAlive, FileWhole, SentOnFile, RunKnows, TempOwned, OnFile
<1> QED
  BY <1>1, <1>2, <1>3, <1>4, <1>5, <1>6, <1>7, <1>8, <1>9, <1>10, <1>11, <1>12 DEF Next

\* With one run at a time the file and the runs know what was submitted.
THEOREM CliInvariant ==
  ASSUME MaxAlive <= 1
  PROVE  Spec => []CliInv
<1>1. TypeInv /\ Init => CliInv
  BY DEF Init, CliInv, OneAlive, FileWhole, SentOnFile, RunKnows, TempOwned, Unsent, Absent, Blank
<1>2. TypeInv' /\ CliInv /\ [Next]_vars => CliInv'
  BY NextKeepsInv
<1> QED
  BY <1>1, <1>2, TypeCorrect, PTL DEF Spec

\* No two transactions are submitted at one nonce, by any number of runs one
\* after the other, whatever dies and fails.
THEOREM NoSecondSubmission ==
  ASSUME MaxAlive <= 1
  PROVE  Spec => []SubmittedOnce
<1>1. CliInv => SubmittedOnce
  BY DEF CliInv, SentOnFile, SubmittedOnce
<1> QED
  BY <1>1, CliInvariant, PTL

\* Whatever was submitted is closed in session.json.
THEOREM WrittenAhead ==
  ASSUME MaxAlive <= 1
  PROVE  Spec => []SentIsOnFile
<1>1. CliInv => SentIsOnFile
  BY DEF CliInv, SentOnFile, SentIsOnFile
<1> QED
  BY <1>1, CliInvariant, PTL

\* session.json is never half written and opens no nonce it closed.
THEOREM FileRemembers ==
  ASSUME MaxAlive <= 1
  PROVE  Spec => FileNeverForgets
<1>1. CliInv /\ CliInv' /\ [Next]_vars =>
        [ /\ path # Torn => path' # Torn
          /\ \A n \in Nonces : OnFile(n) => OnFile(n)' ]_vars
  <2> SUFFICES ASSUME CliInv, CliInv', Next
               PROVE  path' # Torn /\ \A n \in Nonces : OnFile(n) => OnFile(n)'
    OBVIOUS
  <2>1. path' # Torn
    BY DEF CliInv, FileWhole, Absent, Torn
  <2>2. CASE UNCHANGED path
    BY <2>1, <2>2 DEF OnFile
  <2>3. ASSUME NEW r \in Runs, pc[r] \in {"hookRename", "saveRename"}, RenameTemp(r), UNCHANGED sent
        PROVE  \A n \in Nonces : OnFile(n) => OnFile(n)'
    <3>1. \A n \in Nonces : OnFile(n) => Closed(mem[r], n)
      BY <2>3 DEF CliInv, RunKnows
    <3> QED
      BY <2>3, <3>1, RenamePublishes
  <2>4. CASE \E r \in Runs : WriteTemp(r)
    BY <2>1, <2>2, <2>4 DEF WriteTemp, CliInv, TempOwned
  <2> QED
    BY <2>1, <2>2, <2>3, <2>4
    DEF Next, Load, SignAt, CallFails, OpenTemp, HookRenames, SaveRenames, HookFails,
        Submit, Answered, Dies, files
<1> QED
  BY <1>1, CliInvariant, PTL DEF Spec, FileNeverForgets
=============================================================================
