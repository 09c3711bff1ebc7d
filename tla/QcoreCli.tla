------------------------------ MODULE QcoreCli ------------------------------
(* The signing commands of src/src/bin/qcore.rs (send and register): runs of *)
(* the program, one process each, that share the session file.  A run loads  *)
(* the file, signs at most one transaction without naming its nonce, saves   *)
(* the session before it submits (the signed hook) and once more at the end. *)
(* Between two file or network operations only the run's own memory changes, *)
(* so reserving, signing and marking are one step here.                      *)
EXTENDS SigningSession, FiniteSets

CONSTANTS Runs,         \* processes; a finished one may be started again
          MaxAlive      \* how many of them run at the same time

ASSUME MaxAliveAssumption == MaxAlive \in Nat

\* A file is absent, torn (empty, or not one whole session) or a session.
Contents == [kind : {"absent", "torn", "session"}, saved : SavedKey]
Blank    == [next |-> Untracked, held |-> NoHolds]
Absent   == [kind |-> "absent", saved |-> Blank]
Torn     == [kind |-> "torn", saved |-> Blank]
Whole(saved) == [kind |-> "session", saved |-> saved]

NoFile == "none"        \* the run has no file open

VARIABLES path,         \* contents of session.json
          temp,         \* contents of session.tmp
          pc, mem,      \* each run: where it is, its session in memory
          nonce,        \* each run: the nonce it signed at
          fd,           \* each run: what its open file is by now
          sent          \* history: transactions submitted at a nonce, up to 2

vars == <<path, temp, pc, mem, nonce, fd, sent>>

\* The write_session of the hook is at "hook...", that of the end at "save...".
PCs == {"off", "loaded", "hookOpen", "hookWrite", "hookRename", "submit", "answer",
        "saveOpen", "saveWrite", "saveRename"}

TypeOK ==
  /\ path \in Contents /\ temp \in Contents
  /\ pc \in [Runs -> PCs]
  /\ mem \in [Runs -> KeyState]
  /\ nonce \in [Runs -> Nonces]
  /\ fd \in [Runs -> {NoFile, "temp", "path", "orphan"}]
  /\ sent \in [Nonces -> 0 .. 2]

Init ==
  /\ path = Absent /\ temp = Absent
  /\ pc = [r \in Runs |-> "off"]
  /\ mem = [r \in Runs |-> FreshKey]
  /\ nonce = [r \in Runs |-> 0]
  /\ fd = [r \in Runs |-> NoFile]
  /\ sent = [n \in Nonces |-> 0]

Alive == {r \in Runs : pc[r] # "off"}
Goto(r, l) == pc' = [pc EXCEPT ![r] = l]
files == <<path, temp, fd>>

\* The process ends: its memory and its open file are gone.
Ends(r) ==
  /\ Goto(r, "off")
  /\ mem' = [mem EXCEPT ![r] = FreshKey]
  /\ nonce' = [nonce EXCEPT ![r] = 0]
  /\ fd' = [fd EXCEPT ![r] = NoFile]

-----------------------------------------------------------------------------
\* load_session into the empty session of a new process.  An unreadable file
\* ends the run before it signs, which is no step of the shared state.
Load(r) ==
  /\ pc[r] = "off"
  /\ Cardinality(Alive) < MaxAlive
  /\ path # Torn
  /\ mem' = [mem EXCEPT ![r] = IF path = Absent THEN FreshKey ELSE Imported(FreshKey, path.saved)]
  /\ Goto(r, "loaded")
  /\ UNCHANGED <<nonce, files, sent>>

\* The client signs: slot, sign_transfer, signed.  The gateway reports any
\* nonce and no flag of the program names one.
SignAt(r, reported) ==
  /\ pc[r] = "loaded"
  /\ SlotGranted(mem[r], reported, Unnamed, FALSE)
  /\ mem' = [mem EXCEPT ![r] = Signed(Slot(@, reported, Unnamed, FALSE), reported)]
  /\ nonce' = [nonce EXCEPT ![r] = reported]
  /\ Goto(r, "hookOpen")
  /\ UNCHANGED <<files, sent>>

\* What a call that fails at its slot, or after it, leaves in memory: a
\* refused slot may have pruned the session, a granted one has raised next
\* and its reservation is dropped.
Unsigned(ks, reported) ==
  LET slot == Slot(ks, reported, Unnamed, FALSE)
  IN  IF SlotGranted(ks, reported, Unnamed, FALSE) THEN Release(slot, reported) ELSE slot

\* The call returns Err before anything is signed; the command saves all the
\* same.
CallFails(r) ==
  /\ pc[r] = "loaded"
  /\ \/ mem' = mem
     \/ \E reported \in Nonces : mem' = [mem EXCEPT ![r] = Unsigned(@, reported)]
  /\ Goto(r, "saveOpen")
  /\ UNCHANGED <<nonce, files, sent>>

(* write_session: open session.tmp with truncate, write and sync it, rename  *)
(* it over session.json.  The open file stays with its inode: a rename by    *)
(* another run turns the temp file this one has open into session.json.      *)
OpenTemp(r) ==
  /\ pc[r] \in {"hookOpen", "saveOpen"}
  /\ temp' = Torn
  /\ fd' = [fd EXCEPT ![r] = "temp"]
  /\ Goto(r, IF pc[r] = "hookOpen" THEN "hookWrite" ELSE "saveWrite")
  /\ UNCHANGED <<path, mem, nonce, sent>>

\* A slip: the session file itself is written, without the rename.
WriteTempInPlace(r) ==
  /\ pc[r] \in {"hookWrite", "saveWrite"}
  /\ path' \in {Whole(Exported(mem[r])), Torn}
  /\ Goto(r, IF pc[r] = "hookWrite" THEN "hookRename" ELSE "saveRename")
  /\ UNCHANGED <<temp, mem, nonce, fd, sent>>

\* Into a file somebody else has filled since, the text may leave a tail.
Filled(before, after) == {after} \cup (IF before = Torn THEN {} ELSE {Torn})

WriteTemp(r) ==
  /\ pc[r] \in {"hookWrite", "saveWrite"}
  /\ LET text == Whole(Exported(mem[r]))
     IN  CASE fd[r] = "temp"   -> temp' \in Filled(temp, text) /\ path' = path
           [] fd[r] = "path"   -> path' \in Filled(path, text) /\ temp' = temp
           [] fd[r] = "orphan" -> UNCHANGED <<path, temp>>
  /\ Goto(r, IF pc[r] = "hookWrite" THEN "hookRename" ELSE "saveRename")
  /\ UNCHANGED <<mem, nonce, fd, sent>>

\* What every other open file is after temp has become path.
AfterRename(r) ==
  [q \in Runs |-> CASE q = r         -> NoFile
                    [] fd[q] = "temp" -> "path"
                    [] fd[q] = "path" -> "orphan"
                    [] OTHER          -> fd[q]]

RenameTemp(r) ==
  /\ temp # Absent
  /\ path' = temp
  /\ temp' = Absent

HookRenames(r) ==
  /\ pc[r] = "hookRename"
  /\ RenameTemp(r)
  /\ fd' = AfterRename(r)
  /\ Goto(r, "submit")
  /\ UNCHANGED <<mem, nonce, sent>>

SaveRenames(r) ==
  /\ pc[r] = "saveRename"
  /\ RenameTemp(r)
  /\ fd' = [AfterRename(r) EXCEPT ![r] = NoFile]
  /\ Goto(r, "off")
  /\ mem' = [mem EXCEPT ![r] = FreshKey]
  /\ nonce' = [nonce EXCEPT ![r] = 0]
  /\ UNCHANGED sent

\* A slip: a failed save does not stop the submission.
HookFailsQuietly(r) ==
  /\ pc[r] \in {"hookOpen", "hookWrite", "hookRename"}
  /\ fd' = [fd EXCEPT ![r] = NoFile]
  /\ Goto(r, "submit")
  /\ UNCHANGED <<path, temp, mem, nonce, sent>>

\* An I/O error in the hook: nothing is sent, the command still saves.
HookFails(r) ==
  /\ pc[r] \in {"hookOpen", "hookWrite", "hookRename"}
  /\ fd' = [fd EXCEPT ![r] = NoFile]
  /\ Goto(r, "saveOpen")
  /\ UNCHANGED <<path, temp, mem, nonce, sent>>

\* The request leaves; from here on the transaction may be on the chain.
Submit(r) ==
  /\ pc[r] = "submit"
  /\ sent' = [sent EXCEPT ![nonce[r]] = IF @ = 2 THEN 2 ELSE @ + 1]
  /\ Goto(r, "answer")
  /\ UNCHANGED <<mem, nonce, files>>

\* Accepted, rejected, or no readable answer.
Answered(r) ==
  /\ pc[r] = "answer"
  /\ \E accepted \in BOOLEAN : mem' = [mem EXCEPT ![r] = Outcome(@, nonce[r], accepted)]
  /\ Goto(r, "saveOpen")
  /\ UNCHANGED <<nonce, files, sent>>

\* The process is killed, or the last save fails and the command ends.
Dies(r) ==
  /\ pc[r] # "off"
  /\ Ends(r)
  /\ UNCHANGED <<path, temp, sent>>

Next == \E r \in Runs :
  \/ Load(r)
  \/ \E reported \in Nonces : SignAt(r, reported)
  \/ CallFails(r)
  \/ OpenTemp(r)
  \/ WriteTemp(r)
  \/ HookRenames(r)
  \/ SaveRenames(r)
  \/ HookFails(r)
  \/ Submit(r)
  \/ Answered(r)
  \/ Dies(r)

Spec == Init /\ [][Next]_vars

-----------------------------------------------------------------------------
\* What a reader of session.json is told is signed.
OnFile(n) == path.kind = "session" /\ Closed(path.saved, n)

\* "a later run never signs a second transaction at a nonce already used"
\* (print_usage): no two transactions are submitted at one nonce.
SubmittedOnce == \A n \in Nonces : sent[n] <= 1

\* Write ahead: a transaction leaves only when session.json already closes
\* its nonce, and the file never loses it again, whatever dies or fails.
SentIsOnFile == \A n \in Nonces : sent[n] > 0 => OnFile(n)

\* session.json is never seen half written, and a nonce it closes stays so.
FileNeverForgets ==
  [][ /\ path # Torn => path' # Torn
      /\ \A n \in Nonces : OnFile(n) => OnFile(n)' ]_vars
=============================================================================
