--------------------------- MODULE DurableSigning ---------------------------
(* ClientSigning with the caller's file: the signed hook of every thread     *)
(* writes the session text it is handed to one file, and a new process       *)
(* restores that file before its first call.  submit_held (src/src/lib.rs)   *)
(* takes the text under the session lock and calls the hook outside it, so   *)
(* another thread may mark, save and send in between.                        *)
EXTENDS ClientSigning

VARIABLES text,         \* text[t]: the session handed to the hook of t
          file,         \* what the last hook wrote
          sent          \* history: transactions sent at a nonce, up to 2

durable == <<text, file, sent>>
Blank   == [k \in Keys |-> Exported(FreshKey)]

DurableInit ==
  /\ Init
  /\ text = [t \in Threads |-> Blank]
  /\ file = Blank
  /\ sent = [k \in Keys |-> [n \in Nonces |-> 0]]

\* hook(&self.save_session()): the text is made in one critical section ...
TakeText(t) ==
  /\ pc[t] = "hook"
  /\ text[t] = Blank
  /\ text' = [text EXCEPT ![t] = [k \in Keys |-> Exported(session[k])]]
  /\ UNCHANGED <<vars, file, sent>>

\* ... and the hook writes it whenever it gets to run.
WriteText(t) ==
  /\ text[t] # Blank
  /\ HookSaves(t)
  /\ file' = text[t]
  /\ text' = [text EXCEPT ![t] = Blank]
  /\ UNCHANGED <<saved, sent>>

\* A hook that fails, before or after it wrote: nothing is sent.
FailToWrite(t) ==
  /\ text[t] # Blank
  /\ HookFails(t)
  /\ file' \in {file, text[t]}
  /\ text' = [text EXCEPT ![t] = Blank]
  /\ UNCHANGED <<saved, sent>>

\* The request goes out and is answered or not; nothing but the history tells
\* when in between the transaction was sent.
Send(t) ==
  /\ NoAnswer(t) \/ \E accepted \in BOOLEAN : Answer(t, accepted)
  /\ sent' = [k \in Keys |->
                IF Holds(t, k)
                THEN [sent[k] EXCEPT ![slots[t][k]] = IF @ = 2 THEN 2 ELSE @ + 1]
                ELSE sent[k]]
  /\ UNCHANGED <<saved, text, file>>

OtherStep(t) ==
  /\ pc[t] \notin {"hook", "submit"}
  /\ Begin(t) \/ Step(t)
  /\ UNCHANGED <<saved, durable>>

\* The process dies, and the next one restores the file.
Restart ==
  /\ session' = [k \in Keys |-> Imported(FreshKey, file[k])]
  /\ pc' = [t \in Threads |-> "idle"]
  /\ slots' = [t \in Threads |-> [k \in Keys |-> NoSlot]]
  /\ text' = [t \in Threads |-> Blank]
  /\ UNCHANGED <<payer, history, saved, file, sent>>

DurableNext ==
  \/ \E t \in Threads :
       TakeText(t) \/ WriteText(t) \/ FailToWrite(t) \/ Send(t) \/ OtherStep(t)
  \/ Restart

DurableSpec == DurableInit /\ [][DurableNext]_<<vars, durable>>

\* README.md: with the session saved and restored, "two clients or two runs
\* never sign two transactions at one nonce".  Only what was sent counts: a
\* signature whose hook never ran dies with its process.
SentOnce ==
  \A k \in Keys, n \in Nonces : sent[k][n] <= 1 \/ n \in named[k]
=============================================================================
