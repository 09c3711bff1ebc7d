------------------------------- MODULE Asking -------------------------------
(* The readers and writers of src/src keep no state: one of them is asked    *)
(* about one input, and answers.                                             *)
VARIABLES asked,    \* the codec and its input
          answer    \* what it returned

exchange == <<asked, answer>>

NothingAsked == asked = [codec |-> "none"] /\ answer = [ok |-> FALSE]

Unasked == asked.codec = "none"

\* A question to a codec that is none of these.
AnotherIsAsked(codecs) == Unasked /\ asked'.codec \notin codecs
=============================================================================
