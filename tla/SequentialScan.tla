--------------------------- MODULE SequentialScan --------------------------
(***************************************************************************)
(* The scan as if nothing ran concurrently: the providers are asked one    *)
(* after the other, in the order of the report; each gives one of its      *)
(* answers, or breaks down and is recorded as failed; then the report is   *)
(* drawn up.  A breakdown never costs the answers of the others.           *)
(***************************************************************************)
EXTENDS Integers, Sequences

CONSTANTS
  Order,      \* the providers, in the order of the report
  Answers,    \* provider |-> the answers it can give
  Failure     \* provider |-> what is recorded when it breaks down

VARIABLES
  answered,   \* the answers so far
  stage       \* "asking", "reported", "lost"

Init == answered = <<>> /\ stage = "asking"

Ask ==
  /\ stage = "asking" /\ Len(answered) < Len(Order)
  /\ LET p == Order[Len(answered) + 1]
     IN  \E a \in Answers[p] \cup {Failure[p]} : answered' = Append(answered, a)
  /\ UNCHANGED stage

(* The report is drawn up from all the answers, or the scan is lost.       *)
Finish ==
  /\ stage = "asking" /\ Len(answered) = Len(Order)
  /\ stage' \in {"reported", "lost"}
  /\ UNCHANGED answered

Next == Ask \/ Finish

Spec == Init /\ [][Next]_<<answered, stage>>
=============================================================================
