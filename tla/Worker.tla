------------------------------- MODULE Worker -------------------------------
(***************************************************************************)
(* What the manager may rely on in a Core (core.cpp), and all it sees of   *)
(* it: a queue of subints.  The Core keeps those it has until it has as    *)
(* many as it takes, or the job is over; then it answers the oldest, with  *)
(* the share of every thread and of nothing else.                          *)
(***************************************************************************)
EXTENDS Integers, Sequences

CONSTANTS
  Capacity,             \* subints a Core takes before it answers one
  Shares,               \* what the answer to a subint is made of
  Bound                 \* bound on the subints of a job

VARIABLES
  handed,               \* subints given to the Core
  ended,                \* the job is over
  answers               \* one for each subint that was answered

vars == <<handed, ended, answers>>

InHand == handed - Len(answers)

Init == handed = 0 /\ ended = FALSE /\ answers = <<>>

Hand ==
  /\ ~ended /\ InHand < Capacity /\ handed < Bound
  /\ handed' = handed + 1
  /\ UNCHANGED <<ended, answers>>

End ==
  /\ ~ended
  /\ ended' = TRUE
  /\ UNCHANGED <<handed, answers>>

Answer ==
  /\ InHand > 0 /\ (InHand = Capacity \/ ended)
  /\ answers' = Append(answers, [i \in Shares |-> <<Len(answers)>>])
  /\ UNCHANGED <<handed, ended>>

Next == Hand \/ End \/ Answer

Spec == Init /\ [][Next]_vars
=============================================================================
