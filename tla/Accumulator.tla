---------------------------- MODULE Accumulator ----------------------------
(***************************************************************************)
(* What FxManager promises, without cores, buffers, locks or threads:      *)
(* subints go out, their results are gathered into integrations, and the   *)
(* integrations are written in the order of time, each at most once, each  *)
(* with results of its own subints only.  Results may be given up (the     *)
(* manager ignores stale ones), but what was written is never written      *)
(* again.                                                                  *)
(***************************************************************************)
EXTENDS Integers, Sequences

CONSTANTS
  Subints,        \* the subints of the job
  Integration     \* subint -> number of its integration, in order of time

VARIABLES
  sent,           \* subints that went out
  output          \* the integrations written, as sets of subints

Gathered == UNION {output[i] : i \in 1 .. Len(output)}

Init == sent = {} /\ output = <<>>

Send ==
  /\ \E s \in Subints \ sent : sent' = sent \cup {s}
  /\ UNCHANGED output

\* What went out for integration i and was not written yet.
Waiting(i) == {s \in sent \ Gathered : Integration[s] = i}

Numbers == {Integration[s] : s \in Subints}

\* Writes some of the results of one integration, later than the last.
Output ==
  /\ \E i \in Numbers : \E R \in SUBSET Waiting(i) :
       /\ R # {}
       /\ output # <<>> => \A s \in output[Len(output)] : Integration[s] < i
       /\ output' = Append(output, R)
  /\ UNCHANGED sent

Next == Send \/ Output

Spec == Init /\ [][Next]_<<sent, output>>
=============================================================================
