----------------------- MODULE MCIntegrationTimes -----------------------
(* Jobs for IntegrationTimes.  A second has four ticks. *)
EXTENDS IntegrationTimes

\* Jobs of two scans, the second after a gap, in one configuration.  The first
\* scan may have begun before the job, and the job may start in mid-second.
JobsOf(subints, integrations) ==
  {[second |-> 4, numscans |-> 3,
    start |-> [n \in 0 .. 2 |-> CASE n = 0 -> -4 * b [] n = 1 -> 4 * (d - b)
                                  [] OTHER -> 4 * (d - b + 1)],
    duration |-> [n \in 0 .. 2 |-> CASE n = 0 -> 4 * d [] n = 1 -> 4
                                     [] OTHER -> 4 * e],
    config |-> [n \in 0 .. 2 |-> IF n = 1 THEN -1 ELSE 0],
    inttime |-> [c \in {0} |-> i], subint |-> [c \in {0} |-> s],
    startns |-> f, seconds |-> 4 * (d - b + 1 + e)] :
      s \in subints, i \in integrations, d \in 2 .. 4, e \in 1 .. 3,
      b \in 0 .. 1, f \in {0, 2}}

\* Integrations of whole subints.
WholeJobs == {j \in JobsOf({2, 4, 6}, 2 .. 12) : j.inttime[0] % j.subint[0] = 0}

\* A nine-second scan in integrations of seven quarters of a second, each of
\* one and three quarter subints.
FractionalJob ==
  {[second |-> 4, numscans |-> 1, start |-> [n \in {0} |-> 0],
    duration |-> [n \in {0} |-> 36], config |-> [n \in {0} |-> 0],
    inttime |-> [c \in {0} |-> 7], subint |-> [c \in {0} |-> 4],
    startns |-> 0, seconds |-> 36]}

\* Two scans of four seconds; the integrations of the second are twice as long.
TwoConfigJob ==
  {[second |-> 4, numscans |-> 2, start |-> [n \in 0 .. 1 |-> 16 * n],
    duration |-> [n \in 0 .. 1 |-> 16], config |-> [n \in 0 .. 1 |-> n],
    inttime |-> [c \in 0 .. 1 |-> 4 + 4 * c], subint |-> [c \in 0 .. 1 |-> 2],
    startns |-> 0, seconds |-> 32]}

\* Either of them counts an integration as complete too early.
EarlyJobs == FractionalJob \cup TwoConfigJob
=============================================================================
