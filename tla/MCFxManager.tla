---------------------------- MODULE MCFxManager ----------------------------
(* Small jobs for FxManager.  A tick is half a subint of configuration 0. *)
EXTENDS FxManager

\* A scan that began a second before the job, one that is not correlated and
\* one whose last integration is cut short.
ThreeStarts == [s \in 0 .. 2 |-> CASE s = 0 -> -2 [] s = 1 -> 4 [] OTHER -> 6]
ThreeDurations == [s \in 0 .. 2 |-> CASE s = 0 -> 6 [] s = 1 -> 2 [] OTHER -> 10]
\* The same with more to send before the last scan, so that an interrupt can
\* come in either.
LongStarts == [s \in 0 .. 2 |-> CASE s = 0 -> -2 [] s = 1 -> 12 [] OTHER -> 14]
LongDurations == [s \in 0 .. 2 |-> IF s = 1 THEN 2 ELSE 14]
ThreeConfigs == [s \in 0 .. 2 |-> IF s = 1 THEN -1 ELSE 0]

\* Two scans of four seconds, each with a configuration of its own: in the
\* second one, integrations are half as long.
TwoStarts == [s \in 0 .. 1 |-> 8 * s]
TwoDurations == [s \in 0 .. 1 |-> 8]
TwoConfigs == [s \in 0 .. 1 |-> s]
Halved == [c \in 0 .. 1 |-> IF c = 0 THEN 4 ELSE 2]
BothTwoTicks == [c \in 0 .. 1 |-> 2]

\* Integrations of two subints, or of one.
TwoSubints == [c \in {0} |-> 4]
OneSubint == [c \in {0} |-> 2]
TwoTicks == [c \in {0} |-> 2]
=============================================================================
