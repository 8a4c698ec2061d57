------------------------------ MODULE MCFanOut ------------------------------
(* Small instances of FanOut: two repos and channels of the least capacity   *)
(* FanOutAssumption allows, one slot per source.                             *)
EXTENDS FanOut, TLC

CONSTANTS r1, r2, ci, dev

\* handle may fail to return for r2: a Fix can hold its worker forever.
LiveSpec == Safety /\ Fairness({r1})

\* Nothing waits for the repo whose handle does not return: the signals of the other
\* settle (see SignalsSettle), and its worker stops at shutdown (see ShutdownDrains).
NobodyWaits == SignalsSettle({r1}) /\ ShutdownDrains({r1})
=============================================================================
