------------------------------- MODULE AgentRun -------------------------------
(***************************************************************************)
(* One run of a coding agent's CLI: SubprocessRunner.Run, its stall        *)
(* watchdog, and the process group they are about.  Run starts the CLI,    *)
(* waits for it and for its pipes, stops the watchdog and answers; the     *)
(* context and the watchdog may kill the group at any moment, the run's    *)
(* end included.  What is printed goes through a pipe into a tailWriter;   *)
(* of the two streams, which have one each, one is modelled.  The runs of  *)
(* different Fixes share nothing.  A byte is its number; timers may        *)
(* expire at any time after they were started.                             *)
(***************************************************************************)
EXTENDS Integers, Sequences

CONSTANTS
  Limit,    \* outputTailLimit
  PipeCap,  \* bytes a pipe holds, which are the most that one read returns
  MaxBytes  \* bound of the model: bytes ever printed

ASSUME AgentRunAssumption ==
  /\ {Limit, PipeCap} \subseteq Nat \ {0}
  /\ MaxBytes \in Nat

VARIABLES
  pc,      \* where Run is
  proc,    \* the CLI: it runs, or how it ended
  child,   \* a descendant that holds the pipe: none, one of the group, or not
  printed, \* bytes printed so far ...
  copied,  \* ... and those the tailWriter has been given
  stdout,  \* the tailWriter
  quiet,   \* has StallTimeout passed since activity.touch?
  dog,     \* where the watchdog is
  stalled, \* its flag
  expired, \* has the context killed the group, before Wait saw it end?
  delay,   \* WaitDelay: running, passed, or off
  answer   \* what Run has returned

process == <<proc, child, printed>>
output == <<copied, stdout>>
watchdog == <<quiet, dog, stalled>>
waiting == <<expired, delay>>
vars == <<pc, process, output, watchdog, waiting, answer>>

Byte == 1 .. MaxBytes
NoBytes == [buf |-> <<>>, head |-> 0, wrapped |-> FALSE]

TypeOK ==
  /\ pc \in {"start", "wait", "drain", "stop", "answer", "returned"}
  /\ proc \in {"none", "runs", "ok", "error"}
  /\ child \in {"none", "group", "outside"}
  /\ printed \in 0 .. MaxBytes /\ copied \in 0 .. printed
  /\ printed - copied <= PipeCap
  /\ stdout \in [buf : Seq(Byte), head : 0 .. Limit - 1, wrapped : BOOLEAN]
  /\ Len(stdout.buf) <= Limit
  /\ {quiet, stalled, expired} \subseteq BOOLEAN
  /\ dog \in {"gone", "watch", "mark", "kill"}
  /\ delay \in {"off", "runs", "passed"}
  /\ answer \in {"none", "ok", "stalled", "error"}

Init ==
  /\ pc = "start" /\ proc = "none" /\ child = "none" /\ printed = 0
  /\ copied = 0 /\ stdout = NoBytes
  /\ quiet = FALSE /\ dog = "gone" /\ stalled = FALSE
  /\ expired = FALSE /\ delay = "off" /\ answer = "none"

-----------------------------------------------------------------------------
(* The tailWriter *)

LastOf(s, n) == SubSeq(s, Len(s) - n + 1, Len(s))

\* A ring with p written into it at h: round the end, less than once over
Over(ring, h, p) ==
  [i \in 1 .. Limit |-> LET k == (i - 1 - h) % Limit IN
                          IF k < Len(p) THEN p[k + 1] ELSE ring[i]]

\* Mutant of RingWrite: one that is larger than the tail leaves the head alone.
RingWriteKeepsHead(w, p) ==
  IF Len(p) >= Limit
  THEN [w EXCEPT !.buf = LastOf(p, Limit)]
  ELSE [w EXCEPT !.buf = Over(@, w.head, p), !.head = (@ + Len(p)) % Limit]

RingWrite(w, p) ==
  IF Len(p) >= Limit
  THEN [w EXCEPT !.buf = LastOf(p, Limit), !.head = 0]
  ELSE [w EXCEPT !.buf = Over(@, w.head, p), !.head = (@ + Len(p)) % Limit]

\* Mutant of TailWrite: the tail is filled by one byte too many.
TailWriteLate(w, p) ==
  LET room == Limit - Len(w.buf) IN
    CASE w.wrapped -> RingWrite(w, p)
      [] ~w.wrapped /\ Len(p) <= room + 1 -> [w EXCEPT !.buf = @ \o p]
      [] OTHER ->
           RingWrite([buf |-> w.buf \o SubSeq(p, 1, room), head |-> 0, wrapped |-> TRUE],
                     SubSeq(p, room + 1, Len(p)))

\* tailWriter.Write: fill what is left, then write in a ring.
TailWrite(w, p) ==
  LET room == Limit - Len(w.buf) IN
    CASE w.wrapped -> RingWrite(w, p)
      [] ~w.wrapped /\ Len(p) <= room -> [w EXCEPT !.buf = @ \o p]
      [] OTHER ->
           RingWrite([buf |-> w.buf \o SubSeq(p, 1, room), head |-> 0, wrapped |-> TRUE],
                     SubSeq(p, room + 1, Len(p)))

\* tailWriter.String
Kept(w) ==
  IF w.wrapped THEN SubSeq(w.buf, w.head + 1, Limit) \o SubSeq(w.buf, 1, w.head)
  ELSE w.buf

-----------------------------------------------------------------------------
(* The process group *)

\* The CLI, or a descendant that has outlived it, prints one more byte.
PrintByte ==
  /\ proc = "runs" \/ child # "none"
  /\ printed < MaxBytes /\ printed - copied < PipeCap
  /\ printed' = printed + 1
  /\ UNCHANGED <<pc, proc, child, output, watchdog, waiting, answer>>

\* It starts something that inherits its pipe, in its process group or not ...
Spawn(where) ==
  /\ proc = "runs" /\ child = "none"
  /\ child' = where
  /\ UNCHANGED <<pc, proc, printed, output, watchdog, waiting, answer>>

\* ... which ends.
ChildEnds ==
  /\ child # "none"
  /\ child' = "none"
  /\ UNCHANGED <<pc, proc, printed, output, watchdog, waiting, answer>>

\* The CLI ends, as it does when a descendant outside reads its end.
End(code) ==
  /\ proc = "runs"
  /\ proc' = code
  /\ UNCHANGED <<pc, child, printed, output, watchdog, waiting, answer>>

\* SIGKILL to the group: of the CLI, unless it has ended, and its descendants
KillGroup ==
  /\ proc' = IF proc = "runs" THEN "error" ELSE proc
  /\ child' = IF child = "group" THEN "none" ELSE child

-----------------------------------------------------------------------------
(* Run *)

\* The pipe's goroutine: what it reads it hands to the tail and to activity.
Copy ==
  /\ copied < printed
  /\ pc \in {"wait", "drain"}
  /\ \E n \in 1 .. printed - copied :
       /\ stdout' = TailWrite(stdout, [i \in 1 .. n |-> copied + i])
       /\ copied' = copied + n
  /\ quiet' = FALSE
  /\ UNCHANGED <<pc, process, dog, stalled, waiting, answer>>

\* cmd.Start, with a StallTimeout or without; it fails if the context is over.
Start ==
  /\ pc = "start"
  /\ \/ /\ proc' = "runs"
        /\ pc' = "wait"
        /\ dog' \in {"watch", "gone"}
        /\ UNCHANGED answer
     \/ /\ pc' = "returned"
        /\ answer' = "error"
        /\ UNCHANGED <<proc, dog>>
  /\ UNCHANGED <<child, printed, output, quiet, stalled, waiting>>

\* Timeout, or FixBudget, or the daemon stops: cmd.Cancel kills the group.
Expire ==
  /\ pc = "wait" /\ ~expired
  /\ expired' = TRUE
  /\ KillGroup
  /\ UNCHANGED <<pc, printed, output, watchdog, delay, answer>>

\* cmd.Wait sees that the CLI has ended, and gives its pipe WaitDelay.
Reap ==
  /\ pc = "wait" /\ proc # "runs"
  /\ pc' = "drain"
  /\ delay' = "runs"
  /\ UNCHANGED <<process, output, watchdog, expired, answer>>

DelayPasses ==
  /\ pc = "drain" /\ delay = "runs"
  /\ delay' = "passed"
  /\ UNCHANGED <<pc, process, output, watchdog, expired, answer>>

EndOfFile == proc # "runs" /\ child = "none" /\ copied = printed

\* Mutants of Waited: without WaitDelay; without waiting for the pipe.
WaitedForever == pc = "drain" /\ EndOfFile
WaitedForProcess == pc = "drain"

Waited == pc = "drain" /\ (EndOfFile \/ delay = "passed")

\* cmd.Wait returns; when the pipe ends as WaitDelay does, either may be its reason.
EndWait ==
  /\ Waited
  /\ pc' = "stop"
  /\ \/ EndOfFile /\ delay' = "off"
     \/ UNCHANGED delay
  /\ UNCHANGED <<process, output, watchdog, expired, answer>>

\* stopWatchdog
Stop ==
  /\ pc = "stop"
  /\ pc' = "answer"
  /\ UNCHANGED <<process, output, watchdog, waiting, answer>>

\* The CLI has ended badly, the context was over, or the pipe was still held.
Failed == proc = "error" \/ expired \/ delay = "passed"

Answer ==
  /\ pc = "answer"
  /\ pc' = "returned"
  /\ answer' = IF stalled THEN "stalled" ELSE IF Failed THEN "error" ELSE "ok"
  /\ UNCHANGED <<process, output, watchdog, waiting>>

-----------------------------------------------------------------------------
(* watchStall *)

Stopped == pc \in {"answer", "returned"}

\* StallTimeout passes without a write.
Quieten ==
  /\ pc # "start" /\ ~Stopped /\ ~quiet
  /\ quiet' = TRUE
  /\ UNCHANGED <<pc, process, output, dog, stalled, waiting, answer>>

\* A tick, which a select that finds done closed too may still choose
Look ==
  /\ dog = "watch" /\ quiet
  /\ dog' = "mark"
  /\ UNCHANGED <<pc, process, output, quiet, stalled, waiting, answer>>

Mark ==
  /\ dog = "mark"
  /\ stalled' = TRUE
  /\ dog' = "kill"
  /\ UNCHANGED <<pc, process, output, quiet, waiting, answer>>

Kill ==
  /\ dog = "kill"
  /\ KillGroup
  /\ dog' = "gone"
  /\ UNCHANGED <<pc, printed, output, quiet, stalled, waiting, answer>>

\* done is closed.
Leave ==
  /\ dog = "watch" /\ Stopped
  /\ dog' = "gone"
  /\ UNCHANGED <<pc, process, output, quiet, stalled, waiting, answer>>

-----------------------------------------------------------------------------
Next ==
  \/ PrintByte \/ ChildEnds
  \/ \E where \in {"group", "outside"} : Spawn(where)
  \/ \E code \in {"ok", "error"} : End(code)
  \/ Copy \/ Start \/ Expire \/ Reap \/ DelayPasses \/ EndWait \/ Stop \/ Answer
  \/ Quieten \/ Look \/ Mark \/ Kill \/ Leave

Spec == Init /\ [][Next]_vars

\* Goroutines that can step do, and timers run out: the context's, which Run always
\* bounds, and WaitDelay.  Neither the CLI nor what it spawned need ever end.
Fairness ==
  /\ WF_vars(Start) /\ WF_vars(Expire) /\ WF_vars(DelayPasses)
  /\ WF_vars(Reap) /\ WF_vars(EndWait) /\ WF_vars(Stop) /\ WF_vars(Answer)
  /\ WF_vars(Look \/ Leave) /\ WF_vars(Mark) /\ WF_vars(Kill)

LiveSpec == Spec /\ Fairness

-----------------------------------------------------------------------------
(* Properties *)

\* What is kept is the end of what was printed, whatever sizes it came in: the agent's
\* verdict and cost are its last lines (tailWriter.Write and String).
Size == IF copied < Limit THEN copied ELSE Limit
KeepsTail == Kept(stdout) = [i \in 1 .. Size |-> copied - Size + i]

\* A run that is answered as a success was read to its end: the CLI ended well, nobody
\* killed it while it ran, and no byte that it or a descendant printed is missing,
\* whichever of context, watchdog and WaitDelay was about to act.
SuccessIsWhole ==
  [][answer' = "ok" /\ answer = "none" =>
       proc = "ok" /\ child = "none" /\ copied = printed /\ ~stalled]_vars

\* Whatever the CLI does - it hangs, it prints without end, it leaves somebody with
\* its pipe - Run returns and so does its watchdog (Timeout, WaitDelay, stop).
EveryRunEnds == <>(pc = "returned" /\ dog = "gone")
===============================================================================
