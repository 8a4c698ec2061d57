------------------------------- MODULE Reverify -------------------------------
(***************************************************************************)
(* What follows a Fix in direct mode with agent.fix_reverify: the gate     *)
(* that was red is asked again.  A Fix whose push the daemon did is judged *)
(* by the workflow runs of the pushed commit (reverifyBySHA), any other    *)
(* one by the gate itself, which for CI reads the branch's latest run.     *)
(* GitHub starts the runs of a commit in its own time, one workflow after  *)
(* the other, and other people push too.  A tick is the least interval     *)
(* between polls; a call to GitHub takes no time.                          *)
(***************************************************************************)
EXTENDS Integers, Sequences, Functions

CONSTANTS
  RunsOfPush, \* the workflows that run on the pushed commit
  RunTimeout, \* agent.timeout
  NoRunAfter, \* three minutes
  Interval,   \* agent.fix_reverify_interval
  Attempts,   \* agent.fix_reverify_attempts
  Conclusions, \* the conclusions of a run: a subset of Concluded
  NoVerdict

VARIABLES
  elapsed,  \* the time since reverifyGate began
  source,   \* the source of the signal that is fixed
  pushedSHA, \* its evidence holds a pushed_sha
  runs,     \* the runs on the branch, the newest first
  standing, \* standing[r]: how run r stands
  smoke,    \* how the probe of the dev gate stands
  vpc,      \* where reverifyGate is
  due,      \* when it polls next
  polls,    \* how often the gate was asked
  last,     \* the set of runs listed last; the run the gate's last answer is of
  verdict,  \* what reverifyGate has returned
  evidence  \* the run in the evidence it returns: where a retry reads its logs

outside == <<runs, standing, smoke>>
asked == <<source, pushedSHA>>
reverifyVars == <<elapsed, asked, outside, vpc, due, polls, last, verdict, evidence>>

Red == "the run that was red"
Other == "a run of someone else's push"
Runs == RunsOfPush \cup {Red, Other}
Concluded == {"success", "neutral", "failure", "cancelled"}
Verdicts == {"green", "red", "no run", "late", "still", "skipped", "no gate", "stopped"}

\* A wait takes time, the gate is polled at least once, and no answer is told from one.
ASSUME ReverifyAssumption ==
  /\ RunTimeout \in Nat /\ NoRunAfter \in Nat /\ Interval \in Nat /\ Attempts \in Nat \ {0}
  /\ Conclusions \subseteq Concluded /\ "failure" \in Conclusions
  /\ NoVerdict \notin Verdicts \cup Runs

ReverifyTypeOK ==
  /\ elapsed \in Nat
  /\ source \in {"ci", "dev-gate", "prod-health"} /\ pushedSHA \in BOOLEAN
  /\ runs \in Seq(Runs) /\ runs # <<>> /\ IsInjective(runs)
  /\ standing \in [Runs -> Conclusions \cup {"running"}]
  /\ smoke \in {"pass", "fail", "no gate"}
  /\ vpc \in {"idle", "poll", "wait", "done"}
  /\ due \in 0 .. elapsed + Interval /\ polls \in 0 .. Attempts
  /\ last \subseteq Range(runs)
  /\ verdict \in Verdicts \cup {NoVerdict}
  /\ evidence \in Runs \cup {NoVerdict}

ReverifyInit ==
  /\ elapsed = 0
  /\ source \in {"ci", "dev-gate", "prod-health"} /\ pushedSHA \in BOOLEAN
  /\ runs = <<Red>>
  /\ standing = [r \in Runs |-> IF r = Red THEN "failure" ELSE "running"]
  /\ smoke \in {"fail", "no gate"}
  /\ vpc = "idle" /\ due = 0 /\ polls = 0
  /\ last = {} /\ verdict = NoVerdict /\ evidence = NoVerdict

-----------------------------------------------------------------------------
(* GitHub and the cluster *)

\* A run of the pushed commit starts, or of another push.
Appear(r) ==
  /\ r \notin Range(runs)
  /\ source = "ci" /\ (r \in RunsOfPush => pushedSHA)
  /\ runs' = <<r>> \o runs
  /\ UNCHANGED <<elapsed, asked, standing, smoke, vpc, due, polls, last, verdict, evidence>>

RunEnds(r, c) ==
  /\ r \in Range(runs) /\ standing[r] = "running"
  /\ standing' = [standing EXCEPT ![r] = c]
  /\ UNCHANGED <<elapsed, asked, runs, smoke, vpc, due, polls, last, verdict, evidence>>

Probe ==
  /\ source = "dev-gate" /\ smoke # "no gate"
  /\ smoke' = IF smoke = "pass" THEN "fail" ELSE "pass"
  /\ UNCHANGED <<elapsed, asked, runs, standing, vpc, due, polls, last, verdict, evidence>>

TickPoll ==
  /\ vpc = "wait" /\ elapsed < due
  /\ elapsed' = elapsed + 1
  /\ UNCHANGED <<asked, outside, vpc, due, polls, last, verdict, evidence>>

-----------------------------------------------------------------------------
(* reverifyGate *)

Return(v, r) == vpc' = "done" /\ verdict' = v /\ evidence' = r

\* The newest of some runs, which is the first one in a list of them
Newest(rs) ==
  runs[CHOOSE i \in DOMAIN runs : runs[i] \in rs /\ \A j \in 1 .. i - 1 : runs[j] \notin rs]

\* The run_url of the evidence, if there is one
RunURL(rs) == IF rs = {} THEN NoVerdict ELSE Newest(rs)

Sleep == vpc' = "wait" /\ due' = elapsed + Interval /\ UNCHANGED <<verdict, evidence>>

\* Mutant of BySHA: the branch's latest run is asked for, whatever was pushed.
BySHABranch == FALSE

BySHA == source = "ci" /\ pushedSHA

Begin ==
  /\ vpc = "idle"
  /\ IF source = "prod-health" THEN Return("skipped", NoVerdict)
     ELSE IF source = "dev-gate" /\ smoke = "no gate" THEN Return("no gate", NoVerdict)
     ELSE vpc' = "poll" /\ UNCHANGED <<verdict, evidence>>
  /\ UNCHANGED <<elapsed, asked, outside, due, polls, last>>

Wake ==
  /\ vpc = "wait" /\ elapsed = due
  /\ vpc' = "poll"
  /\ UNCHANGED <<elapsed, asked, outside, due, polls, last, verdict, evidence>>

\* The Fix's context is over: the daemon stops, or an operator cancels the Fix.
Cancel ==
  /\ vpc = "wait"
  /\ Return("stopped", IF BySHA THEN NoVerdict ELSE RunURL(last))
  /\ UNCHANGED <<elapsed, asked, outside, due, polls, last>>

\* RunsForSHA
RunsForSHA == Range(runs) \cap RunsOfPush

\* allCompleted
AllCompleted(rs) == \A r \in rs : standing[r] # "running"

\* failedRuns: a cancelled run has failed.
FailedRuns(rs) == {r \in rs : standing[r] \notin {"success", "neutral"}}

\* The end of the time is looked at after each list, read or not.
OutOfTime == elapsed > RunTimeout

LateOrSleep == IF OutOfTime THEN Return("late", NoVerdict) /\ UNCHANGED due ELSE Sleep

\* A poll of reverifyBySHA that GitHub answers
Judge ==
  LET rs == RunsForSHA
      failed == FailedRuns(rs)
  IN  /\ vpc = "poll" /\ BySHA
      /\ last' = rs
      /\ IF rs # {} /\ AllCompleted(rs)
         THEN /\ Return(IF failed = {} THEN "green" ELSE "red", RunURL(failed))
              /\ UNCHANGED due
         ELSE IF rs = {} /\ elapsed > NoRunAfter
         THEN Return("no run", NoVerdict) /\ UNCHANGED due
         ELSE LateOrSleep
      /\ UNCHANGED <<elapsed, asked, outside, polls>>

\* ... and one it does not answer
Unlisted ==
  /\ vpc = "poll" /\ BySHA
  /\ LateOrSleep
  /\ UNCHANGED <<elapsed, asked, outside, polls, last>>

\* GetStatus: the latest run of the branch, a running one too
Latest == runs[1]

\* Check of the gate: a run without a conclusion is no pass.
GatePasses == IF source = "ci" THEN standing[Latest] = "success" ELSE smoke = "pass"

\* A poll of the gate; answered: it could be read.
Check(answered) ==
  /\ vpc = "poll" /\ ~BySHA
  /\ polls' = polls + 1
  /\ last' = IF answered /\ source = "ci" THEN {Latest} ELSE last
  /\ IF answered /\ GatePasses THEN Return("green", NoVerdict) /\ UNCHANGED due
     ELSE IF polls + 1 = Attempts
     THEN Return("still", RunURL(last')) /\ UNCHANGED due
     ELSE Sleep
  /\ UNCHANGED <<elapsed, asked, outside>>

Anew ==
  /\ vpc' = "idle" /\ elapsed' = 0 /\ due' = 0 /\ polls' = 0
  /\ last' = {} /\ verdict' = NoVerdict /\ evidence' = NoVerdict
  /\ UNCHANGED <<asked, smoke>>

\* The next attempt of the Fix, which has pushed nothing new, and the gate again
Retry ==
  /\ vpc = "done" /\ verdict # "green"
  /\ Anew
  /\ UNCHANGED <<runs, standing>>

\* Another push, of this Fix's next attempt or of another Fix: no run of it yet
Another ==
  /\ vpc = "done"
  /\ Anew
  /\ runs' = <<Red>>
  /\ standing' = [r \in Runs |-> IF r = Red THEN "failure" ELSE "running"]

ReverifyNext ==
  \/ Another
  \/ TickPoll \/ Probe \/ Begin \/ Wake \/ Cancel \/ Judge \/ Unlisted \/ Retry
  \/ \E answered \in BOOLEAN : Check(answered)
  \/ \E r \in Runs : Appear(r) \/ \E c \in Conclusions : RunEnds(r, c)

ReverifySpec == ReverifyInit /\ [][ReverifyNext]_reverifyVars

-----------------------------------------------------------------------------
(* Properties *)

Owned == source = "ci" /\ pushedSHA
Passed(r) == standing[r] \in {"success", "neutral"}

\* A Fix that the daemon has pushed stands or falls with the runs of its own commit:
\* it is green when every one of them that GitHub knew of had passed, red for one of
\* them that had failed when all were over, and given up only after the time it has -
\* never by the red run it was to fix, by someone else's, or while one still runs.  A
\* run that starts only after others of its commit are over may have the last word
\* without being heard.  And every verdict comes in its time.
VerdictIsItsOwn ==
  /\ verdict # NoVerdict /\ Owned =>
       /\ verdict \in {"green", "red"} =>
            last # {} /\ (\A r \in last : r \in RunsOfPush /\ standing[r] # "running")
       /\ verdict = "green" => \A r \in last : Passed(r)
       /\ verdict = "red" => evidence \in last /\ ~Passed(evidence)
       /\ verdict = "no run" => last = {} /\ elapsed > NoRunAfter
       /\ verdict = "late" => elapsed > RunTimeout
       /\ verdict \notin {"still", "skipped", "no gate"}
  /\ vpc # "idle" /\ Owned => elapsed <= RunTimeout + Interval
  /\ vpc # "idle" /\ ~Owned => elapsed <= (Attempts - 1) * Interval
=============================================================================
