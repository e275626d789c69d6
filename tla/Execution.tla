------------------------------ MODULE Execution ------------------------------
(***************************************************************************)
(* One run of a game under the lab's wall-clock limit, and the verdict     *)
(* drawn from its log (intermed-lab execution.rs, observation.rs, run.rs;  *)
(* the bounded read of intermed-doctor-core bounded_text.rs).              *)
(*                                                                         *)
(* The child writes lines, starts processes in its group, exits or hangs;  *)
(* the executor polls, kills at the deadline and reads the tail of the     *)
(* log, to which processes that outlive the child still write.             *)
(***************************************************************************)
EXTENDS Integers, Sequences, FiniteSets, FiniteSetsExt

CONSTANTS
  Lines,      \* [ready, lag, failure, cat]; failure is "none", "terminal",
              \* "background" or "candidate" (an error of no known terminality)
  MaxLines,   \* bound: lines that are written
  LogLimit    \* max_log_bytes, in lines

\* A limit of one line would leave nothing once the first is dropped.
ASSUME LimitAssumption == LogLimit \in Nat /\ LogLimit >= 2

VARIABLES
  phase,    \* the executor
  refused,  \* the plan's sandbox policy is Required, or it has no command
  child,    \* "none", "running", a zombie "ok" / "bad" / "killed", or "reaped"
  tree,     \* processes that the child started are alive
  log,
  late,     \* the deadline has passed
  status,   \* of the reaped child: [ok, timedOut]
  measured, \* the length of the log when it was opened
  raw,      \* RawSmokeOutput: [ok, timedOut, log, complete]
  atExit,   \* history: the lines there when the child ended
  ended     \* history: how it ended

executionVars == <<phase, refused, child, tree, log, late, status, measured, raw, atExit, ended>>

NoRaw == [ok |-> FALSE, timedOut |-> FALSE, log |-> <<>>, complete |-> FALSE]

ExecutionInit ==
  /\ phase = "launch" /\ refused \in BOOLEAN
  /\ child = "none" /\ tree = FALSE /\ log = <<>> /\ late = FALSE
  /\ status = [ok |-> FALSE, timedOut |-> FALSE] /\ measured = 0 /\ raw = NoRaw
  /\ atExit = <<>> /\ ended = "no"

-----------------------------------------------------------------------------
(* The child and the clock.                                                 *)

ChildEnds(how) ==
  /\ child' = how /\ ended' = how /\ atExit' = log

Write(l) ==
  /\ child = "running" \/ tree
  /\ Len(log) < MaxLines
  /\ log' = Append(log, l)
  /\ UNCHANGED <<phase, refused, child, tree, late, status, measured, raw, atExit, ended>>

Fork ==
  /\ child = "running" /\ ~tree
  /\ tree' = TRUE
  /\ UNCHANGED <<phase, refused, child, log, late, status, measured, raw, atExit, ended>>

Exit(how) ==
  /\ child = "running"
  /\ ChildEnds(how)
  /\ UNCHANGED <<phase, refused, tree, log, late, status, measured, raw>>

DeadlinePasses ==
  /\ child # "none" /\ ~late
  /\ late' = TRUE
  /\ UNCHANGED <<phase, refused, child, tree, log, status, measured, raw, atExit, ended>>

-----------------------------------------------------------------------------
(* The executor.                                                            *)

Launch ==
  /\ phase = "launch"
  /\ \/ ~refused /\ phase' = "poll" /\ child' = "running"
     \/ phase' = "failed" /\ UNCHANGED child   \* refused, or anything fails up to spawn
  /\ UNCHANGED <<refused, tree, log, late, status, measured, raw, atExit, ended>>

\* try_wait finds the child ended.
Reap ==
  /\ phase = "poll"
  /\ child \in {"ok", "bad"}
  /\ status' = [ok |-> child = "ok", timedOut |-> FALSE]
  /\ child'  = "reaped"
  /\ phase'  = "open"
  /\ UNCHANGED <<refused, tree, log, late, measured, raw, atExit, ended>>

\* It runs and the deadline has passed; until then the executor sleeps.
Expire ==
  /\ phase = "poll"
  /\ child = "running" /\ late
  /\ phase' = "kill"
  /\ UNCHANGED <<refused, child, tree, log, late, status, measured, raw, atExit, ended>>

\* Fault: the child is killed without its process group.
KillsLeader ==
  /\ IF child = "running" THEN ChildEnds("killed") ELSE UNCHANGED <<child, ended, atExit>>
  /\ UNCHANGED tree

\* kill_process_tree: the group, and the child if it has not ended meanwhile.
KillsTree ==
  /\ IF child = "running" THEN ChildEnds("killed") ELSE UNCHANGED <<child, ended, atExit>>
  /\ tree' = FALSE

\* Fault: the signal is sent to nobody.
KillNobody ==
  /\ phase = "kill"
  /\ phase' = "wait"
  /\ UNCHANGED <<refused, child, tree, log, late, status, measured, raw, atExit, ended>>

KillGroup ==
  /\ phase = "kill"
  /\ KillsTree
  /\ phase' = "wait"
  /\ UNCHANGED <<refused, log, late, status, measured, raw>>

\* wait, which is for ever if the child does not end.
Wait ==
  /\ phase = "wait"
  /\ child \in {"ok", "bad", "killed"}
  /\ status' = [ok |-> child = "ok", timedOut |-> TRUE]
  /\ child'  = "reaped"
  /\ phase'  = "open"
  /\ UNCHANGED <<refused, tree, log, late, measured, raw, atExit, ended>>

\* try_wait fails: the tree is killed and nobody reaps the child.
PollFails ==
  /\ phase = "poll"
  /\ KillsTree
  /\ phase' = "failed"
  /\ UNCHANGED <<refused, log, late, status, measured, raw>>

Open ==
  /\ phase = "open"
  /\ measured' = Len(log)
  /\ phase' = "read"
  /\ UNCHANGED <<refused, child, tree, log, late, status, raw, atExit, ended>>

\* Fault: the beginning of the log is read instead of its end.
HeadRead(length) == SubSeq(log, 1, IF length < LogLimit THEN length ELSE LogLimit)

\* read_text_tail: up to the limit; when the log was longer, from its end and
\* without the first line, which may be a fragment.
TailRead(length) ==
  IF length > LogLimit THEN SubSeq(log, length - LogLimit + 2, length)
  ELSE SubSeq(log, 1, IF Len(log) < LogLimit THEN Len(log) ELSE LogLimit)

Read ==
  /\ phase = "read"
  /\ raw' = [ok |-> status.ok, timedOut |-> status.timedOut, log |-> TailRead(measured),
             complete |-> measured <= LogLimit]
  /\ phase' = "done"
  /\ UNCHANGED <<refused, child, tree, log, late, status, measured, atExit, ended>>

ReadFails ==
  /\ phase \in {"open", "read"}
  /\ phase' = "failed"
  /\ UNCHANGED <<refused, child, tree, log, late, status, measured, raw, atExit, ended>>

Executor == Launch \/ Reap \/ Expire \/ KillGroup \/ Wait \/ PollFails \/ Open \/ Read \/ ReadFails

ExecutionNext ==
  \/ \E l \in Lines : Write(l)
  \/ Fork
  \/ \E how \in {"ok", "bad"} : Exit(how)
  \/ DeadlinePasses
  \/ Executor

\* The executor is scheduled and the clock runs; the child owes nothing.
Fairness == WF_executionVars(Executor) /\ WF_executionVars(DeadlinePasses)

ExecutionSpec == ExecutionInit /\ [][ExecutionNext]_executionVars /\ Fairness

-----------------------------------------------------------------------------
(* observe_smoke.  Categories are numbered in their order of declaration;   *)
(* 0 is none.                                                               *)

OutOfMemory == 8
StackOverflow == 9
PerformanceRegression == 10
JvmCrash == 11
Unknown == 12
Crashing == {OutOfMemory, StackOverflow, JvmCrash}

Ready(r) == \E i \in DOMAIN r.log : r.log[i].ready
Degraded(r) == Ready(r) /\ \E i \in DOMAIN r.log : r.log[i].lag

Failing(r, kinds) == {i \in DOMAIN r.log : r.log[i].failure \in kinds}

\* A bad exit corroborates the last error, when no event is terminal by itself.
Corroborated(r) ==
  IF Failing(r, {"terminal"}) = {} /\ ~r.ok /\ ~r.timedOut /\ Failing(r, {"candidate"}) # {}
  THEN {Max(Failing(r, {"candidate"}))} ELSE {}

Incidents(r) == Failing(r, {"terminal"}) \union Corroborated(r)

Categories(r) == {r.log[i].cat : i \in Incidents(r)} \ {0}
FailureCategories(r) ==
  Categories(r) \union (IF Degraded(r) THEN {PerformanceRegression} ELSE {})

\* Fault: a clean exit decides before the incidents do.
ObservedExitFirst(r) ==
  IF r.timedOut THEN IF Ready(r) THEN "timed-out-after-readiness" ELSE "timed-out-before-readiness"
  ELSE IF r.ok /\ Ready(r) THEN IF Degraded(r) THEN "degraded" ELSE "passed"
  ELSE IF Incidents(r) # {}
       THEN IF Categories(r) \intersect Crashing # {} THEN "crashed" ELSE "failed"
  ELSE IF r.ok THEN "inconclusive" ELSE "failed"

\* ObservationStatus.
Observed(r) ==
  IF r.timedOut THEN IF Ready(r) THEN "timed-out-after-readiness" ELSE "timed-out-before-readiness"
  ELSE IF Incidents(r) # {}
       THEN IF Categories(r) \intersect Crashing # {} THEN "crashed" ELSE "failed"
  ELSE IF r.ok THEN IF ~Ready(r) THEN "inconclusive" ELSE IF Degraded(r) THEN "degraded" ELSE "passed"
  ELSE "failed"

\* classify_with_options: the first category of a failure decides.
Dominant(r) == IF FailureCategories(r) = {} THEN Unknown ELSE Min(FailureCategories(r))

Verdict(r) ==
  CASE Observed(r) \in {"timed-out-after-readiness", "timed-out-before-readiness"} -> "timeout"
    [] Observed(r) = "passed" -> "pass"
    [] Observed(r) \in {"degraded", "inconclusive"} -> Observed(r)
    [] OTHER -> IF Dominant(r) \in Crashing THEN "crash" ELSE "fail"

-----------------------------------------------------------------------------
(* Properties.                                                              *)

\* A pass or a degraded run is a child that ended by itself with success, before
\* the executor's signal, and whose log says that it got ready; and when the
\* log counts as complete, nothing terminal had been written by its end,
\* whatever its descendants wrote between the measuring and the reading.
TerminalBy(lines) == \E i \in DOMAIN lines : lines[i].failure = "terminal"

VerdictEarned ==
  phase = "done" /\ Verdict(raw) \in {"pass", "degraded"} =>
    /\ ended = "ok" /\ ~status.timedOut
    /\ \E i \in DOMAIN log : log[i].ready
    /\ raw.complete => ~TerminalBy(atExit)

\* What the end of a long log says is not lost: the last lines before the end of
\* the child are read, unless a descendant wrote more.
LastWordsRead ==
  phase = "done" /\ log = atExit /\ Len(log) > 1 => raw.log[Len(raw.log)] = log[Len(log)]

\* execution.rs kill_process_tree: "targets every descendant that stayed in that
\* group": after a timeout nothing of the run is left to write or to hold a port,
\* and the child is reaped, even when it ended between the poll and the signal.
TimedOutTreeDead ==
  status.timedOut => ~tree /\ child = "reaped" /\ late

\* execute returns: a child that hangs is killed at its deadline.
ExecutionReturns == <>(phase \in {"done", "failed"})
=============================================================================
