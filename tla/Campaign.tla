------------------------------ MODULE Campaign ------------------------------
(***************************************************************************)
(* The persistent, resumable Compatibility-Lab campaign runner             *)
(* (crates/intermed-lab/src/campaign.rs).                                  *)
(*                                                                         *)
(* One coordinator process owns campaign-state.json.  It marks a batch of  *)
(* cases Running, makes that durable, starts one worker thread per case,   *)
(* and commits the results in the order in which they arrive.  Workers     *)
(* write the artifacts of their case (doctor-report.json,                  *)
(* observation.json, accuracy.json) before they report.  The process may   *)
(* be killed at any step, any write may fail, and a later process resumes  *)
(* from the state file with other retry and parallelism options and        *)
(* possibly a rebuilt analyzer.  Doctor is a child process: it publishes   *)
(* its report itself, and a kill of the coordinator leaves it running, so  *)
(* that it may replace the report of a case much later.                    *)
(***************************************************************************)
EXTENDS Integers, Sequences, FiniteSets

CONSTANTS
  Cases,            \* the campaign's cases, in the order of the plan
  StaticOnly,       \* the cases with neither captured_smoke nor execution
  Options,          \* CampaignOptions a process may be started with
  Analyzers,        \* analyzer builds a process may run
  Expected,         \* Campaign::analyzer_fingerprint (or AnyAnalyzer: "auto")
  AnyAnalyzer,
  NoReport,
  MaxBoots          \* bound: how often the operator starts the process

ASSUME CasesAssumption    == /\ Cases \subseteq Nat /\ IsFiniteSet(Cases)
                             /\ StaticOnly \subseteq Cases
ASSUME OptionsAssumption  == Options \subseteq [maxAttempts : Nat, maxParallel : Nat]
ASSUME AnalyzerAssumption == /\ NoReport \notin Analyzers
                             /\ Expected \in Analyzers \union {AnyAnalyzer}
ASSUME BootsAssumption    == MaxBoots \in Nat

VARIABLES
  stateFile,   \* campaign-state.json: whether it exists, and its case table
  state,       \* the coordinator's in-memory case table
  pc,          \* where the coordinator stands
  opts,        \* the options of this process
  analyzer,    \* the analyzer build of this process
  boots,       \* number of processes started so far
  pending,     \* batch members whose result has not been received
  worker,      \* per case, the step its worker thread is at
  job,         \* per case, what its worker has computed so far
  channel,     \* the mpsc channel from workers to coordinator
  reportFile,  \* per case, the analyzer that wrote doctor-report.json
  obsFile,     \* per case, the run and the status in observation.json
  accFile,     \* per case, the run and the report accuracy.json was computed from
  orphans,     \* the Doctors a killed process has left running
  outlived,    \* history: per case, the analyzers of all Doctors ever left running
  commits      \* history: results made durable, per case

vars == <<stateFile, state, pc, opts, analyzer, boots, pending, worker, job,
          channel, reportFile, obsFile, accFile, orphans, outlived, commits>>

artifacts == <<reportFile, obsFile, accFile>>
doctors   == <<orphans, outlived>>
process   == <<opts, analyzer, boots>>

-----------------------------------------------------------------------------
(* Data.  A run is named by the process that made it and by its attempt.    *)

NoRun == <<0, 0>>
Runs  == Nat \X Nat

\* CampaignCaseStatus.  (Skipped is read for old files and never written.)
Terminal == {"complete", "static-complete", "harness-failure"}
Statuses == Terminal \union {"pending", "running", "infrastructure-failure"}

\* ObservationStatus, as far as the campaign tells its ten values apart: the four
\* conclusive and three partial ones are those eligible for accuracy.
Outcomes == {"eligible", "harness", "infrastructure", "skipped"}
Eligible(o) == o = "eligible"

observation_state(o) ==
  CASE o = "infrastructure" -> "infrastructure-failure"
    [] o = "harness"        -> "harness-failure"
    [] o = "skipped"        -> "static-complete"
    [] OTHER                -> "complete"

\* CampaignCaseState.  The paths of a case never change, so a recorded path is
\* represented by what the file held when the path was recorded.
CaseState == [status      : Statuses,
              attempts    : Nat,
              observation : Runs,
              report      : Analyzers \union {NoReport},
              accuracy    : BOOLEAN]

Fresh == [status |-> "pending", attempts |-> 0, observation |-> NoRun,
          report |-> NoReport, accuracy |-> FALSE]

NoAccuracy == [run |-> NoRun, report |-> NoReport]
NoObs      == [run |-> NoRun, status |-> "skipped"]
NoJob      == [report |-> NoReport, status |-> "skipped"]
NoOptions  == [maxAttempts |-> 0, maxParallel |-> 0]

AtLeastOne(n) == IF n = 0 THEN 1 ELSE n

\* An entry with another status and attempt count.
Entry(c, status, attempts) ==
  [status |-> status, attempts |-> attempts, observation |-> c.observation,
   report |-> c.report, accuracy |-> c.accuracy]

\* Fault: the interrupted attempt is not given back.
RecoveredUnrefunded(c) ==
  IF c.status = "running" THEN Entry(c, "pending", c.attempts) ELSE c

\* What the loading of an interrupted table does to a case: the attempt is
\* given back (saturating_sub).
Recovered(c) ==
  IF c.status = "running"
  THEN Entry(c, "pending", IF c.attempts = 0 THEN 0 ELSE c.attempts - 1)
  ELSE c

\* Fault: an infrastructure failure is not retried.
RetryableOnce(c, o) == /\ c.status = "pending"
                       /\ c.attempts < AtLeastOne(o.maxAttempts)

\* Fault: a harness failure is retried too.
RetryableHarness(c, o) ==
  /\ c.status \in {"pending", "infrastructure-failure", "harness-failure"}
  /\ c.attempts < AtLeastOne(o.maxAttempts)

Retryable(c, o) == /\ c.status \in {"pending", "infrastructure-failure"}
                   /\ c.attempts < AtLeastOne(o.maxAttempts)

\* The first max_parallel retryable cases, in campaign order.
Batch(table, o) ==
  LET ready == {c \in Cases : Retryable(table[c], o)}
  IN  {c \in ready : Cardinality({d \in ready : d < c}) < AtLeastOne(o.maxParallel)}

Marked(c) == Entry(c, "running", c.attempts + 1)

\* The table after a result was taken from the channel.
Settled(c, m) ==
  IF m.status = "error"
  THEN Entry(c, "infrastructure-failure", c.attempts)
  ELSE Entry(m, observation_state(m.status), c.attempts)

-----------------------------------------------------------------------------
(* write_atomic: the rename is the publishing step.  A write fails without  *)
(* effect before it, and with effect when only the directory sync fails.    *)

Writes == {[ok |-> TRUE,  effect |-> TRUE],
           [ok |-> FALSE, effect |-> FALSE],
           [ok |-> FALSE, effect |-> TRUE]}

\* Fault: the table is serialized before it is updated.
PublishStale(w, table) ==
  stateFile' = IF w.effect THEN [exists |-> TRUE, cases |-> state] ELSE stateFile

Publish(w, table) ==
  stateFile' = IF w.effect THEN [exists |-> TRUE, cases |-> table] ELSE stateFile

Idle == [c \in Cases |-> "idle"]

\* The process is gone: it returned, or it was killed.  (What memory held is
\* reset to one value so that it cannot distinguish states.)
Exited ==
  /\ pc'       = "down"
  /\ state'    = [c \in Cases |-> Fresh]
  /\ opts'     = NoOptions
  /\ analyzer' = NoReport
  /\ pending'  = {}
  /\ worker'   = Idle
  /\ job'      = [c \in Cases |-> NoJob]
  /\ channel'  = <<>>

\* The output directory may already hold Doctor reports of any analyzer.
Init ==
  /\ stateFile  = [exists |-> FALSE, cases |-> [c \in Cases |-> Fresh]]
  /\ state      = [c \in Cases |-> Fresh]
  /\ pc         = "down"
  /\ opts       = NoOptions
  /\ analyzer   = NoReport
  /\ boots      = 0
  /\ pending    = {}
  /\ worker     = Idle
  /\ job        = [c \in Cases |-> NoJob]
  /\ channel    = <<>>
  /\ reportFile \in [Cases -> Analyzers \union {NoReport}]
  /\ obsFile    = [c \in Cases |-> NoObs]
  /\ accFile    = [c \in Cases |-> NoAccuracy]
  /\ orphans    = {}
  /\ outlived   = [c \in Cases |-> {}]
  /\ commits    = [c \in Cases |-> 0]

\* The process starts, loads or creates the table and makes it durable.  A
\* plan of another revision, an unreadable file or a table for other cases is
\* refused before anything is written: a stuttering step.
Start(o, a, w) ==
  LET table == IF stateFile.exists
               THEN [c \in Cases |-> Recovered(stateFile.cases[c])]
               ELSE [c \in Cases |-> Fresh]
  IN
  /\ pc = "down" /\ boots < MaxBoots
  /\ boots' = boots + 1
  /\ Publish(w, table)
  /\ IF w.ok
     THEN /\ pc' = "select" /\ state' = table
          /\ opts' = o /\ analyzer' = a
          /\ UNCHANGED <<pending, worker, job, channel>>
     ELSE Exited
  /\ UNCHANGED <<artifacts, doctors, commits>>

\* The head of the loop: choose a batch, mark it Running, write, spawn.
StartBatch(w) ==
  LET batch == Batch(state, opts)
      table == [c \in Cases |-> IF c \in batch THEN Marked(state[c]) ELSE state[c]]
  IN
  /\ pc = "select" /\ batch # {}
  /\ Publish(w, table)
  /\ IF w.ok
     THEN /\ pc' = "collect" /\ state' = table /\ pending' = batch
          /\ worker' = [c \in Cases |-> IF c \in batch THEN "static" ELSE "idle"]
          /\ UNCHANGED <<opts, analyzer, job, channel>>
     ELSE Exited
  /\ UNCHANGED <<boots, artifacts, doctors, commits>>

\* No case is left to try: run_campaign returns the table.
Finish ==
  /\ pc = "select" /\ Batch(state, opts) = {}
  /\ pc' = "finished"
  /\ UNCHANGED <<stateFile, state, process, pending, worker, job, channel,
                 artifacts, doctors, commits>>

-----------------------------------------------------------------------------
(* Worker threads: execute_attempt.                                         *)

\* Fault: any report that parses is accepted.
AcceptsAny(a) == a \in Analyzers

Accepts(a) == Expected = AnyAnalyzer \/ a = Expected

ThisRun(c) == <<boots, state[c].attempts>>

\* Fault: a failed (or panicking) worker ends without a result.
SendOnlySuccess(c, status, accuracy) ==
  /\ worker' = [worker EXCEPT ![c] = "idle"]
  /\ job' = [job EXCEPT ![c] = NoJob]
  /\ channel' = IF pc = "collect" /\ status # "error"
                THEN Append(channel, [case |-> c, status |-> status,
                                      report |-> job[c].report,
                                      observation |-> ThisRun(c),
                                      accuracy |-> accuracy])
                ELSE channel

\* The worker ends with a result.  Once the coordinator has stopped receiving,
\* the send fails and the result is dropped.
Send(c, status, accuracy) ==
  /\ worker' = [worker EXCEPT ![c] = "idle"]
  /\ job' = [job EXCEPT ![c] = NoJob]
  /\ channel' = IF pc = "collect"
                THEN Append(channel, [case |-> c, status |-> status,
                                      report |-> job[c].report,
                                      observation |-> ThisRun(c),
                                      accuracy |-> accuracy])
                ELSE channel

Advance(c, step, update) ==
  /\ worker' = [worker EXCEPT ![c] = step]
  /\ job' = [job EXCEPT ![c] = update]
  /\ UNCHANGED channel

\* prepare_static: reuse the report on disk if its identity is accepted, else
\* start Doctor and wait for its end.  (Lock, target or the start may fail.)
PrepareStatic(c) ==
  LET reusable == reportFile[c] # NoReport /\ Accepts(reportFile[c]) IN
  /\ worker[c] = "static"
  /\ \/ /\ reusable
        /\ Advance(c, "execute", [report |-> reportFile[c], status |-> job[c].status])
     \/ ~reusable /\ Advance(c, "doctor", job[c])
     \/ Send(c, "error", FALSE)
  /\ UNCHANGED <<stateFile, state, pc, process, pending, artifacts, doctors, commits>>

\* The child process renames its report into place.
DoctorWrites(c) ==
  /\ worker[c] = "doctor"
  /\ reportFile' = [reportFile EXCEPT ![c] = analyzer]
  /\ Advance(c, "written", job[c])
  /\ UNCHANGED <<stateFile, state, pc, process, pending, obsFile, accFile,
                 doctors, commits>>

\* Fault: the report of a Doctor just run is taken whatever its analyzer.
VerifyReportBlindly(c) ==
  /\ \/ /\ worker[c] = "written"
        /\ Advance(c, "execute", [report |-> reportFile[c], status |-> job[c].status])
     \/ worker[c] \in {"doctor", "written"} /\ Send(c, "error", FALSE)
  /\ UNCHANGED <<stateFile, state, pc, process, pending, artifacts, doctors, commits>>

\* The child has ended; what is at its path now, perhaps by another Doctor, is
\* read and accepted or refused.  A Doctor that exits with a failure, before or
\* after its rename, is an error.
VerifyReport(c) ==
  /\ \/ /\ worker[c] = "written" /\ Accepts(reportFile[c])
        /\ Advance(c, "execute", [report |-> reportFile[c], status |-> job[c].status])
     \/ worker[c] \in {"doctor", "written"} /\ Send(c, "error", FALSE)
  /\ UNCHANGED <<stateFile, state, pc, process, pending, artifacts, doctors, commits>>

\* execute: no runtime was asked for, or a runtime process ran to an outcome,
\* or the backend (or the worker itself, by a panic) failed.
Execute(c) ==
  /\ worker[c] = "execute"
  /\ \/ \E o \in IF c \in StaticOnly THEN {"skipped"} ELSE Outcomes \ {"skipped"} :
          Advance(c, "observe", [report |-> job[c].report, status |-> o])
     \/ Send(c, "error", FALSE)
  /\ UNCHANGED <<stateFile, state, pc, process, pending, artifacts, doctors, commits>>

\* observation.json is replaced before the coordinator hears of the result.
WriteObservation(c, w) ==
  /\ worker[c] = "observe"
  /\ obsFile' = IF w.effect
                THEN [obsFile EXCEPT ![c] = [run |-> ThisRun(c), status |-> job[c].status]]
                ELSE obsFile
  /\ IF ~w.ok THEN Send(c, "error", FALSE)
     ELSE IF Eligible(job[c].status) THEN Advance(c, "accuracy", job[c])
     ELSE Send(c, job[c].status, FALSE)
  /\ UNCHANGED <<stateFile, state, pc, process, pending, reportFile, accFile,
                 doctors, commits>>

\* evaluate_observation_pair reads both files back and writes accuracy.json.
EvaluateAccuracy(c, w) ==
  /\ worker[c] = "accuracy"
  /\ accFile' = IF w.effect
                THEN [accFile EXCEPT ![c] = [run |-> obsFile[c].run,
                                             report |-> reportFile[c]]]
                ELSE accFile
  /\ IF w.ok THEN Send(c, job[c].status, TRUE) ELSE Send(c, "error", FALSE)
  /\ UNCHANGED <<stateFile, state, pc, process, pending, reportFile, obsFile,
                 doctors, commits>>

-----------------------------------------------------------------------------
(* The coordinator's collecting loop.                                       *)

\* Take one result, settle its case and commit the table.  When the commit
\* fails the receiver is dropped, and the scope waits for the other workers.
Commit(w) ==
  LET m     == Head(channel)
      table == [state EXCEPT ![m.case] = Settled(@, m)]
  IN
  /\ pc = "collect" /\ channel # <<>>
  /\ state' = table
  /\ Publish(w, table)
  /\ commits' = IF w.effect THEN [commits EXCEPT ![m.case] = @ + 1] ELSE commits
  /\ IF w.ok
     THEN /\ pending' = pending \ {m.case}
          /\ channel' = Tail(channel)
          /\ pc' = IF pending' = {} THEN "select" ELSE "collect"
     ELSE /\ pending' = {} /\ channel' = <<>>
          /\ pc' = "failing"
  /\ UNCHANGED <<process, worker, job, artifacts, doctors>>

\* All workers joined: the error is returned and the process exits.
Abandon ==
  /\ pc = "failing" /\ worker = Idle
  /\ Exited
  /\ UNCHANGED <<stateFile, boots, artifacts, doctors, commits>>

\* build_campaign_report: statuses come from the table, runtime_statuses from
\* the observation files the table names.
Counts ==
  [completed |-> Cardinality({c \in Cases : state[c].status = "complete"}),
   observed  |-> Cardinality({c \in Cases : /\ state[c].observation # NoRun
                                            /\ Eligible(obsFile[c].status)})]

\* The process writes the campaign report (or fails to), which no process reads
\* again, and exits.
WriteReport ==
  /\ pc = "finished"
  /\ Exited
  /\ UNCHANGED <<stateFile, boots, artifacts, doctors, commits>>

\* The process is killed, and its worker threads with it, but no Doctor.
Crash ==
  LET left == {c \in Cases : worker[c] = "doctor"} IN
  /\ pc # "down"
  /\ orphans' = orphans \union
                  {[case |-> c, boot |-> boots, by |-> analyzer] : c \in left}
  /\ outlived' = [c \in Cases |-> outlived[c] \union
                                     IF c \in left THEN {analyzer} ELSE {}]
  /\ Exited
  /\ UNCHANGED <<stateFile, boots, artifacts, commits>>

\* A Doctor that was left running replaces the report of its case, or ends
\* without doing so.
OrphanWrites(d) ==
  /\ d \in orphans
  /\ reportFile' = [reportFile EXCEPT ![d.case] = d.by]
  /\ orphans' = orphans \ {d}
  /\ UNCHANGED <<stateFile, state, pc, process, pending, worker, job, channel,
                 obsFile, accFile, outlived, commits>>

OrphanDies(d) ==
  /\ d \in orphans
  /\ orphans' = orphans \ {d}
  /\ UNCHANGED <<stateFile, state, pc, process, pending, worker, job, channel,
                 artifacts, outlived, commits>>

-----------------------------------------------------------------------------

Worker(c) == \/ PrepareStatic(c)
             \/ DoctorWrites(c)
             \/ VerifyReport(c)
             \/ Execute(c)
             \/ \E w \in Writes : WriteObservation(c, w) \/ EvaluateAccuracy(c, w)

Coordinator == \/ \E w \in Writes : StartBatch(w) \/ Commit(w)
               \/ Finish
               \/ Abandon
               \/ WriteReport

Next == \/ \E o \in Options, a \in Analyzers, w \in Writes : Start(o, a, w)
        \/ \E c \in Cases : Worker(c)
        \/ Coordinator
        \/ Crash
        \/ \E d \in orphans : OrphanWrites(d) \/ OrphanDies(d)

Spec == Init /\ [][Next]_vars

\* Threads are scheduled by the operating system, every Minecraft launch has a
\* deadline (execution.rs kills it), and the coordinator only ever waits for its
\* workers.  Doctor has no deadline: that it ends is assumed of it.  Nothing
\* obliges an operator to start a process, a process to die, or an orphan to act.
FairSpec == /\ Spec
            /\ \A c \in Cases : WF_vars(Worker(c))
            /\ WF_vars(Coordinator)

-----------------------------------------------------------------------------
(* Properties.                                                              *)

Steps == {"idle", "static", "doctor", "written", "execute", "observe", "accuracy"}

Orphan == [case : Cases, boot : Nat, by : Analyzers]

Message == [case        : Cases,
            status      : Outcomes \union {"error"},
            report      : Analyzers \union {NoReport},
            observation : Runs,
            accuracy    : BOOLEAN]

\* Every variable holds a value of the type its Rust counterpart has.
TypeOK ==
  /\ stateFile \in [exists : BOOLEAN, cases : [Cases -> CaseState]]
  /\ state \in [Cases -> CaseState]
  /\ pc \in {"down", "select", "collect", "failing", "finished"}
  /\ opts \in [maxAttempts : Nat, maxParallel : Nat]
  /\ analyzer \in Analyzers \union {NoReport}
  /\ pc # "down" => analyzer \in Analyzers
  /\ boots \in Nat
  /\ pending \subseteq Cases
  /\ worker \in [Cases -> Steps]
  /\ job \in [Cases -> [report : Analyzers \union {NoReport}, status : Outcomes]]
  /\ channel \in Seq(Message)
  /\ reportFile \in [Cases -> Analyzers \union {NoReport}]
  /\ obsFile \in [Cases -> [run : Runs, status : Outcomes]]
  /\ accFile \in [Cases -> [run : Runs, report : Analyzers \union {NoReport}]]
  /\ orphans \subseteq Orphan
  /\ outlived \in [Cases -> SUBSET Analyzers]
  /\ commits \in [Cases -> Nat]

\* A process that has not met a write error works on exactly the table that is
\* on disk, so a kill at any step loses no decision it has acted upon.
MemoryIsDurable ==
  pc \in {"select", "collect", "finished"} =>
    stateFile.exists /\ state = stateFile.cases

\* The retry budget: on disk, the attempts of a case are its committed results,
\* plus one while it is Running.  Interruptions and failed writes, any number of
\* them, neither consume an attempt nor give one back.
BudgetAccounting ==
  \A c \in Cases :
    stateFile.cases[c].attempts =
      commits[c] + IF stateFile.cases[c].status = "running" THEN 1 ELSE 0

\* A case is worked on by one thread at most, for a batch member whose result
\* is still awaited, and never when the table on disk calls the case settled:
\* a worker, a queued result and a pending batch member are the same attempt.
OneAttemptInFlight ==
  pc = "collect" =>
    /\ \A c \in Cases :
         (c \in pending) =
           (worker[c] # "idle" \/ \E i \in DOMAIN channel : channel[i].case = c)
    /\ \A i \in DOMAIN channel : worker[channel[i].case] = "idle"
    /\ \A i, j \in DOMAIN channel : channel[i].case = channel[j].case => i = j

\* What else holds in every state, and makes the three formulas above inductive:
\* only a collecting coordinator has results to expect, only a collecting or a
\* failing one has workers, and the batch members whose result is awaited are
\* exactly the cases that are Running.
Quiescent ==
  /\ pc # "collect" => channel = <<>> /\ pending = {}
  /\ pc \notin {"collect", "failing"} => worker = Idle

PendingIsRunning ==
  pc \in {"select", "collect", "finished"} =>
    \A c \in Cases : (c \in pending) = (state[c].status = "running")

Unwritten == ~stateFile.exists => stateFile.cases = [c \in Cases |-> Fresh]

SafetyInv == /\ TypeOK
             /\ Unwritten
             /\ MemoryIsDurable
             /\ BudgetAccounting
             /\ OneAttemptInFlight
             /\ Quiescent
             /\ PendingIsRunning

\* A terminal entry, the observation, the Doctor report and the accuracy of a
\* case are of one attempt, under an accepted analyzer, whatever was retried,
\* interrupted or lost since.  The one exception is the report, and the accuracy
\* computed from it, of a case with a Doctor that a kill left running: those may
\* be that Doctor's.
PairedUnlessOutlived ==
  \A c \in Cases :
    LET s == stateFile.cases[c]
        reports == {s.report} \union outlived[c]
    IN
    s.status \in Terminal =>
      /\ obsFile[c].run = s.observation
      /\ observation_state(obsFile[c].status) = s.status
      /\ s.report # NoReport /\ (Expected = AnyAnalyzer \/ s.report = Expected)
      /\ reportFile[c] \in reports
      /\ s.accuracy = Eligible(obsFile[c].status)
      /\ s.accuracy => /\ accFile[c].run = s.observation
                       /\ accFile[c].report \in reports

\* When run_campaign returns its table, no case is left Running, and every case
\* that is not settled has used up this process's budget.  (It may be Pending:
\* interrupted under a larger budget than the one it was resumed with.)
FinishedIsExhausted ==
  pc = "finished" =>
    \A c \in Cases :
      \/ state[c].status \in Terminal
      \/ /\ state[c].status \in {"pending", "infrastructure-failure"}
         /\ state[c].attempts >= AtLeastOne(opts.maxAttempts)

\* A result once durable is final: no step of any process changes the case's
\* entry or the files of the case, but that a Doctor left running by a kill may,
\* once, replace the report by its own.
SettledIsFinal ==
  [][\A c \in Cases :
       stateFile.cases[c].status \in Terminal =>
         /\ stateFile'.cases[c] = stateFile.cases[c]
         /\ obsFile'[c] = obsFile[c]
         /\ accFile'[c] = accFile[c]
         /\ \/ reportFile'[c] = reportFile[c]
            \/ \E d \in orphans : /\ d.case = c
                                  /\ reportFile'[c] = d.by
                                  /\ orphans' = orphans \ {d}]_vars

\* A started process ends: it returns a table or an error, or it is killed.
\* Retries cannot keep it alive forever and no worker is waited for in vain.
Termination == []<>(pc = "down")

\* campaign.rs:3-5 says "The state file is committed after every case. A killed
\* process can therefore resume without repeating completed Minecraft launches":
\* no runtime is launched for a case whose observation.json already holds what a
\* launch of it produced.
LaunchesNotRepeated ==
  [][\A c \in Cases :
       obsFile[c].run # NoRun /\ Eligible(obsFile[c].status) =>
         ~(worker[c] = "execute" /\ worker'[c] = "observe")]_vars

\* campaign.rs:3-5 goes on: "or losing the exact analyzer/runtime pairing that
\* produced an observation".  The files of a terminal case hold that pairing: the
\* report is the one the attempt accepted, and the accuracy is computed from it.
ExactPairing ==
  \A c \in Cases :
    LET s == stateFile.cases[c] IN
    s.status \in Terminal =>
      /\ obsFile[c].run = s.observation
      /\ reportFile[c] = s.report
      /\ s.accuracy => accFile[c] = [run |-> s.observation, report |-> s.report]

\* campaign_report.rs:26 says of `completed`: "Cases with a completed runtime
\* observation (excludes static-only cases)."
CompletedCountsObservations ==
  pc = "finished" => Counts.completed = Counts.observed

=============================================================================
