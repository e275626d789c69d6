--------------------------- MODULE CampaignProofs ---------------------------
(***************************************************************************)
(* Theorems about Campaign, for any cases, options, analyzers and number   *)
(* of processes: first what a process works on and what an attempt is,     *)
(* then what a settled case and a returned table are worth, and last that  *)
(* Campaign implements CampaignLedger.                                     *)
(***************************************************************************)
EXTENDS CampaignRefinement, FiniteSetTheorems, SequenceTheorems, WellFoundedInduction, TLAPS

-----------------------------------------------------------------------------
(* What the operators on case entries return.                               *)

LEMMA FreshType == Fresh \in CaseState
BY DEF Fresh, CaseState, Statuses, NoRun, Runs

LEMMA EntryUpdate ==
  ASSUME NEW c \in CaseState, NEW s \in Statuses, NEW n \in Nat
  PROVE  /\ Entry(c, s, n) \in CaseState
         /\ Entry(c, s, n).status = s
         /\ Entry(c, s, n).attempts = n
BY DEF CaseState, Entry

LEMMA RecoveredType ==
  ASSUME NEW c \in CaseState
  PROVE  /\ Recovered(c) \in CaseState
         /\ Recovered(c).status # "running"
         /\ c.status # "running" => Recovered(c) = c
         /\ c.status = "running" /\ c.attempts > 0 => Recovered(c).attempts = c.attempts - 1
<1>1. "pending" \in Statuses /\ c.attempts \in Nat
  BY DEF CaseState, Statuses
<1>2. (IF c.attempts = 0 THEN 0 ELSE c.attempts - 1) \in Nat
  BY <1>1
<1> QED
  BY <1>1, <1>2, EntryUpdate DEF Recovered

LEMMA MarkedType ==
  ASSUME NEW c \in CaseState
  PROVE  /\ Marked(c) \in CaseState
         /\ Marked(c).status = "running"
         /\ Marked(c).attempts = c.attempts + 1
<1>1. "running" \in Statuses /\ c.attempts + 1 \in Nat
  BY DEF CaseState, Statuses
<1> QED
  BY <1>1, EntryUpdate DEF Marked

LEMMA SettledType ==
  ASSUME NEW c \in CaseState, NEW m \in Message
  PROVE  /\ Settled(c, m) \in CaseState
         /\ Settled(c, m).status # "running"
         /\ Settled(c, m).attempts = c.attempts
BY DEF Settled, Entry, CaseState, Message, Statuses, Terminal, observation_state, Outcomes

LEMMA BatchType ==
  ASSUME NEW table, NEW o
  PROVE  /\ Batch(table, o) \subseteq Cases
         /\ \A c \in Batch(table, o) : Retryable(table[c], o)
BY DEF Batch

-----------------------------------------------------------------------------
(* Type correctness.                                                        *)

LEMMA InitType == Init => TypeOK
<1> SUFFICES ASSUME Init PROVE TypeOK
  OBVIOUS
<1>1. stateFile \in [exists : BOOLEAN, cases : [Cases -> CaseState]]
  BY FreshType DEF Init
<1>2. state \in [Cases -> CaseState]
  BY FreshType DEF Init
<1>3. channel \in Seq(Message)
  BY DEF Init
<1> QED
  BY <1>1, <1>2, <1>3 DEF Init, TypeOK, NoOptions, Idle, NoJob, NoObs, NoAccuracy,
     NoRun, Runs, Outcomes, Steps

LEMMA ExitedType ==
  ASSUME Exited
  PROVE  /\ state' \in [Cases -> CaseState]
         /\ pc' = "down"
         /\ opts' \in [maxAttempts : Nat, maxParallel : Nat]
         /\ analyzer' \in Analyzers \union {NoReport}
         /\ pending' \subseteq Cases
         /\ worker' \in [Cases -> Steps]
         /\ job' \in [Cases -> [report : Analyzers \union {NoReport}, status : Outcomes]]
         /\ channel' \in Seq(Message)
BY FreshType DEF Exited, NoOptions, Idle, NoJob, Outcomes, Steps

LEMMA PublishType ==
  ASSUME TypeOK, NEW w \in Writes, NEW table \in [Cases -> CaseState], Publish(w, table)
  PROVE  stateFile' \in [exists : BOOLEAN, cases : [Cases -> CaseState]]
BY DEF TypeOK, Publish

LEMMA SendType ==
  ASSUME TypeOK, NEW c \in Cases, NEW s \in Outcomes \union {"error"},
         NEW a \in BOOLEAN, Send(c, s, a)
  PROVE  /\ worker' \in [Cases -> Steps]
         /\ job' \in [Cases -> [report : Analyzers \union {NoReport}, status : Outcomes]]
         /\ channel' \in Seq(Message)
<1> DEFINE m == [case |-> c, status |-> s, report |-> job[c].report,
                 observation |-> ThisRun(c), accuracy |-> a]
<1>1. ThisRun(c) \in Runs
  BY DEF TypeOK, ThisRun, Runs, CaseState
<1>2. m \in Message
  BY <1>1 DEF TypeOK, Message
<1>3. Append(channel, m) \in Seq(Message)
  BY <1>2 DEF TypeOK
<1>4. channel' \in Seq(Message)
  BY <1>3 DEF Send, TypeOK
<1> QED
  BY <1>4 DEF Send, TypeOK, NoJob, Outcomes, Steps

LEMMA AdvanceType ==
  ASSUME TypeOK, NEW c \in Cases, NEW step \in Steps \ {"idle"},
         NEW j \in [report : Analyzers \union {NoReport}, status : Outcomes],
         Advance(c, step, j)
  PROVE  /\ worker' \in [Cases -> Steps]
         /\ job' \in [Cases -> [report : Analyzers \union {NoReport}, status : Outcomes]]
         /\ channel' \in Seq(Message)
BY DEF Advance, TypeOK

LEMMA NextType == TypeOK /\ [Next]_vars => TypeOK'
<1> SUFFICES ASSUME TypeOK, [Next]_vars PROVE TypeOK'
  OBVIOUS
<1>1. ASSUME NEW o \in Options, NEW a \in Analyzers, NEW w \in Writes, Start(o, a, w)
      PROVE  TypeOK'
  <2> DEFINE table == IF stateFile.exists
                      THEN [c \in Cases |-> Recovered(stateFile.cases[c])]
                      ELSE [c \in Cases |-> Fresh]
  <2>1. table \in [Cases -> CaseState]
    BY FreshType, RecoveredType DEF TypeOK
  <2>2. stateFile' \in [exists : BOOLEAN, cases : [Cases -> CaseState]]
    BY <1>1, <2>1, PublishType DEF Start
  <2>3. CASE w.ok
    BY <1>1, <2>1, <2>2, <2>3, OptionsAssumption DEF Start, TypeOK, artifacts, doctors
  <2>4. CASE ~w.ok
    BY <1>1, <2>2, <2>4, ExitedType DEF Start, TypeOK, artifacts, doctors
  <2> QED
    BY <2>3, <2>4
<1>2. ASSUME NEW w \in Writes, StartBatch(w)
      PROVE  TypeOK'
  <2> DEFINE batch == Batch(state, opts)
             table == [c \in Cases |-> IF c \in batch THEN Marked(state[c]) ELSE state[c]]
  <2>1. table \in [Cases -> CaseState]
    BY MarkedType DEF TypeOK
  <2>2. stateFile' \in [exists : BOOLEAN, cases : [Cases -> CaseState]]
    BY <1>2, <2>1, PublishType DEF StartBatch
  <2>3. CASE w.ok
    <3>1. batch \subseteq Cases
      BY BatchType
    <3> HIDE DEF batch, table
    <3>2. state' = table /\ pc' = "collect" /\ pending' = batch
          /\ worker' = [c \in Cases |-> IF c \in batch THEN "static" ELSE "idle"]
          /\ UNCHANGED <<opts, analyzer, job, channel>>
      BY <1>2, <2>3 DEF StartBatch, batch, table
    <3> QED
      BY <1>2, <2>1, <2>2, <3>1, <3>2 DEF StartBatch, TypeOK, Steps, artifacts, doctors
  <2>4. CASE ~w.ok
    BY <1>2, <2>2, <2>4, ExitedType DEF StartBatch, TypeOK, artifacts, doctors
  <2> QED
    BY <2>3, <2>4
<1>3. CASE Finish
  BY <1>3 DEF Finish, TypeOK, artifacts, process, doctors
<1>4. ASSUME NEW c \in Cases, PrepareStatic(c) \/ VerifyReport(c)
      PROVE  TypeOK'
  <2>1. /\ job[c] \in [report : Analyzers \union {NoReport}, status : Outcomes]
        /\ [report |-> reportFile[c], status |-> job[c].status]
             \in [report : Analyzers \union {NoReport}, status : Outcomes]
    BY DEF TypeOK
  <2>2. {"doctor", "execute"} \subseteq Steps \ {"idle"}
    BY DEF Steps
  <2>3. /\ worker' \in [Cases -> Steps]
        /\ job' \in [Cases -> [report : Analyzers \union {NoReport}, status : Outcomes]]
        /\ channel' \in Seq(Message)
    BY <1>4, <2>1, <2>2, SendType, AdvanceType DEF PrepareStatic, VerifyReport
  <2> QED
    BY <1>4, <2>3 DEF PrepareStatic, VerifyReport, TypeOK, artifacts, process, doctors
<1>13. ASSUME NEW c \in Cases, DoctorWrites(c)
       PROVE  TypeOK'
  <2>1. job[c] \in [report : Analyzers \union {NoReport}, status : Outcomes]
    BY DEF TypeOK
  <2>2. /\ worker' \in [Cases -> Steps]
        /\ job' \in [Cases -> [report : Analyzers \union {NoReport}, status : Outcomes]]
        /\ channel' \in Seq(Message)
    BY <1>13, <2>1, AdvanceType DEF DoctorWrites, Steps
  <2>3. reportFile' \in [Cases -> Analyzers \union {NoReport}]
    BY <1>13 DEF DoctorWrites, TypeOK
  <2> QED
    BY <1>13, <2>2, <2>3 DEF DoctorWrites, TypeOK, process, doctors
<1>5. ASSUME NEW c \in Cases, Execute(c)
      PROVE  TypeOK'
  <2>1. \A o \in Outcomes : [report |-> job[c].report, status |-> o]
          \in [report : Analyzers \union {NoReport}, status : Outcomes]
    BY DEF TypeOK
  <2>2. (IF c \in StaticOnly THEN {"skipped"} ELSE Outcomes \ {"skipped"}) \subseteq Outcomes
    BY DEF Outcomes
  <2>3. /\ worker' \in [Cases -> Steps]
        /\ job' \in [Cases -> [report : Analyzers \union {NoReport}, status : Outcomes]]
        /\ channel' \in Seq(Message)
    <3>1. CASE Send(c, "error", FALSE)
      BY <3>1, SendType
    <3>2. ASSUME NEW o \in Outcomes, Advance(c, "observe", [report |-> job[c].report, status |-> o])
          PROVE <2>3!1 /\ <2>3!2 /\ <2>3!3
      BY <3>2, <2>1, AdvanceType DEF Steps
    <3> QED
      BY <1>5, <2>2, <3>1, <3>2 DEF Execute
  <2> QED
    BY <1>5, <2>3 DEF Execute, TypeOK, artifacts, process, doctors
<1>6. ASSUME NEW c \in Cases, NEW w \in Writes, WriteObservation(c, w)
      PROVE  TypeOK'
  <2>1. job[c].status \in Outcomes /\ job[c] \in [report : Analyzers \union {NoReport}, status : Outcomes]
    BY DEF TypeOK
  <2>2. obsFile' \in [Cases -> [run : Runs, status : Outcomes]]
    BY <1>6, <2>1 DEF WriteObservation, TypeOK, ThisRun, Runs, CaseState
  <2>3. /\ worker' \in [Cases -> Steps]
        /\ job' \in [Cases -> [report : Analyzers \union {NoReport}, status : Outcomes]]
        /\ channel' \in Seq(Message)
    BY <1>6, <2>1, SendType, AdvanceType DEF WriteObservation, Steps
  <2> QED
    BY <1>6, <2>2, <2>3 DEF WriteObservation, TypeOK, process, doctors
<1>7. ASSUME NEW c \in Cases, NEW w \in Writes, EvaluateAccuracy(c, w)
      PROVE  TypeOK'
  <2>1. job[c].status \in Outcomes
    BY DEF TypeOK
  <2>2. accFile' \in [Cases -> [run : Runs, report : Analyzers \union {NoReport}]]
    BY <1>7 DEF EvaluateAccuracy, TypeOK
  <2>3. /\ worker' \in [Cases -> Steps]
        /\ job' \in [Cases -> [report : Analyzers \union {NoReport}, status : Outcomes]]
        /\ channel' \in Seq(Message)
    BY <1>7, <2>1, SendType DEF EvaluateAccuracy
  <2> QED
    BY <1>7, <2>2, <2>3 DEF EvaluateAccuracy, TypeOK, process, doctors
<1>8. ASSUME NEW w \in Writes, Commit(w)
      PROVE  TypeOK'
  <2> DEFINE m     == Head(channel)
             table == [state EXCEPT ![m.case] = Settled(@, m)]
  <2>1. m \in Message /\ Tail(channel) \in Seq(Message) /\ m.case \in Cases
    <3>1. channel \in Seq(Message) /\ channel # <<>>
      BY <1>8 DEF Commit, TypeOK
    <3>2. Head(channel) \in Message /\ Tail(channel) \in Seq(Message)
      BY <3>1, HeadTailProperties
    <3> QED
      BY <3>2 DEF Message
  <2>2. table \in [Cases -> CaseState]
    BY <2>1, SettledType DEF TypeOK
  <2>3. stateFile' \in [exists : BOOLEAN, cases : [Cases -> CaseState]]
    BY <1>8, <2>2, PublishType DEF Commit
  <2>4. commits' \in [Cases -> Nat]
    BY <1>8, <2>1 DEF Commit, TypeOK
  <2> HIDE DEF m, table
  <2>5. state' = table /\ pc' \in {"select", "collect", "failing"}
        /\ pending' \subseteq Cases /\ channel' \in Seq(Message)
    <3>1. CASE w.ok
      BY <1>8, <2>1, <3>1 DEF Commit, TypeOK, m, table
    <3>2. CASE ~w.ok
      BY <1>8, <2>1, <3>2 DEF Commit, TypeOK, m, table
    <3> QED
      BY <3>1, <3>2
  <2> QED
    BY <1>8, <2>2, <2>3, <2>4, <2>5 DEF Commit, TypeOK, artifacts, process, doctors
<1>9. CASE Abandon
  BY <1>9, ExitedType DEF Abandon, TypeOK, artifacts, doctors
<1>10. CASE WriteReport
  BY <1>10, ExitedType DEF WriteReport, TypeOK, artifacts, doctors
<1>11. CASE Crash
  <2>1. analyzer \in Analyzers /\ boots \in Nat
    BY <1>11 DEF Crash, TypeOK
  <2>2. orphans' \subseteq Orphan /\ outlived' \in [Cases -> SUBSET Analyzers]
    BY <1>11, <2>1 DEF Crash, TypeOK, Orphan
  <2> QED
    BY <1>11, <2>2, ExitedType DEF Crash, TypeOK, artifacts
<1>14. ASSUME NEW d \in orphans, OrphanWrites(d) \/ OrphanDies(d)
       PROVE  TypeOK'
  <2>1. d.case \in Cases /\ d.by \in Analyzers /\ orphans' \subseteq Orphan
    BY <1>14 DEF OrphanWrites, OrphanDies, TypeOK, Orphan
  <2>2. reportFile' \in [Cases -> Analyzers \union {NoReport}]
    BY <1>14, <2>1 DEF OrphanWrites, OrphanDies, TypeOK, artifacts
  <2> QED
    BY <1>14, <2>1, <2>2 DEF OrphanWrites, OrphanDies, TypeOK, artifacts, process
<1>12. CASE UNCHANGED vars
  BY <1>12 DEF vars, TypeOK
<1> QED
  BY <1>1, <1>2, <1>3, <1>4, <1>5, <1>6, <1>7, <1>8, <1>9, <1>10, <1>11, <1>12,
     <1>13, <1>14 DEF Next, Worker, Coordinator

\* Every variable always holds a value of its type.
THEOREM TypeCorrect == Spec => []TypeOK
<1>1. Init => TypeOK
  BY InitType
<1>2. TypeOK /\ [Next]_vars => TypeOK'
  BY NextType
<1> QED
  BY <1>1, <1>2, PTL DEF Spec

-----------------------------------------------------------------------------
(* The inductive invariant.                                                 *)

LEMMA InitSafety == Init => SafetyInv
<1> SUFFICES ASSUME Init PROVE SafetyInv
  OBVIOUS
<1>1. TypeOK
  BY InitType
<1>2. BudgetAccounting
  BY DEF Init, BudgetAccounting, Fresh
<1> QED
  BY <1>1, <1>2 DEF Init, SafetyInv, MemoryIsDurable, OneAttemptInFlight, Quiescent,
     PendingIsRunning, Unwritten

\* A worker that goes on leaves the three formulas about attempts alone.
LEMMA AdvanceInFlight ==
  ASSUME SafetyInv, NEW c \in Cases, worker[c] # "idle",
         NEW step \in Steps \ {"idle"}, NEW j, Advance(c, step, j),
         UNCHANGED <<pc, pending, state>>
  PROVE  OneAttemptInFlight' /\ Quiescent' /\ PendingIsRunning'
<1>1. OneAttemptInFlight'
  BY DEF SafetyInv, TypeOK, Advance, OneAttemptInFlight
<1>2. Quiescent'
  BY DEF SafetyInv, TypeOK, Advance, Quiescent, Idle
<1>3. PendingIsRunning'
  BY DEF SafetyInv, PendingIsRunning
<1> QED
  BY <1>1, <1>2, <1>3

\* A worker that ends turns into the result of the same attempt.
LEMMA SendInFlight ==
  ASSUME SafetyInv, NEW c \in Cases, worker[c] # "idle",
         NEW s \in Outcomes \union {"error"}, NEW a \in BOOLEAN, Send(c, s, a),
         UNCHANGED <<pc, pending, state>>
  PROVE  OneAttemptInFlight' /\ Quiescent' /\ PendingIsRunning'
<1> DEFINE m == [case |-> c, status |-> s, report |-> job[c].report,
                 observation |-> ThisRun(c), accuracy |-> a]
<1>1. pc \in {"collect", "failing"}
  BY DEF SafetyInv, Quiescent, Idle
<1>2. OneAttemptInFlight'
  <2> SUFFICES ASSUME pc = "collect" PROVE OneAttemptInFlight'
    BY DEF OneAttemptInFlight
  <2>1. channel' = Append(channel, m) /\ channel \in Seq(Message) /\ m \in Message
    <3>1. ThisRun(c) \in Runs
      BY DEF SafetyInv, TypeOK, ThisRun, Runs, CaseState
    <3> QED
      BY <3>1 DEF Send, SafetyInv, TypeOK, Message
  <2>2. /\ DOMAIN channel = 1 .. Len(channel) /\ Len(channel) \in Nat
        /\ DOMAIN channel' = 1 .. (Len(channel) + 1)
        /\ channel'[Len(channel) + 1] = m
        /\ \A i \in DOMAIN channel : channel'[i] = channel[i]
    BY <2>1, AppendProperties, LenProperties
  <2>3. m.case = c
    OBVIOUS
  <2>4. worker' = [worker EXCEPT ![c] = "idle"] /\ worker \in [Cases -> Steps]
    BY DEF Send, SafetyInv, TypeOK
  <2>5. /\ \A d \in Cases :
             (d \in pending) =
               (worker[d] # "idle" \/ \E i \in DOMAIN channel : channel[i].case = d)
        /\ \A i \in DOMAIN channel : worker[channel[i].case] = "idle"
        /\ \A i, j \in DOMAIN channel : channel[i].case = channel[j].case => i = j
    BY DEF SafetyInv, OneAttemptInFlight
  <2>6. \A i \in DOMAIN channel : channel[i].case # c /\ channel[i].case \in Cases
    <3>1. \A i \in DOMAIN channel : channel[i] \in Message
      BY <2>1, <2>2, ElementOfSeq
    <3> QED
      BY <2>5, <3>1 DEF Message
  <2> HIDE DEF m
  <2>7. DOMAIN channel' = DOMAIN channel \union {Len(channel) + 1}
        /\ Len(channel) + 1 \notin DOMAIN channel
    BY <2>2
  <2>8. \A d \in Cases :
          (d \in pending) =
            (worker'[d] # "idle" \/ \E i \in DOMAIN channel' : channel'[i].case = d)
    BY <2>2, <2>3, <2>4, <2>5, <2>6, <2>7
  <2>9. \A i \in DOMAIN channel' : worker'[channel'[i].case] = "idle"
    BY <2>2, <2>3, <2>4, <2>5, <2>6, <2>7
  <2>10. \A i, j \in DOMAIN channel' : channel'[i].case = channel'[j].case => i = j
    BY <2>2, <2>3, <2>5, <2>6, <2>7
  <2> QED
    BY <2>8, <2>9, <2>10 DEF OneAttemptInFlight
<1>3. Quiescent'
  BY <1>1 DEF SafetyInv, Quiescent, Send
<1>4. PendingIsRunning'
  BY DEF SafetyInv, PendingIsRunning
<1> QED
  BY <1>2, <1>3, <1>4

\* After an exit no attempt is in flight.
LEMMA ExitedSafety ==
  ASSUME Exited
  PROVE  MemoryIsDurable' /\ OneAttemptInFlight' /\ Quiescent' /\ PendingIsRunning'
BY DEF Exited, MemoryIsDurable, OneAttemptInFlight, Quiescent, PendingIsRunning, Idle

LEMMA SafetyStep == SafetyInv /\ [Next]_vars => SafetyInv'
<1> SUFFICES ASSUME SafetyInv, [Next]_vars PROVE SafetyInv'
  OBVIOUS
<1> USE DEF SafetyInv
<1>0. TypeOK'
  BY NextType
<1>1. ASSUME NEW o \in Options, NEW a \in Analyzers, NEW w \in Writes, Start(o, a, w)
      PROVE  SafetyInv'
  <2> DEFINE table == IF stateFile.exists
                      THEN [c \in Cases |-> Recovered(stateFile.cases[c])]
                      ELSE [c \in Cases |-> Fresh]
  <2>1. /\ stateFile.cases \in [Cases -> CaseState] /\ stateFile.exists \in BOOLEAN
        /\ \A c \in Cases : stateFile.cases[c].attempts \in Nat
        /\ commits \in [Cases -> Nat]
    BY DEF TypeOK, CaseState
  <2>2. ~stateFile.exists => \A c \in Cases : stateFile.cases[c] = Fresh
    <3> QED
      BY DEF Unwritten
  <2>3. \A c \in Cases : /\ table[c].status # "running"
                         /\ table[c].attempts = commits[c]
    <3>1. CASE stateFile.exists
      <4> SUFFICES ASSUME NEW c \in Cases
                   PROVE  /\ Recovered(stateFile.cases[c]).status # "running"
                          /\ Recovered(stateFile.cases[c]).attempts = commits[c]
        BY <3>1
      <4> QED
        BY <2>1, RecoveredType DEF BudgetAccounting
    <3>2. CASE ~stateFile.exists
      BY <2>1, <2>2, <3>2 DEF BudgetAccounting, Fresh
    <3> QED
      BY <3>1, <3>2
  <2> HIDE DEF table
  <2>4. /\ stateFile' = IF w.effect THEN [exists |-> TRUE, cases |-> table] ELSE stateFile
        /\ commits' = commits
    BY <1>1 DEF Start, Publish, table
  <2>5. BudgetAccounting'
    BY <2>1, <2>3, <2>4 DEF BudgetAccounting
  <2>6. Unwritten'
    BY <2>4 DEF Unwritten
  <2>7. CASE w.ok
    <3>1. w.effect
      BY <2>7 DEF Writes
    <3>2. /\ pc = "down" /\ pc' = "select" /\ state' = table
          /\ UNCHANGED <<pending, worker, job, channel>>
      BY <1>1, <2>7 DEF Start, table
    <3>3. MemoryIsDurable'
      BY <2>4, <3>1, <3>2 DEF MemoryIsDurable
    <3>4. OneAttemptInFlight' /\ Quiescent' /\ PendingIsRunning'
      BY <2>3, <3>2 DEF OneAttemptInFlight, Quiescent, PendingIsRunning, Idle
    <3> QED
      BY <1>0, <2>5, <2>6, <3>3, <3>4
  <2>8. CASE ~w.ok
    BY <1>0, <1>1, <2>5, <2>6, <2>8, ExitedSafety DEF Start
  <2> QED
    BY <2>7, <2>8
<1>2. ASSUME NEW w \in Writes, StartBatch(w)
      PROVE  SafetyInv'
  <2> DEFINE batch == Batch(state, opts)
             table == [c \in Cases |-> IF c \in batch THEN Marked(state[c]) ELSE state[c]]
  <2>1. /\ pc = "select" /\ stateFile.exists /\ state = stateFile.cases
        /\ pending = {} /\ worker = Idle /\ channel = <<>>
    BY <1>2 DEF StartBatch, MemoryIsDurable, Quiescent
  <2>2. /\ state \in [Cases -> CaseState] /\ commits \in [Cases -> Nat]
        /\ \A c \in Cases : state[c].attempts \in Nat
    BY DEF TypeOK, CaseState
  <2>3. \A c \in Cases : state[c].status # "running" /\ state[c].attempts = commits[c]
    BY <2>1, <2>2 DEF PendingIsRunning, BudgetAccounting
  <2>4. batch \subseteq Cases
    BY BatchType
  <2>5. \A c \in Cases : /\ (c \in batch) = (table[c].status = "running")
                         /\ table[c].attempts =
                              commits[c] + IF table[c].status = "running" THEN 1 ELSE 0
    BY <2>2, <2>3, MarkedType
  <2> HIDE DEF batch, table
  <2>6. /\ stateFile' = IF w.effect THEN [exists |-> TRUE, cases |-> table] ELSE stateFile
        /\ commits' = commits
    BY <1>2 DEF StartBatch, Publish, batch, table
  <2>7. BudgetAccounting'
    BY <2>5, <2>6 DEF BudgetAccounting
  <2>8. Unwritten'
    BY <2>6 DEF Unwritten
  <2>9. CASE w.ok
    <3>1. w.effect
      BY <2>9 DEF Writes
    <3>2. /\ pc' = "collect" /\ state' = table /\ pending' = batch
          /\ worker' = [c \in Cases |-> IF c \in batch THEN "static" ELSE "idle"]
          /\ channel' = <<>>
      BY <1>2, <2>1, <2>9 DEF StartBatch, batch, table
    <3>3. MemoryIsDurable'
      BY <2>6, <3>1, <3>2 DEF MemoryIsDurable
    <3>4. OneAttemptInFlight'
      BY <2>4, <3>2 DEF OneAttemptInFlight
    <3>5. Quiescent' /\ PendingIsRunning'
      BY <2>5, <3>2 DEF Quiescent, PendingIsRunning
    <3> QED
      BY <1>0, <2>7, <2>8, <3>3, <3>4, <3>5
  <2>10. CASE ~w.ok
    BY <1>0, <1>2, <2>7, <2>8, <2>10, ExitedSafety DEF StartBatch
  <2> QED
    BY <2>9, <2>10
<1>3. CASE Finish
  BY <1>0, <1>3 DEF Finish, MemoryIsDurable, BudgetAccounting, OneAttemptInFlight,
     Quiescent, PendingIsRunning, Unwritten
<1>4. ASSUME NEW c \in Cases, Worker(c)
      PROVE  SafetyInv'
  <2>1. UNCHANGED <<stateFile, state, pc, pending, commits>> /\ worker[c] # "idle"
    BY <1>4 DEF Worker, PrepareStatic, DoctorWrites, VerifyReport, Execute, WriteObservation,
       EvaluateAccuracy
  <2>2. \/ \E s \in Outcomes \union {"error"}, a \in BOOLEAN : Send(c, s, a)
        \/ \E step \in Steps \ {"idle"} : \E j : Advance(c, step, j)
    <3>1. job[c].status \in Outcomes
      BY DEF TypeOK
    <3>2. ASSUME PrepareStatic(c) \/ DoctorWrites(c) \/ VerifyReport(c) PROVE <2>2
      BY <3>2 DEF PrepareStatic, DoctorWrites, VerifyReport, Steps
    <3>3. ASSUME Execute(c) PROVE <2>2
      BY <3>3 DEF Execute, Steps
    <3>4. ASSUME NEW w \in Writes, WriteObservation(c, w) PROVE <2>2
      BY <3>1, <3>4 DEF WriteObservation, Steps
    <3>5. ASSUME NEW w \in Writes, EvaluateAccuracy(c, w) PROVE <2>2
      BY <3>1, <3>5 DEF EvaluateAccuracy
    <3> QED
      BY <1>4, <3>2, <3>3, <3>4, <3>5 DEF Worker
  <2>3. OneAttemptInFlight' /\ Quiescent' /\ PendingIsRunning'
    BY <2>1, <2>2, SendInFlight, AdvanceInFlight
  <2>4. MemoryIsDurable' /\ BudgetAccounting' /\ Unwritten'
    BY <2>1 DEF MemoryIsDurable, BudgetAccounting, Unwritten
  <2> QED
    BY <1>0, <2>3, <2>4
<1>5. ASSUME NEW w \in Writes, Commit(w)
      PROVE  SafetyInv'
  <2> DEFINE m     == Head(channel)
             table == [state EXCEPT ![m.case] = Settled(@, m)]
  <2>1. /\ pc = "collect" /\ stateFile.exists /\ state = stateFile.cases
        /\ channel \in Seq(Message) /\ channel # <<>>
        /\ state \in [Cases -> CaseState] /\ commits \in [Cases -> Nat]
    BY <1>5 DEF Commit, MemoryIsDurable, TypeOK
  <2>2. /\ m = channel[1] /\ 1 \in DOMAIN channel
        /\ DOMAIN channel = 1 .. Len(channel) /\ Len(channel) \in Nat
        /\ m \in Message /\ m.case \in Cases
    <3>1. m = channel[1] /\ m \in Message
      BY <2>1, HeadTailProperties
    <3>2. DOMAIN channel = 1 .. Len(channel) /\ Len(channel) \in Nat /\ Len(channel) # 0
      BY <2>1, LenProperties, EmptySeq
    <3> QED
      BY <3>1, <3>2 DEF Message
  <2>3. /\ DOMAIN Tail(channel) = 1 .. (Len(channel) - 1)
        /\ \A i \in DOMAIN Tail(channel) :
             i + 1 \in DOMAIN channel /\ Tail(channel)[i] = channel[i + 1]
        /\ \A i \in DOMAIN channel : i # 1 => i - 1 \in DOMAIN Tail(channel)
                                             /\ Tail(channel)[i - 1] = channel[i]
    <3>1. /\ Tail(channel) \in Seq(Message) /\ Len(Tail(channel)) = Len(channel) - 1
          /\ \A i \in 1 .. Len(Tail(channel)) : Tail(channel)[i] = channel[i + 1]
      BY <2>1, HeadTailProperties
    <3>2. DOMAIN Tail(channel) = 1 .. (Len(channel) - 1)
      BY <3>1, LenProperties
    <3>3. \A i \in DOMAIN channel : i # 1 => i - 1 \in 1 .. (Len(channel) - 1) /\ (i - 1) + 1 = i
      BY <2>2
    <3> QED
      BY <2>2, <3>1, <3>2, <3>3
  <2>4. /\ m.case \in pending /\ worker[m.case] = "idle"
        /\ \A i \in DOMAIN channel : i # 1 => channel[i].case # m.case
    BY <2>1, <2>2 DEF OneAttemptInFlight
  <2>5. state[m.case].status = "running" /\ state[m.case].attempts = commits[m.case] + 1
    BY <2>1, <2>2, <2>4 DEF PendingIsRunning, BudgetAccounting
  <2>6. /\ table \in [Cases -> CaseState]
        /\ table[m.case].status # "running"
        /\ table[m.case].attempts = commits[m.case] + 1
        /\ \A c \in Cases \ {m.case} : table[c] = state[c]
    BY <2>1, <2>2, <2>5, SettledType
  <2>7. /\ state' = table
        /\ stateFile' = IF w.effect THEN [exists |-> TRUE, cases |-> table] ELSE stateFile
        /\ commits' = IF w.effect THEN [commits EXCEPT ![m.case] = @ + 1] ELSE commits
        /\ worker' = worker
    BY <1>5 DEF Commit, Publish
  <2>8. w.ok => /\ pending' = pending \ {m.case} /\ channel' = Tail(channel)
                /\ pc' = IF pending' = {} THEN "select" ELSE "collect"
    BY <1>5 DEF Commit
  <2>9. ~w.ok => pending' = {} /\ channel' = <<>> /\ pc' = "failing"
    BY <1>5 DEF Commit
  <2> HIDE DEF m, table
  <2>10. BudgetAccounting'
    BY <2>1, <2>2, <2>6, <2>7 DEF BudgetAccounting
  <2>11. MemoryIsDurable'
    BY <2>7, <2>9 DEF MemoryIsDurable, Writes
  <2>12. Unwritten'
    BY <2>7 DEF Unwritten
  <2>13. OneAttemptInFlight'
    <3> SUFFICES ASSUME w.ok, pc' = "collect" PROVE OneAttemptInFlight'
      BY <2>9 DEF OneAttemptInFlight
    <3>1. \A c \in Cases : (c \in pending') =
             (worker'[c] # "idle" \/ \E i \in DOMAIN channel' : channel'[i].case = c)
      <4> SUFFICES ASSUME NEW c \in Cases
                   PROVE  (c \in pending') =
                            (worker'[c] # "idle" \/ \E i \in DOMAIN channel' : channel'[i].case = c)
        OBVIOUS
      <4>1. CASE c = m.case
        BY <2>2, <2>3, <2>4, <2>7, <2>8, <4>1
      <4>2. CASE c # m.case
        <5>1. (\E i \in DOMAIN channel' : channel'[i].case = c)
                <=> (\E i \in DOMAIN channel : channel[i].case = c)
          <6>1. ASSUME NEW i \in DOMAIN channel', channel'[i].case = c
                PROVE  \E k \in DOMAIN channel : channel[k].case = c
            BY <2>3, <2>8, <6>1
          <6>2. ASSUME NEW i \in DOMAIN channel, channel[i].case = c
                PROVE  \E k \in DOMAIN channel' : channel'[k].case = c
            <7>1. i # 1
              BY <2>2, <4>2, <6>2
            <7> QED
              BY <2>3, <2>8, <6>2, <7>1
          <6> QED
            BY <6>1, <6>2
        <5> QED
          BY <2>1, <2>7, <2>8, <4>2, <5>1 DEF OneAttemptInFlight
      <4> QED
        BY <4>1, <4>2
    <3>2. \A i \in DOMAIN channel' : worker'[channel'[i].case] = "idle"
      BY <2>1, <2>3, <2>7, <2>8 DEF OneAttemptInFlight
    <3>3. \A i, j \in DOMAIN channel' : channel'[i].case = channel'[j].case => i = j
      <4> SUFFICES ASSUME NEW i \in DOMAIN channel', NEW j \in DOMAIN channel',
                          channel'[i].case = channel'[j].case
                   PROVE  i = j
        OBVIOUS
      <4>1. i + 1 = j + 1
        BY <2>1, <2>3, <2>8 DEF OneAttemptInFlight
      <4>2. i \in Int /\ j \in Int
        BY <2>2, <2>3, <2>8
      <4> QED
        BY <4>1, <4>2
    <3> QED
      BY <3>1, <3>2, <3>3 DEF OneAttemptInFlight
  <2>14. PendingIsRunning'
    BY <2>1, <2>2, <2>6, <2>7, <2>8, <2>9 DEF PendingIsRunning
  <2>15. Quiescent'
    <3> SUFFICES ASSUME w.ok, pending' = {} PROVE channel' = <<>> /\ worker' = Idle
      BY <2>8, <2>9 DEF Quiescent
    <3>1. \A c \in Cases : c # m.case => worker[c] = "idle" /\ \A i \in DOMAIN channel : channel[i].case # c
      BY <2>1, <2>8 DEF OneAttemptInFlight
    <3>2. worker' = Idle
      BY <2>4, <2>7, <3>1 DEF Idle, TypeOK
    <3>3. \A i \in DOMAIN channel : channel[i].case \in Cases
      <4>1. \A i \in DOMAIN channel : channel[i] \in Message
        BY <2>1, <2>2, ElementOfSeq
      <4> QED
        BY <4>1 DEF Message
    <3>4. \A i \in DOMAIN channel : i = 1
      BY <2>4, <3>1, <3>3
    <3>5. Len(channel) = 1
      BY <2>2, <3>4
    <3>6. channel' = <<>>
      BY <2>1, <2>8, <3>5, HeadTailProperties, EmptySeq
    <3> QED
      BY <3>2, <3>6
  <2> QED
    BY <1>0, <2>10, <2>11, <2>12, <2>13, <2>14, <2>15
<1>6. CASE Abandon \/ WriteReport \/ Crash
  <2>1. Exited /\ UNCHANGED <<stateFile, commits>>
    BY <1>6 DEF Abandon, WriteReport, Crash
  <2>2. BudgetAccounting' /\ Unwritten'
    BY <2>1 DEF BudgetAccounting, Unwritten
  <2> QED
    BY <1>0, <2>1, <2>2, ExitedSafety
<1>7. CASE UNCHANGED vars \/ \E d \in orphans : OrphanWrites(d) \/ OrphanDies(d)
  BY <1>0, <1>7 DEF vars, OrphanWrites, OrphanDies, process, MemoryIsDurable, BudgetAccounting, OneAttemptInFlight,
     Quiescent, PendingIsRunning, Unwritten
<1> QED
  BY <1>1, <1>2, <1>3, <1>4, <1>5, <1>6, <1>7 DEF Next, Coordinator

\* What the coordinator works on is what is on disk, the retry budget is spent
\* by committed results only, and an attempt exists once.
THEOREM Safety == Spec => [](MemoryIsDurable /\ BudgetAccounting /\ OneAttemptInFlight)
<1>1. Init => SafetyInv
  BY InitSafety
<1>2. SafetyInv /\ [Next]_vars => SafetyInv'
  BY SafetyStep
<1>3. SafetyInv => MemoryIsDurable /\ BudgetAccounting /\ OneAttemptInFlight
  BY DEF SafetyInv
<1> QED
  BY <1>1, <1>2, <1>3, PTL DEF Spec

\* What the process works on is what is on disk, so a kill at any step loses no
\* decision it has acted upon.
THEOREM AlwaysDurable == Spec => []MemoryIsDurable
BY Safety, PTL

\* A worker, a queued result and a pending batch member are the same attempt.
THEOREM AlwaysOneAttempt == Spec => []OneAttemptInFlight
BY Safety, PTL

-----------------------------------------------------------------------------
(* The invariant behind PairedUnlessOutlived and SettledIsFinal: what a     *)
(* worker has computed, and what its result says, is what the files of its  *)
(* case hold, but for a report that a Doctor left running may have replaced; *)
(* and the case is Running on disk until that result is committed.          *)

WorkerIsRunning ==
  \A c \in Cases : worker[c] # "idle" => stateFile.cases[c].status = "running"

\* The reports that the files of c may show, once r was accepted for it.
ReportsFor(c, r) == {r} \union outlived[c]

OrphansOutlived == \A d \in orphans : d.by \in outlived[d.case]

WorkerHolds(c) ==
  /\ worker[c] = "written" => reportFile[c] # NoReport
  /\ worker[c] \in {"execute", "observe", "accuracy"} =>
       /\ job[c].report # NoReport /\ Accepts(job[c].report)
       /\ reportFile[c] \in ReportsFor(c, job[c].report)
  /\ worker[c] = "accuracy" =>
       /\ obsFile[c] = [run |-> ThisRun(c), status |-> job[c].status]
       /\ Eligible(job[c].status)

ResultHolds(m) ==
  m.status # "error" =>
    /\ m.report # NoReport /\ Accepts(m.report)
    /\ reportFile[m.case] \in ReportsFor(m.case, m.report)
    /\ obsFile[m.case] = [run |-> m.observation, status |-> m.status]
    /\ m.accuracy = Eligible(m.status)
    /\ m.accuracy => /\ accFile[m.case].run = m.observation
                     /\ accFile[m.case].report \in ReportsFor(m.case, m.report)

ResultsHold == \A i \in DOMAIN channel : ResultHolds(channel[i])

ResultInv == /\ SafetyInv
             /\ OrphansOutlived
             /\ WorkerIsRunning
             /\ \A c \in Cases : WorkerHolds(c)
             /\ ResultsHold
             /\ PairedUnlessOutlived

\* A step of the worker of c leaves the table and the files of the others alone.
OnlyOf(c) ==
  /\ UNCHANGED <<stateFile, state, pc, boots, pending, orphans, outlived>>
  /\ \A d \in Cases \ {c} : /\ reportFile'[d] = reportFile[d]
                            /\ obsFile'[d] = obsFile[d]
                            /\ accFile'[d] = accFile[d]

\* Only a collecting coordinator has results, and none of them is of a case that
\* is still worked on.
LEMMA ResultsAreOfOthers ==
  ASSUME SafetyInv, NEW c \in Cases, worker[c] # "idle"
  PROVE  \A i \in DOMAIN channel :
           channel[i] \in Message /\ channel[i].case \in Cases \ {c}
<1>1. channel \in Seq(Message)
  BY DEF SafetyInv, TypeOK
<1>2. \A i \in DOMAIN channel : channel[i] \in Message
  BY <1>1, ElementOfSeq, LenProperties
<1>3. CASE pc = "collect"
  BY <1>2, <1>3 DEF SafetyInv, OneAttemptInFlight, Message
<1>4. CASE pc # "collect"
  BY <1>2, <1>4 DEF SafetyInv, Quiescent
<1> QED
  BY <1>3, <1>4

\* Settled cases are not worked on, so a worker's step leaves their files alone.
LEMMA PairingKept ==
  ASSUME ResultInv, NEW c \in Cases, worker[c] # "idle", OnlyOf(c)
  PROVE  PairedUnlessOutlived'
<1>1. stateFile.cases[c].status \notin Terminal
  BY DEF ResultInv, WorkerIsRunning, Terminal
<1>2. \A d \in Cases : stateFile.cases[d].status \in Terminal => d \in Cases \ {c}
  BY <1>1
<1> QED
  BY <1>2 DEF ResultInv, OnlyOf, PairedUnlessOutlived

\* A worker goes on to a step that its files justify.
LEMMA AdvanceHolds ==
  ASSUME ResultInv, NEW c \in Cases, worker[c] # "idle", OnlyOf(c),
         NEW step \in Steps \ {"idle"}, NEW j, Advance(c, step, j),
         step = "written" => reportFile'[c] # NoReport,
         step \in {"execute", "observe", "accuracy"} =>
           /\ j.report # NoReport /\ Accepts(j.report)
           /\ reportFile'[c] \in ReportsFor(c, j.report),
         step = "accuracy" => /\ obsFile'[c] = [run |-> ThisRun(c), status |-> j.status]
                              /\ Eligible(j.status)
  PROVE  /\ WorkerIsRunning'
         /\ \A d \in Cases : WorkerHolds(d)'
         /\ ResultsHold'
         /\ PairedUnlessOutlived'
<1>1. /\ worker' = [worker EXCEPT ![c] = step] /\ job' = [job EXCEPT ![c] = j]
      /\ channel' = channel
  BY DEF Advance
<1>2. DOMAIN worker = Cases /\ DOMAIN job = Cases
  BY DEF ResultInv, SafetyInv, TypeOK
<1>3. WorkerIsRunning'
  BY <1>1, <1>2 DEF ResultInv, WorkerIsRunning, OnlyOf
<1>4. ASSUME NEW d \in Cases PROVE WorkerHolds(d)'
  <2>1. CASE d = c
    BY <1>1, <1>2, <2>1 DEF WorkerHolds, ThisRun, OnlyOf, Accepts, ReportsFor
  <2>2. CASE d # c
    BY <1>1, <1>2, <2>2 DEF ResultInv, WorkerHolds, ThisRun, OnlyOf, Accepts, ReportsFor
  <2> QED
    BY <2>1, <2>2
<1>5. \A i \in DOMAIN channel : \A n \in {channel[i]} : ResultHolds(n)'
  BY ResultsAreOfOthers DEF ResultInv, ResultsHold, ResultHolds, OnlyOf, Accepts, ReportsFor
<1>6. ResultsHold'
  BY <1>1, <1>5 DEF ResultsHold
<1>7. PairedUnlessOutlived'
  BY PairingKept
<1> QED
  BY <1>3, <1>4, <1>6, <1>7

\* A worker ends with a result that its files justify.
LEMMA SendHolds ==
  ASSUME ResultInv, NEW c \in Cases, worker[c] # "idle", OnlyOf(c),
         NEW s \in Outcomes \union {"error"}, NEW a \in BOOLEAN, Send(c, s, a),
         s # "error" =>
           /\ job[c].report # NoReport /\ Accepts(job[c].report)
           /\ reportFile'[c] \in ReportsFor(c, job[c].report)
           /\ obsFile'[c] = [run |-> ThisRun(c), status |-> s]
           /\ a = Eligible(s)
           /\ a => /\ accFile'[c].run = ThisRun(c)
                   /\ accFile'[c].report \in ReportsFor(c, job[c].report)
  PROVE  /\ WorkerIsRunning'
         /\ \A d \in Cases : WorkerHolds(d)'
         /\ ResultsHold'
         /\ PairedUnlessOutlived'
<1> DEFINE m == [case |-> c, status |-> s, report |-> job[c].report,
                 observation |-> ThisRun(c), accuracy |-> a]
<1>1. /\ worker' = [worker EXCEPT ![c] = "idle"] /\ job' = [job EXCEPT ![c] = NoJob]
      /\ channel' = IF pc = "collect" THEN Append(channel, m) ELSE channel
  BY DEF Send
<1>2. DOMAIN worker = Cases /\ DOMAIN job = Cases
  BY DEF ResultInv, SafetyInv, TypeOK
<1>3. WorkerIsRunning'
  BY <1>1, <1>2 DEF ResultInv, WorkerIsRunning, OnlyOf
<1>4. ASSUME NEW d \in Cases PROVE WorkerHolds(d)'
  <2>1. CASE d = c
    BY <1>1, <1>2, <2>1 DEF WorkerHolds
  <2>2. CASE d # c
    BY <1>1, <1>2, <2>2 DEF ResultInv, WorkerHolds, ThisRun, OnlyOf, Accepts, ReportsFor
  <2> QED
    BY <2>1, <2>2
<1>5. \A i \in DOMAIN channel : \A n \in {channel[i]} : ResultHolds(n)'
  BY ResultsAreOfOthers DEF ResultInv, ResultsHold, ResultHolds, OnlyOf, Accepts, ReportsFor
<1>6. \A n \in {m} : ResultHolds(n)'
  BY DEF ResultHolds, Accepts, ReportsFor, OnlyOf
<1>7. ResultsHold'
  <2>1. channel \in Seq(Message) /\ m \in Message
    <3>1. ThisRun(c) \in Runs
      BY DEF ResultInv, SafetyInv, TypeOK, ThisRun, Runs, CaseState
    <3> QED
      BY <3>1 DEF ResultInv, SafetyInv, TypeOK, Message
  <2> HIDE DEF m
  <2>2. CASE pc = "collect"
    <3>1. channel' = Append(channel, m)
      BY <1>1, <2>2
    <3>2. /\ DOMAIN channel = 1 .. Len(channel) /\ Len(channel) \in Nat
          /\ DOMAIN channel' = 1 .. (Len(channel) + 1)
          /\ channel'[Len(channel) + 1] = m
          /\ \A i \in DOMAIN channel : channel'[i] = channel[i]
      BY <2>1, <3>1, AppendProperties, LenProperties
    <3> QED
      BY <1>5, <1>6, <3>2 DEF ResultsHold
  <2>3. CASE pc # "collect"
    BY <1>1, <1>5, <2>3 DEF ResultsHold
  <2> QED
    BY <2>2, <2>3
<1>8. PairedUnlessOutlived'
  BY PairingKept
<1> QED
  BY <1>3, <1>4, <1>7, <1>8

LEMMA WorkerResult ==
  ASSUME ResultInv, NEW c \in Cases, Worker(c)
  PROVE  WorkerIsRunning' /\ (\A d \in Cases : WorkerHolds(d)') /\ ResultsHold' /\ PairedUnlessOutlived'
<1>1. /\ DOMAIN reportFile = Cases /\ DOMAIN obsFile = Cases /\ DOMAIN accFile = Cases
      /\ job[c].status \in Outcomes
  BY DEF ResultInv, SafetyInv, TypeOK
<1>2. WorkerHolds(c)
  BY DEF ResultInv
<1>3. CASE PrepareStatic(c) \/ VerifyReport(c)
  <2>1. worker[c] \in {"static", "doctor", "written"} /\ worker[c] # "idle" /\ UNCHANGED reportFile
    BY <1>3 DEF PrepareStatic, VerifyReport, artifacts
  <2>2. OnlyOf(c)
    BY <1>1, <1>3 DEF PrepareStatic, VerifyReport, OnlyOf, process, artifacts, doctors
  <2>3. CASE Send(c, "error", FALSE)
    BY <2>1, <2>2, <2>3, SendHolds
  <2>4. CASE Advance(c, "doctor", job[c])
    BY <2>1, <2>2, <2>4, AdvanceHolds DEF Steps
  <2>5. ASSUME Advance(c, "execute", [report |-> reportFile[c], status |-> job[c].status]),
               reportFile[c] # NoReport, Accepts(reportFile[c])
        PROVE  WorkerIsRunning' /\ (\A d \in Cases : WorkerHolds(d)') /\ ResultsHold' /\ PairedUnlessOutlived'
    <3> DEFINE j == [report |-> reportFile[c], status |-> job[c].status]
    <3>1. /\ Advance(c, "execute", j) /\ j.report # NoReport /\ Accepts(j.report)
          /\ reportFile'[c] \in ReportsFor(c, j.report)
      BY <2>1, <2>5 DEF ReportsFor
    <3> HIDE DEF j
    <3> QED
      BY <2>1, <2>2, <3>1, AdvanceHolds DEF Steps
  <2>6. worker[c] = "written" => reportFile[c] # NoReport
    BY <1>2 DEF WorkerHolds
  <2> QED
    BY <1>3, <2>3, <2>4, <2>5, <2>6 DEF PrepareStatic, VerifyReport
<1>7. CASE DoctorWrites(c)
  <2>1. worker[c] = "doctor" /\ worker[c] # "idle" /\ Advance(c, "written", job[c])
    BY <1>7 DEF DoctorWrites
  <2>2. OnlyOf(c)
    BY <1>1, <1>7 DEF DoctorWrites, OnlyOf, process, doctors
  <2>3. pc # "down"
    BY <2>1 DEF ResultInv, SafetyInv, Quiescent, Idle
  <2>4. reportFile'[c] # NoReport
    BY <1>1, <1>7, <2>3, AnalyzerAssumption DEF DoctorWrites, ResultInv, SafetyInv, TypeOK
  <2> QED
    BY <2>1, <2>2, <2>4, AdvanceHolds DEF Steps
<1>4. CASE Execute(c)
  <2>1. worker[c] = "execute" /\ worker[c] # "idle" /\ UNCHANGED reportFile
    BY <1>4 DEF Execute, artifacts
  <2>2. OnlyOf(c)
    BY <1>1, <1>4 DEF Execute, OnlyOf, process, artifacts, doctors
  <2>3. CASE Send(c, "error", FALSE)
    BY <2>1, <2>2, <2>3, SendHolds
  <2>4. ASSUME NEW o, Advance(c, "observe", [report |-> job[c].report, status |-> o])
        PROVE  WorkerIsRunning' /\ (\A d \in Cases : WorkerHolds(d)') /\ ResultsHold' /\ PairedUnlessOutlived'
    <3> DEFINE j == [report |-> job[c].report, status |-> o]
    <3>1. /\ Advance(c, "observe", j) /\ j.report # NoReport /\ Accepts(j.report)
          /\ reportFile'[c] \in ReportsFor(c, j.report)
      BY <1>2, <2>1, <2>4 DEF WorkerHolds
    <3> HIDE DEF j
    <3> QED
      BY <2>1, <2>2, <3>1, AdvanceHolds DEF Steps
  <2> QED
    BY <1>4, <2>3, <2>4 DEF Execute
<1>5. ASSUME NEW w \in Writes, WriteObservation(c, w)
      PROVE  WorkerIsRunning' /\ (\A d \in Cases : WorkerHolds(d)') /\ ResultsHold' /\ PairedUnlessOutlived'
  <2>1. worker[c] = "observe" /\ worker[c] # "idle" /\ UNCHANGED <<reportFile, accFile>>
    BY <1>5 DEF WriteObservation
  <2>2. OnlyOf(c)
    BY <1>1, <1>5 DEF WriteObservation, OnlyOf, process, doctors
  <2>3. /\ job[c].report # NoReport /\ Accepts(job[c].report)
        /\ reportFile'[c] \in ReportsFor(c, job[c].report)
    BY <1>2, <2>1 DEF WorkerHolds
  <2>4. w.ok => obsFile'[c] = [run |-> ThisRun(c), status |-> job[c].status]
    BY <1>1, <1>5 DEF WriteObservation, Writes
  <2>5. CASE Send(c, "error", FALSE)
    BY <2>1, <2>2, <2>5, SendHolds
  <2>6. CASE w.ok /\ Eligible(job[c].status)
    <3>1. Advance(c, "accuracy", job[c])
      BY <1>5, <2>6 DEF WriteObservation
    <3> QED
      BY <2>1, <2>2, <2>3, <2>4, <2>6, <3>1, AdvanceHolds DEF Steps
  <2>7. CASE w.ok /\ ~Eligible(job[c].status)
    <3>1. Send(c, job[c].status, FALSE)
      BY <1>5, <2>7 DEF WriteObservation
    <3>2. FALSE = Eligible(job[c].status)
      BY <2>7 DEF Eligible
    <3> QED
      BY <1>1, <2>1, <2>2, <2>3, <2>4, <2>7, <3>1, <3>2, SendHolds
  <2> QED
    BY <1>5, <2>5, <2>6, <2>7 DEF WriteObservation
<1>6. ASSUME NEW w \in Writes, EvaluateAccuracy(c, w)
      PROVE  WorkerIsRunning' /\ (\A d \in Cases : WorkerHolds(d)') /\ ResultsHold' /\ PairedUnlessOutlived'
  <2>1. worker[c] = "accuracy" /\ worker[c] # "idle" /\ UNCHANGED <<reportFile, obsFile>>
    BY <1>6 DEF EvaluateAccuracy
  <2>2. OnlyOf(c)
    BY <1>1, <1>6 DEF EvaluateAccuracy, OnlyOf, process, doctors
  <2>3. /\ job[c].report # NoReport /\ Accepts(job[c].report)
        /\ reportFile'[c] \in ReportsFor(c, job[c].report)
        /\ obsFile'[c] = [run |-> ThisRun(c), status |-> job[c].status]
        /\ Eligible(job[c].status)
    BY <1>2, <2>1 DEF WorkerHolds
  <2>4. w.ok => /\ accFile'[c].run = ThisRun(c)
                /\ accFile'[c].report \in ReportsFor(c, job[c].report)
    BY <1>1, <1>6, <2>1, <2>3 DEF EvaluateAccuracy, Writes
  <2>5. CASE Send(c, "error", FALSE)
    BY <2>1, <2>2, <2>5, SendHolds
  <2>6. CASE w.ok
    <3>1. Send(c, job[c].status, TRUE)
      BY <1>6, <2>6 DEF EvaluateAccuracy
    <3>2. TRUE = Eligible(job[c].status)
      BY <2>3 DEF Eligible
    <3> QED
      BY <1>1, <2>1, <2>2, <2>3, <2>4, <2>6, <3>1, <3>2, SendHolds
  <2> QED
    BY <1>6, <2>5, <2>6 DEF EvaluateAccuracy
<1> QED
  BY <1>3, <1>4, <1>5, <1>6, <1>7 DEF Worker

\* After an exit nobody works and nothing is awaited; the table decides.
LEMMA ExitedResult ==
  ASSUME Exited, PairedUnlessOutlived'
  PROVE  WorkerIsRunning' /\ (\A d \in Cases : WorkerHolds(d)') /\ ResultsHold' /\ PairedUnlessOutlived'
<1>1. /\ \A c \in Cases : worker'[c] = "idle"
      /\ channel' = <<>>
  BY DEF Exited, Idle
<1> QED
  BY <1>1 DEF WorkerIsRunning, WorkerHolds, ResultsHold

\* A table that gives settled cases the entries they have is paired like the
\* one on disk.
LEMMA TablePaired ==
  ASSUME PairedUnlessOutlived, UNCHANGED <<artifacts, doctors>>,
         \A c \in Cases : \/ stateFile'.cases[c].status \notin Terminal
                          \/ stateFile'.cases[c] = stateFile.cases[c]
  PROVE  PairedUnlessOutlived'
BY DEF PairedUnlessOutlived, artifacts, doctors

\* The entry that a result leaves, if it settles its case.
LEMMA SettledEntry ==
  ASSUME NEW e \in CaseState, NEW m \in Message, Settled(e, m).status \in Terminal
  PROVE  /\ m.status # "error"
         /\ Settled(e, m).status = observation_state(m.status)
         /\ Settled(e, m).observation = m.observation
         /\ Settled(e, m).report = m.report
         /\ Settled(e, m).accuracy = m.accuracy
BY DEF Settled, Entry, Terminal

\* Start takes back what was Running and leaves the rest as it is.
LEMMA StartPaired ==
  ASSUME ResultInv, NEW o, NEW a, NEW w \in Writes, Start(o, a, w)
  PROVE  PairedUnlessOutlived'
<1>1. /\ stateFile.cases \in [Cases -> CaseState] /\ Unwritten
  BY DEF ResultInv, SafetyInv, TypeOK
<1>2. \A c \in Cases : \/ stateFile'.cases[c].status \notin Terminal
                       \/ stateFile'.cases[c] = stateFile.cases[c]
  <2> SUFFICES ASSUME NEW c \in Cases
               PROVE  \/ stateFile'.cases[c].status \notin Terminal
                      \/ stateFile'.cases[c] = stateFile.cases[c]
    OBVIOUS
  <2>1. CASE w.effect /\ stateFile.exists
    <3>1. stateFile'.cases[c] = Recovered(stateFile.cases[c])
      BY <2>1 DEF Start, Publish
    <3> QED
      BY <1>1, <3>1 DEF Recovered, Entry, Terminal
  <2>2. CASE w.effect /\ ~stateFile.exists
    <3>1. stateFile'.cases[c] = Fresh
      BY <2>2 DEF Start, Publish
    <3> QED
      BY <3>1 DEF Fresh, Terminal
  <2>3. CASE ~w.effect
    BY <2>3 DEF Start, Publish
  <2> QED
    BY <2>1, <2>2, <2>3
<1> QED
  BY <1>2, TablePaired DEF ResultInv, Start

\* The cases of a batch are not settled.
LEMMA StartBatchKeeps ==
  ASSUME SafetyInv, NEW w \in Writes, StartBatch(w), NEW c \in Cases
  PROVE  \/ stateFile'.cases[c] = stateFile.cases[c]
         \/ /\ stateFile.cases[c].status \notin Terminal
            /\ stateFile'.cases[c].status = "running"
<1>1. state = stateFile.cases /\ state \in [Cases -> CaseState]
  BY DEF SafetyInv, TypeOK, MemoryIsDurable, StartBatch
<1>2. CASE w.effect /\ c \in Batch(state, opts)
  <2>1. Retryable(state[c], opts) /\ stateFile'.cases[c] = Marked(state[c])
    BY <1>2, BatchType DEF StartBatch, Publish
  <2> QED
    BY <1>1, <2>1, MarkedType DEF Retryable, Terminal
<1>3. CASE w.effect /\ c \notin Batch(state, opts)
  BY <1>1, <1>3 DEF StartBatch, Publish
<1>4. CASE ~w.effect
  BY <1>4 DEF StartBatch, Publish
<1> QED
  BY <1>2, <1>3, <1>4

\* A commit concerns one case, whose result is the first in the channel and
\* which is Running on disk.
LEMMA CommitCase ==
  ASSUME SafetyInv, NEW w \in Writes, Commit(w)
  PROVE  /\ Head(channel) \in Message /\ Head(channel) = channel[1] /\ 1 \in DOMAIN channel
         /\ state = stateFile.cases /\ state \in [Cases -> CaseState]
         /\ worker[Head(channel).case] = "idle"
         /\ stateFile.cases[Head(channel).case].status = "running"
         /\ \A c \in Cases \ {Head(channel).case} :
              stateFile'.cases[c] = stateFile.cases[c] /\ state'[c] = state[c]
<1>1. channel \in Seq(Message) /\ channel # <<>> /\ pc = "collect"
  BY DEF SafetyInv, TypeOK, Commit
<1>2. 1 \in DOMAIN channel /\ Head(channel) = channel[1] /\ channel[1] \in Message
  BY <1>1, HeadTailProperties, ElementOfSeq, LenProperties, EmptySeq
<1>3. Head(channel).case \in Cases
  BY <1>2 DEF Message
<1>4. state = stateFile.cases /\ state \in [Cases -> CaseState]
  BY <1>1 DEF SafetyInv, TypeOK, MemoryIsDurable
<1>5. worker[Head(channel).case] = "idle" /\ Head(channel).case \in pending
  BY <1>1, <1>2, <1>3 DEF SafetyInv, OneAttemptInFlight
<1>6. stateFile.cases[Head(channel).case].status = "running"
  BY <1>1, <1>3, <1>4, <1>5 DEF SafetyInv, PendingIsRunning
<1>7. \A c \in Cases \ {Head(channel).case} :
        stateFile'.cases[c] = stateFile.cases[c] /\ state'[c] = state[c]
  BY <1>3, <1>4 DEF Commit, Publish
<1> QED
  BY <1>2, <1>4, <1>5, <1>6, <1>7

LEMMA CommitResult ==
  ASSUME ResultInv, NEW w \in Writes, Commit(w)
  PROVE  WorkerIsRunning' /\ (\A d \in Cases : WorkerHolds(d)') /\ ResultsHold' /\ PairedUnlessOutlived'
<1> DEFINE m == Head(channel)
<1>1. /\ m \in Message /\ m = channel[1] /\ 1 \in DOMAIN channel
      /\ state = stateFile.cases /\ state \in [Cases -> CaseState]
      /\ worker[m.case] = "idle"
      /\ \A c \in Cases \ {m.case} :
           stateFile'.cases[c] = stateFile.cases[c] /\ state'[c] = state[c]
  BY CommitCase DEF ResultInv
<1>2. m.case \in Cases
  BY <1>1 DEF Message
<1>3. UNCHANGED <<worker, job, artifacts, orphans, outlived, boots>>
  BY DEF Commit, process, doctors
<1>4. WorkerIsRunning'
  BY <1>1, <1>3 DEF ResultInv, WorkerIsRunning
<1>5. \A d \in Cases : WorkerHolds(d)'
  BY <1>1, <1>3 DEF ResultInv, WorkerHolds, ThisRun, artifacts, Accepts, ReportsFor
<1>6. ResultsHold'
  <2>1. channel \in Seq(Message) /\ channel # <<>>
    BY DEF ResultInv, SafetyInv, TypeOK, Commit
  <2>2. \A i \in DOMAIN channel : \A n \in {channel[i]} : ResultHolds(n)'
    BY <1>3 DEF ResultInv, ResultsHold, ResultHolds, artifacts, Accepts, ReportsFor
  <2>3. CASE w.ok
    <3>1. channel' = Tail(channel)
      BY <2>3 DEF Commit
    <3>2. /\ DOMAIN channel' = 1 .. (Len(channel) - 1) /\ Len(channel) \in Nat
          /\ DOMAIN channel = 1 .. Len(channel)
          /\ \A i \in 1 .. (Len(channel) - 1) : channel'[i] = channel[i + 1]
      BY <2>1, <3>1, HeadTailProperties, LenProperties
    <3>3. \A i \in DOMAIN channel' : i + 1 \in DOMAIN channel /\ channel'[i] = channel[i + 1]
      BY <3>2
    <3> QED
      BY <2>2, <3>3 DEF ResultsHold
  <2>4. CASE ~w.ok
    <3>1. channel' = <<>>
      BY <2>4 DEF Commit
    <3> QED
      BY <3>1 DEF ResultsHold
  <2> QED
    BY <2>3, <2>4
<1>7. PairedUnlessOutlived'
  <2>1. CASE ~w.effect
    BY <1>3, <2>1 DEF Commit, Publish, ResultInv, PairedUnlessOutlived, artifacts
  <2>2. CASE w.effect
    <3>1. stateFile'.cases[m.case] = Settled(state[m.case], m)
      BY <1>1, <1>2, <2>2 DEF Commit, Publish
    <3>2. ResultHolds(m)
      BY <1>1 DEF ResultInv, ResultsHold
    <3>3. state[m.case] \in CaseState
      BY <1>1, <1>2
    <3> HIDE DEF m
    <3> SUFFICES ASSUME NEW c \in Cases, stateFile'.cases[c].status \in Terminal
                 PROVE  LET s == stateFile'.cases[c]
                            reports == {s.report} \union outlived[c]
                        IN
                          /\ obsFile'[c].run = s.observation
                          /\ observation_state(obsFile'[c].status) = s.status
                          /\ s.report # NoReport /\ (Expected = AnyAnalyzer \/ s.report = Expected)
                          /\ reportFile'[c] \in reports
                          /\ s.accuracy = Eligible(obsFile'[c].status)
                          /\ s.accuracy => /\ accFile'[c].run = s.observation
                                           /\ accFile'[c].report \in reports
      BY <1>3 DEF PairedUnlessOutlived
    <3>4. CASE c = m.case
      <4>1. /\ m.status # "error"
            /\ stateFile'.cases[c].status = observation_state(m.status)
            /\ stateFile'.cases[c].observation = m.observation
            /\ stateFile'.cases[c].report = m.report
            /\ stateFile'.cases[c].accuracy = m.accuracy
        BY <1>1, <3>1, <3>3, <3>4, SettledEntry
      <4> QED
        BY <1>3, <3>2, <3>4, <4>1 DEF ResultHolds, artifacts, Accepts, ReportsFor
    <3>5. CASE c # m.case
      BY <1>1, <1>3, <3>5 DEF ResultInv, PairedUnlessOutlived, artifacts
    <3> QED
      BY <3>4, <3>5
  <2> QED
    BY <2>1, <2>2
<1> QED
  BY <1>4, <1>5, <1>6, <1>7

LEMMA ResultStep == ResultInv /\ [Next]_vars => ResultInv'
<1> SUFFICES ASSUME ResultInv, [Next]_vars PROVE ResultInv'
  OBVIOUS
<1>0. SafetyInv'
  BY SafetyStep DEF ResultInv
<1> DEFINE Rest == OrphansOutlived /\ WorkerIsRunning /\ (\A c \in Cases : WorkerHolds(c)) /\ ResultsHold /\ PairedUnlessOutlived
<1>1. ASSUME NEW o \in Options, NEW a \in Analyzers, NEW w \in Writes, Start(o, a, w)
      PROVE  Rest'
  <2>1. PairedUnlessOutlived'
    BY <1>1, StartPaired
  <2>2. CASE w.ok
    <3>1. worker = Idle /\ channel = <<>>
      BY <1>1 DEF Start, ResultInv, SafetyInv, Quiescent
    <3>2. worker' = Idle /\ channel' = <<>>
      BY <1>1, <2>2, <3>1 DEF Start, Idle
    <3> QED
      BY <1>1, <2>1, <3>2 DEF WorkerIsRunning, WorkerHolds, ResultsHold, Idle, Start, doctors,
         ResultInv, OrphansOutlived
  <2>3. CASE ~w.ok
    BY <1>1, <2>1, <2>3, ExitedResult DEF Start, doctors, ResultInv, OrphansOutlived
  <2> QED
    BY <2>2, <2>3
<1>2. ASSUME NEW w \in Writes, StartBatch(w)
      PROVE  Rest'
  <2>1. \A c \in Cases : \/ stateFile'.cases[c] = stateFile.cases[c]
                         \/ /\ stateFile.cases[c].status \notin Terminal
                            /\ stateFile'.cases[c].status = "running"
    BY <1>2, StartBatchKeeps DEF ResultInv
  <2>2. PairedUnlessOutlived'
    BY <1>2, <2>1, TablePaired DEF ResultInv, StartBatch, Terminal
  <2>3. CASE w.ok
    <3>1. /\ channel' = <<>> /\ MemoryIsDurable' /\ PendingIsRunning' /\ pc' = "collect"
          /\ pending' = Batch(state, opts)
          /\ worker' = [c \in Cases |-> IF c \in Batch(state, opts) THEN "static" ELSE "idle"]
      BY <1>0, <1>2, <2>3 DEF StartBatch, ResultInv, SafetyInv, Quiescent
    <3>2. WorkerIsRunning'
      BY <3>1 DEF MemoryIsDurable, PendingIsRunning, WorkerIsRunning
    <3> QED
      BY <1>2, <2>2, <3>1, <3>2 DEF WorkerHolds, ResultsHold, StartBatch, doctors,
         ResultInv, OrphansOutlived
  <2>4. CASE ~w.ok
    BY <1>2, <2>2, <2>4, ExitedResult DEF StartBatch, doctors, ResultInv, OrphansOutlived
  <2> QED
    BY <2>3, <2>4
<1>3. ASSUME Finish \/ UNCHANGED vars
      PROVE  Rest'
  BY <1>3 DEF ResultInv, Finish, vars, process, artifacts, doctors, OrphansOutlived,
     WorkerIsRunning, WorkerHolds, ThisRun, Accepts, ReportsFor, ResultsHold, ResultHolds,
     PairedUnlessOutlived
<1>4. ASSUME NEW c \in Cases, Worker(c)
      PROVE  Rest'
  <2>1. UNCHANGED <<orphans, outlived>>
    BY <1>4 DEF Worker, PrepareStatic, DoctorWrites, VerifyReport, Execute, WriteObservation,
       EvaluateAccuracy, doctors
  <2> QED
    BY <1>4, <2>1, WorkerResult DEF ResultInv, OrphansOutlived
<1>5. ASSUME NEW w \in Writes, Commit(w)
      PROVE  Rest'
  BY <1>5, CommitResult DEF Commit, doctors, ResultInv, OrphansOutlived
<1>6. ASSUME Abandon \/ WriteReport
      PROVE  Rest'
  <2>1. Exited /\ UNCHANGED <<stateFile, artifacts, orphans, outlived>>
    BY <1>6 DEF Abandon, WriteReport, doctors
  <2>2. PairedUnlessOutlived' /\ OrphansOutlived'
    BY <2>1 DEF ResultInv, PairedUnlessOutlived, OrphansOutlived, artifacts
  <2> QED
    BY <2>1, <2>2, ExitedResult
<1>7. ASSUME Crash
      PROVE  Rest'
  <2>1. /\ Exited /\ UNCHANGED <<stateFile, reportFile, obsFile, accFile>>
        /\ outlived \in [Cases -> SUBSET Analyzers]
        /\ \A c \in Cases : outlived[c] \subseteq outlived'[c]
        /\ \A c \in Cases : worker[c] = "doctor" => analyzer \in outlived'[c]
    BY <1>7 DEF Crash, artifacts, ResultInv, SafetyInv, TypeOK
  <2>2. \A d \in orphans' : \/ d \in orphans
                           \/ /\ d.case \in Cases /\ worker[d.case] = "doctor"
                              /\ d.by = analyzer
    BY <1>7 DEF Crash
  <2>3. OrphansOutlived'
    BY <2>1, <2>2 DEF ResultInv, SafetyInv, TypeOK, Orphan, OrphansOutlived
  <2>4. PairedUnlessOutlived'
    BY <2>1 DEF ResultInv, PairedUnlessOutlived
  <2>5. Exited
    BY <2>1
  <2> QED
    BY <2>3, <2>4, <2>5, ExitedResult
<1>8. ASSUME NEW d \in orphans, OrphanWrites(d) \/ OrphanDies(d)
      PROVE  Rest'
  <2>1. /\ UNCHANGED <<stateFile, state, boots, worker, job, channel, obsFile, accFile, outlived>>
        /\ orphans' \subseteq orphans
        /\ reportFile \in [Cases -> Analyzers \union {NoReport}]
        /\ \A c \in Cases : \/ reportFile'[c] = reportFile[c]
                            \/ /\ reportFile'[c] \in outlived[c]
                               /\ reportFile'[c] # NoReport
    <3>1. d.by \in Analyzers /\ d.by # NoReport /\ d.case \in Cases /\ d.by \in outlived[d.case]
      BY AnalyzerAssumption DEF ResultInv, SafetyInv, TypeOK, Orphan, OrphansOutlived
    <3>2. reportFile \in [Cases -> Analyzers \union {NoReport}]
      BY DEF ResultInv, SafetyInv, TypeOK
    <3> QED
      BY <1>8, <3>1, <3>2 DEF OrphanWrites, OrphanDies, process, artifacts
  <2>2. OrphansOutlived' /\ WorkerIsRunning'
    BY <2>1 DEF ResultInv, OrphansOutlived, WorkerIsRunning
  <2>3. \A c \in Cases : WorkerHolds(c)'
    BY <2>1 DEF ResultInv, WorkerHolds, ThisRun, Accepts, ReportsFor
  <2>4. \A i \in DOMAIN channel : channel[i].case \in Cases
    <3>1. channel \in Seq(Message)
      BY DEF ResultInv, SafetyInv, TypeOK
    <3>2. \A i \in DOMAIN channel : channel[i] \in Message
      BY <3>1, ElementOfSeq, LenProperties
    <3> QED
      BY <3>2 DEF Message
  <2>5. ASSUME NEW i \in DOMAIN channel, NEW m, m = channel[i] PROVE ResultHolds(m)'
    <3>1. ResultHolds(m) /\ m.case \in Cases
      BY <2>4, <2>5 DEF ResultInv, ResultsHold
    <3> QED
      BY <2>1, <3>1 DEF ResultHolds, Accepts, ReportsFor
  <2>6. ResultsHold'
    BY <2>1, <2>5 DEF ResultsHold
  <2>7. PairedUnlessOutlived'
    BY <2>1 DEF ResultInv, PairedUnlessOutlived
  <2> QED
    BY <2>2, <2>3, <2>6, <2>7
<1> HIDE DEF Rest
<1>9. Rest'
  BY <1>1, <1>2, <1>3, <1>4, <1>5, <1>6, <1>7, <1>8 DEF Next, Coordinator
<1> QED
  BY <1>0, <1>9 DEF ResultInv, Rest

LEMMA InitResult == Init => ResultInv
<1> SUFFICES ASSUME Init PROVE ResultInv
  OBVIOUS
<1>1. SafetyInv
  BY InitSafety
<1>2. WorkerIsRunning /\ ResultsHold /\ \A c \in Cases : WorkerHolds(c)
  BY DEF Init, Idle, WorkerIsRunning, WorkerHolds, ResultsHold
<1>3. PairedUnlessOutlived /\ OrphansOutlived
  BY DEF Init, PairedUnlessOutlived, OrphansOutlived, Fresh, Terminal
<1> QED
  BY <1>1, <1>2, <1>3 DEF ResultInv

LEMMA AlwaysResultInv == Spec => []ResultInv
BY InitResult, ResultStep, PTL DEF Spec

\* The entry and the three files of a settled case are those of one attempt,
\* whatever was retried, interrupted, refused or lost, except that the report,
\* and what the accuracy was computed from, may be those of a Doctor that a kill
\* of its coordinator has left running.
THEOREM AlwaysPaired == Spec => []PairedUnlessOutlived
<1>1. ResultInv => PairedUnlessOutlived
  BY DEF ResultInv
<1> QED
  BY <1>1, AlwaysResultInv, PTL

\* No step of any process, an orphaned Doctor included, changes the entry, the
\* observation or the accuracy of a case that is settled on disk; its report is
\* replaced by such a Doctor only, once each.
THEOREM AlwaysFinal == Spec => SettledIsFinal
<1> DEFINE Keeps(c) ==
      stateFile.cases[c].status \in Terminal =>
        /\ stateFile'.cases[c] = stateFile.cases[c]
        /\ obsFile'[c] = obsFile[c]
        /\ accFile'[c] = accFile[c]
        /\ \/ reportFile'[c] = reportFile[c]
           \/ \E d \in orphans : /\ d.case = c
                                 /\ reportFile'[c] = d.by
                                 /\ orphans' = orphans \ {d}
<1>1. ASSUME ResultInv, Next, NEW c \in Cases PROVE Keeps(c)
  <2>1. /\ SafetyInv /\ stateFile.cases \in [Cases -> CaseState]
    BY <1>1 DEF ResultInv, SafetyInv, TypeOK
  <2>2. ASSUME NEW o \in Options, NEW a \in Analyzers, NEW w \in Writes, Start(o, a, w)
        PROVE  Keeps(c)
    <3>1. stateFile.cases[c].status \in Terminal => stateFile.exists
      BY <2>1 DEF SafetyInv, Unwritten, Fresh, Terminal
    <3>2. stateFile.cases[c].status \in Terminal => Recovered(stateFile.cases[c]) = stateFile.cases[c]
      BY DEF Recovered, Terminal
    <3>3. stateFile.cases[c].status \in Terminal => stateFile'.cases[c] = stateFile.cases[c]
      BY <2>2, <3>1, <3>2 DEF Start, Publish
    <3> QED
      BY <2>2, <3>3 DEF Start, artifacts
  <2>3. ASSUME NEW w \in Writes, StartBatch(w)
        PROVE  Keeps(c)
    <3>1. stateFile.cases[c].status \in Terminal => stateFile'.cases[c] = stateFile.cases[c]
      BY <2>1, <2>3, StartBatchKeeps
    <3> QED
      BY <2>3, <3>1 DEF StartBatch, artifacts
  <2>4. ASSUME NEW d \in Cases, Worker(d)
        PROVE  Keeps(c)
    <3>1. worker[d] # "idle" /\ UNCHANGED stateFile
      BY <2>4 DEF Worker, PrepareStatic, DoctorWrites, VerifyReport, Execute, WriteObservation,
         EvaluateAccuracy
    <3>2. stateFile.cases[c].status \in Terminal => c # d
      BY <1>1, <3>1 DEF ResultInv, WorkerIsRunning, Terminal
    <3>3. DOMAIN reportFile = Cases /\ DOMAIN obsFile = Cases /\ DOMAIN accFile = Cases
      BY <2>1 DEF SafetyInv, TypeOK
    <3>4. c # d => UNCHANGED <<reportFile[c], obsFile[c], accFile[c]>>
      BY <2>4, <3>3 DEF Worker, PrepareStatic, DoctorWrites, VerifyReport, Execute,
         WriteObservation, EvaluateAccuracy, artifacts
    <3> QED
      BY <3>1, <3>2, <3>4
  <2>5. ASSUME NEW w \in Writes, Commit(w)
        PROVE  Keeps(c)
    <3>1. stateFile.cases[c].status \in Terminal => c # Head(channel).case
      BY <2>1, <2>5, CommitCase DEF Terminal
    <3>2. c # Head(channel).case => stateFile'.cases[c] = stateFile.cases[c]
      BY <2>1, <2>5, CommitCase
    <3> QED
      BY <2>5, <3>1, <3>2 DEF Commit, artifacts
  <2>6. CASE Finish \/ Abandon \/ WriteReport \/ Crash
    BY <2>6 DEF Finish, Abandon, WriteReport, Crash, artifacts
  <2>7. ASSUME NEW d \in orphans, OrphanWrites(d) \/ OrphanDies(d)
        PROVE  Keeps(c)
    <3>1. UNCHANGED <<stateFile, obsFile, accFile>> /\ orphans' = orphans \ {d}
      BY <2>7 DEF OrphanWrites, OrphanDies, artifacts
    <3>2. DOMAIN reportFile = Cases
      BY <2>1 DEF SafetyInv, TypeOK
    <3>3. reportFile'[c] = reportFile[c] \/ (d.case = c /\ reportFile'[c] = d.by)
      BY <2>7, <3>2 DEF OrphanWrites, OrphanDies, artifacts
    <3> QED
      BY <3>1, <3>3
  <2> QED
    BY <1>1, <2>2, <2>3, <2>4, <2>5, <2>6, <2>7 DEF Next, Coordinator
<1>2. ResultInv /\ [Next]_vars => [\A c \in Cases : Keeps(c)]_vars
  BY <1>1
<1> QED
  BY <1>2, AlwaysResultInv, PTL DEF Spec, SettledIsFinal

-----------------------------------------------------------------------------
(* A returned table has used up the budget.                                 *)

\* The least of the retryable cases is always in the batch.
LEMMA BatchProgress ==
  ASSUME NEW table, NEW o \in [maxAttempts : Nat, maxParallel : Nat], Batch(table, o) = {}
  PROVE  \A c \in Cases : ~Retryable(table[c], o)
<1> DEFINE ready == {c \in Cases : Retryable(table[c], o)}
<1> SUFFICES ASSUME ready # {} PROVE FALSE
  OBVIOUS
<1>0. IsWellFoundedOn({p \in Nat \X Nat : p[1] < p[2]}, Nat)
  BY NatLessThanWellFounded DEF OpToRel
<1>1. PICK c \in ready : \A d \in ready : ~(<<d, c>> \in {p \in Nat \X Nat : p[1] < p[2]})
  BY <1>0, CasesAssumption, WFMin
<1>2. \A d \in ready : ~(d < c)
  BY <1>1, CasesAssumption
<1>3. {d \in ready : d < c} = {}
  BY <1>2
<1>4. Cardinality({d \in ready : d < c}) = 0
  BY <1>3, FS_EmptySet
<1>5. 0 < AtLeastOne(o.maxParallel)
  BY DEF AtLeastOne
<1>6. c \in Batch(table, o)
  BY <1>4, <1>5 DEF Batch
<1> QED
  BY <1>6

\* run_campaign returns only when no case is Running and none that could be
\* tried again is left.
THEOREM AlwaysExhausted == Spec => []FinishedIsExhausted
<1>1. Init => FinishedIsExhausted
  BY DEF Init, FinishedIsExhausted
<1>2. SafetyInv /\ FinishedIsExhausted /\ [Next]_vars => FinishedIsExhausted'
  <2> SUFFICES ASSUME SafetyInv, FinishedIsExhausted, [Next]_vars, pc' = "finished"
               PROVE  FinishedIsExhausted'
    BY DEF FinishedIsExhausted
  <2>1. CASE Finish
    <3>1. /\ opts \in [maxAttempts : Nat, maxParallel : Nat] /\ Batch(state, opts) = {}
          /\ pending = {} /\ pc = "select" /\ UNCHANGED <<state, opts>>
      BY <2>1 DEF SafetyInv, TypeOK, Finish, Quiescent, process
    <3>2. \A c \in Cases : ~Retryable(state[c], opts)
      BY <3>1, BatchProgress
    <3>3. \A c \in Cases : state[c].status \in Statuses /\ state[c].attempts \in Nat
      BY DEF SafetyInv, TypeOK, CaseState
    <3>4. \A c \in Cases : state[c].status # "running"
      BY <3>1 DEF SafetyInv, PendingIsRunning
    <3>5. AtLeastOne(opts.maxAttempts) \in Nat
      BY <3>1 DEF AtLeastOne
    <3> QED
      BY <3>1, <3>2, <3>3, <3>4, <3>5 DEF FinishedIsExhausted, Retryable, Statuses
  <2>2. CASE pc = "finished" /\ UNCHANGED <<pc, state, opts>>
    BY <2>2 DEF FinishedIsExhausted
  <2>3. Finish \/ (pc = "finished" /\ UNCHANGED <<pc, state, opts>>)
    BY DEF Next, Coordinator, Worker, Start, StartBatch, Commit, Abandon, WriteReport, Crash,
       Exited, PrepareStatic, DoctorWrites, VerifyReport, Execute, WriteObservation,
       EvaluateAccuracy, OrphanWrites, OrphanDies, process, vars
  <2> QED
    BY <2>1, <2>2, <2>3
<1>3. Spec => []SafetyInv
  BY InitSafety, SafetyStep, PTL DEF Spec
<1> QED
  BY <1>1, <1>2, <1>3, PTL DEF Spec

-----------------------------------------------------------------------------
(* The options of a running process are among those the campaign allows.    *)

OptionsInv == pc # "down" => opts \in Options

LEMMA OptionsStep == OptionsInv /\ [Next]_vars => OptionsInv'
<1> SUFFICES ASSUME OptionsInv, [Next]_vars PROVE OptionsInv'
  OBVIOUS
<1>1. ASSUME NEW o \in Options, NEW a \in Analyzers, NEW w \in Writes, Start(o, a, w)
      PROVE  OptionsInv'
  BY <1>1 DEF Start, Exited, OptionsInv
<1>2. ASSUME NEW w \in Writes, StartBatch(w) PROVE OptionsInv'
  BY <1>2 DEF StartBatch, Exited, OptionsInv
<1>3. ASSUME NEW c \in Cases, Worker(c) PROVE OptionsInv'
  BY <1>3 DEF Worker, PrepareStatic, DoctorWrites, VerifyReport, Execute, WriteObservation,
     EvaluateAccuracy, process, OptionsInv
<1>4. ASSUME NEW w \in Writes, Commit(w) PROVE OptionsInv'
  BY <1>4 DEF Commit, process, OptionsInv
<1>5. CASE Finish
  BY <1>5 DEF Finish, process, OptionsInv
<1>6. CASE Abandon \/ WriteReport \/ Crash
  BY <1>6 DEF Abandon, WriteReport, Crash, Exited, OptionsInv
<1>7. CASE UNCHANGED vars \/ \E d \in orphans : OrphanWrites(d) \/ OrphanDies(d)
  BY <1>7 DEF vars, OrphanWrites, OrphanDies, process, OptionsInv
<1> QED
  BY <1>1, <1>2, <1>3, <1>4, <1>5, <1>6, <1>7 DEF Next, Coordinator

-----------------------------------------------------------------------------
(* Steps map to steps.                                                      *)

Abstract == [c \in Cases |-> LedgerEntry(stateFile.cases[c])]

LEMMA InitRefines == Init => Ledger!Init
BY DEF Init, Ledger!Init, LedgerEntry, Fresh

LEMMA StepRefines ==
  SafetyInv /\ OptionsInv /\ [Next]_vars => [Ledger!Next]_Abstract
<1> SUFFICES ASSUME SafetyInv, OptionsInv, [Next]_vars
             PROVE  Ledger!Next \/ Abstract' = Abstract
  BY DEF Abstract
<1>0. ASSUME stateFile' = stateFile PROVE Abstract' = Abstract
  BY <1>0 DEF Abstract
<1>1. ASSUME NEW o \in Options, NEW a \in Analyzers, NEW w \in Writes, Start(o, a, w)
      PROVE  Ledger!Next \/ Abstract' = Abstract
  <2> DEFINE table == IF stateFile.exists
                      THEN [c \in Cases |-> Recovered(stateFile.cases[c])]
                      ELSE [c \in Cases |-> Fresh]
  <2>1. /\ stateFile.cases \in [Cases -> CaseState] /\ commits \in [Cases -> Nat]
        /\ ~stateFile.exists => stateFile.cases = [c \in Cases |-> Fresh]
    BY DEF SafetyInv, TypeOK, Unwritten
  <2>2. ASSUME NEW c \in Cases, stateFile.cases[c].status = "running"
        PROVE  table[c].status = "pending"
               /\ table[c].attempts = stateFile.cases[c].attempts - 1
    <3>1. stateFile.exists
      BY <2>1, <2>2 DEF Fresh
    <3>2. stateFile.cases[c].attempts = commits[c] + 1 /\ commits[c] \in Nat
      BY <2>1, <2>2 DEF SafetyInv, BudgetAccounting
    <3>3. stateFile.cases[c].attempts # 0
      BY <3>2
    <3> QED
      BY <2>2, <3>1, <3>3 DEF Recovered, Entry
  <2>3. ASSUME NEW c \in Cases, stateFile.cases[c].status # "running"
        PROVE  table[c] = stateFile.cases[c]
    BY <2>1, <2>3 DEF Recovered
  <2> HIDE DEF table
  <2>4. w.effect => stateFile' = [exists |-> TRUE, cases |-> table]
    BY <1>1 DEF Start, Publish, table
  <2>5. ~w.effect => stateFile' = stateFile
    BY <1>1 DEF Start, Publish
  <2>6. w.effect => Ledger!Reclaim
    BY <2>2, <2>3, <2>4 DEF Ledger!Reclaim, Ledger!Running, LedgerEntry
  <2> QED
    BY <1>0, <2>5, <2>6 DEF Ledger!Next
<1>2. ASSUME NEW w \in Writes, StartBatch(w)
      PROVE  Ledger!Next \/ Abstract' = Abstract
  <2> DEFINE batch == Batch(state, opts)
             table == [c \in Cases |-> IF c \in batch THEN Marked(state[c]) ELSE state[c]]
  <2>1. state = stateFile.cases /\ \A c \in Cases : stateFile.cases[c].status # "running"
    BY <1>2 DEF StartBatch, SafetyInv, MemoryIsDurable, PendingIsRunning, Quiescent
  <2>2. stateFile.cases \in [Cases -> CaseState]
    BY DEF SafetyInv, TypeOK
  <2>3. opts \in Options /\ AtLeastOne(opts.maxAttempts) <= Budget /\ Budget \in Nat
        /\ AtLeastOne(opts.maxAttempts) \in Nat
    <3>1. opts \in Options
      BY <1>2 DEF StartBatch, OptionsInv
    <3> QED
      BY <3>1, BudgetAssumption, OptionsAssumption DEF AtLeastOne
  <2>4. /\ batch \subseteq Cases
        /\ \A c \in batch : /\ stateFile.cases[c].status \in {"pending", "infrastructure-failure"}
                            /\ stateFile.cases[c].attempts < Budget
    <3>1. batch \subseteq Cases /\ \A c \in batch : Retryable(stateFile.cases[c], opts)
      BY <2>1, BatchType
    <3>2. \A c \in batch : stateFile.cases[c].attempts \in Nat
      BY <2>2, <3>1 DEF CaseState
    <3> QED
      BY <2>3, <3>1, <3>2 DEF Retryable
  <2>5. \A c \in Cases : c \in batch => /\ table[c].status = "running"
                                        /\ table[c].attempts = stateFile.cases[c].attempts + 1
    BY <2>1, <2>2, MarkedType
  <2>6. \A c \in Cases : c \notin batch => table[c] = stateFile.cases[c]
    BY <2>1
  <2>7. w.effect => stateFile' = [exists |-> TRUE, cases |-> table]
    BY <1>2 DEF StartBatch, Publish
  <2>8. ~w.effect => stateFile' = stateFile
    BY <1>2 DEF StartBatch, Publish
  <2> HIDE DEF batch, table
  <2>9. w.effect => Ledger!Begin(batch)
    BY <2>1, <2>4, <2>5, <2>6, <2>7 DEF Ledger!Begin, Ledger!Running, LedgerEntry
  <2> QED
    BY <1>0, <2>4, <2>8, <2>9 DEF Ledger!Next
<1>3. ASSUME NEW w \in Writes, Commit(w)
      PROVE  Ledger!Next \/ Abstract' = Abstract
  <2> DEFINE m     == Head(channel)
             table == [state EXCEPT ![m.case] = Settled(@, m)]
  <2>1. /\ pc = "collect" /\ state = stateFile.cases
        /\ channel \in Seq(Message) /\ channel # <<>>
        /\ state \in [Cases -> CaseState]
    BY <1>3 DEF Commit, SafetyInv, MemoryIsDurable, TypeOK
  <2>2. m \in Message /\ m.case \in Cases /\ m.status \in Outcomes \union {"error"}
    <3>1. m \in Message
      BY <2>1, HeadTailProperties
    <3> QED
      BY <3>1 DEF Message
  <2>3. \E i \in DOMAIN channel : channel[i].case = m.case
    <3>1. m = channel[1] /\ DOMAIN channel = 1 .. Len(channel) /\ Len(channel) \in Nat /\ Len(channel) # 0
      BY <2>1, HeadTailProperties, LenProperties, EmptySeq
    <3> QED
      BY <3>1
  <2>4. state[m.case].status = "running"
    BY <2>1, <2>2, <2>3 DEF SafetyInv, OneAttemptInFlight, PendingIsRunning
  <2>5. /\ table[m.case].status \in Terminal \union {"infrastructure-failure"}
        /\ table[m.case].attempts = state[m.case].attempts
        /\ \A c \in Cases \ {m.case} : table[c] = state[c]
    BY <2>1, <2>2 DEF Settled, Entry, Terminal, observation_state
  <2>6. w.effect => stateFile' = [exists |-> TRUE, cases |-> table]
    BY <1>3 DEF Commit, Publish
  <2>7. ~w.effect => stateFile' = stateFile
    BY <1>3 DEF Commit, Publish
  <2> HIDE DEF m, table
  <2>8. w.effect => Ledger!Settle(m.case, table[m.case].status)
    <3> SUFFICES ASSUME w.effect
                 PROVE  Ledger!Settle(m.case, table[m.case].status)
      OBVIOUS
    <3>1. Abstract' = [c \in Cases |-> LedgerEntry(table[c])]
      BY <2>6 DEF Abstract
    <3>2. \A c \in Cases \ {m.case} : LedgerEntry(table[c]) = Abstract[c]
      BY <2>1, <2>5 DEF Abstract
    <3>3. LedgerEntry(table[m.case]) =
            [status |-> table[m.case].status, attempts |-> Abstract[m.case].attempts]
      BY <2>1, <2>2, <2>5 DEF Abstract, LedgerEntry
    <3>4. Abstract[m.case].status = "running"
      BY <2>1, <2>2, <2>4 DEF Abstract, LedgerEntry
    <3>5. Abstract' = [Abstract EXCEPT ![m.case] = [status |-> table[m.case].status,
                                                    attempts |-> Abstract[m.case].attempts]]
      BY <2>2, <3>1, <3>2, <3>3 DEF Abstract
    <3> QED
      BY <3>4, <3>5 DEF Ledger!Settle, Ledger!Running, Abstract
  <2> QED
    BY <1>0, <2>2, <2>5, <2>7, <2>8 DEF Ledger!Next
<1>4. ASSUME NEW c \in Cases, Worker(c) PROVE stateFile' = stateFile
  BY <1>4 DEF Worker, PrepareStatic, DoctorWrites, VerifyReport, Execute, WriteObservation,
     EvaluateAccuracy
<1>5. CASE \/ Finish \/ Abandon \/ WriteReport \/ Crash \/ UNCHANGED vars
           \/ \E d \in orphans : OrphanWrites(d) \/ OrphanDies(d)
  BY <1>0, <1>5 DEF Finish, Abandon, WriteReport, Crash, OrphanWrites, OrphanDies, vars
<1> QED
  BY <1>0, <1>1, <1>2, <1>3, <1>4, <1>5 DEF Next, Coordinator

\* The state file of any campaign, however its processes are interrupted,
\* behaves as the ledger does.
THEOREM Refinement == Spec => ImplementsLedger
<1>1. Init => Ledger!Init /\ SafetyInv /\ OptionsInv
  BY InitRefines, InitSafety DEF Init, OptionsInv
<1>2. SafetyInv /\ [Next]_vars => SafetyInv'
  BY SafetyStep
<1>3. OptionsInv /\ [Next]_vars => OptionsInv'
  BY OptionsStep
<1>4. SafetyInv /\ OptionsInv /\ [Next]_vars => [Ledger!Next]_Abstract
  BY StepRefines
<1> QED
  BY <1>1, <1>2, <1>3, <1>4, PTL DEF Spec, ImplementsLedger, Ledger!Spec, Abstract
=============================================================================
