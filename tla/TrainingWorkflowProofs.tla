----------------------- MODULE TrainingWorkflowProofs -----------------------
(***************************************************************************)
(* Theorems about the training pipeline, for any number of workflows, runs *)
(* and reports, any limit of attempts and any thresholds.                  *)
(***************************************************************************)
EXTENDS TrainingWorkflow, TLAPS

-----------------------------------------------------------------------------
(* The inductive invariant.                                                *)

\* What a run has left behind when its task has come to a given stage.
RunsInOrder ==
    \A r \in Runs :
        /\ run[r].status = "none" => task[r] = "none" /\ bundle[r].state = "none"
        /\ task[r] \in {"train", "bundle"} =>
              bundle[r].state = "none" /\ run[r].status = "running"
        /\ task[r] = "bundle" => r \in models
        /\ task[r] \in {"record", "raised"} => bundle[r].state # "none"

\* The same for a report: what is stored, and the policy it was made with.
Made(b) == report[b].asked # NoRun /\ HasRow(report[b].asked) => job[b].uses = report[b].asked

ReportsInOrder ==
    \A b \in Reports :
        /\ report[b].asked # NoRun => bundle[report[b].asked].state # "none"
        /\ report[b].status = "none" => job[b].pc = "none"
        /\ report[b].status = "completed" => job[b].pc \in {"none", "raised"}
        /\ job[b].pc \in {"charts", "results", "record", "raised"} => Made(b)
        /\ job[b].pc \in {"results", "record", "raised"} /\ job[b].drawn => "charts" \in files[b]
        /\ job[b].pc \in {"record", "raised"} => "results" \in files[b]

\* A workflow that is polling or promoting has a run.
FlowsInOrder ==
    \A w \in Flows :
        /\ flow[w].kind = "backtest" => flow[w].pc \notin {"start", "poll", "promote", "notify"}
        /\ flow[w].pc \in {"poll", "promote"} => flow[w].run # NoRun
        /\ flow[w].promoted => flow[w].run # NoRun /\ flow[w].pc \notin {"start", "poll"}

IInv ==
    /\ TypeOK
    /\ RunsInOrder /\ PolicyHasModel
    /\ ReportsInOrder /\ ReportIsTrue
    /\ FlowsInOrder /\ WorkflowIsTrue

-----------------------------------------------------------------------------
LEMMA InitIInv == Init => IInv
  <1> SUFFICES ASSUME Init PROVE IInv
    OBVIOUS
  <1>0. \A k \in {"train", "backtest"}, t \in Int : NewFlow(k, t) \in FlowType
    BY DEF NewFlow, FlowType
  <1>1. \A w \in Flows : \E k \in {"train", "backtest"}, t \in Int : flow[w] = NewFlow(k, t)
    BY PipelineAssumption DEF Init
  <1>2. TypeOK
    <2>1. flow \in [Flows -> FlowType]
      BY <1>0, PipelineAssumption DEF Init
    <2> QED
      BY <2>1 DEF Init, TypeOK, RunType, Stages, BundleType, ReportType, JobType, IdleJob
  <1>3. RunsInOrder /\ PolicyHasModel /\ ReportsInOrder /\ ReportIsTrue
    BY DEF Init, RunsInOrder, PolicyHasModel, ReportsInOrder, ReportIsTrue, IdleJob
  <1>4. FlowsInOrder /\ WorkflowIsTrue
    BY <1>1 DEF Init, FlowsInOrder, WorkflowIsTrue, NewFlow
  <1> QED BY <1>2, <1>3, <1>4 DEF IInv

\* Types of the rows a step changes.
LEMMA ChangedRows ==
    /\ \A x \in RunType : [x EXCEPT !.status = "running"] \in RunType
    /\ \A s \in {"completed", "failed"}, a \in BOOLEAN :
          [status |-> s, artifact |-> a] \in RunType
    /\ \A x \in BundleType :
          /\ \A s \in {"held", "approved"} : [x EXCEPT !.state = s] \in BundleType
          /\ [x EXCEPT !.promoted = TRUE] \in BundleType
    /\ [state |-> "deleted", promoted |-> FALSE] \in BundleType
    /\ \A r \in Runs \cup {NoRun} :
          [status |-> "running", asked |-> r, charts |-> FALSE] \in ReportType
    /\ \A x \in ReportType, s \in {"completed", "failed"}, d \in BOOLEAN :
          [x EXCEPT !.status = s, !.charts = d] \in ReportType
    /\ \A x \in JobType,
          pc \in {"none", "policy", "charts", "results", "record", "raised"} :
             /\ [x EXCEPT !.pc = pc] \in JobType
             /\ \A d \in BOOLEAN : [x EXCEPT !.pc = pc, !.drawn = d] \in JobType
             /\ \A r \in Runs \cup {NoRun} : [x EXCEPT !.pc = pc, !.uses = r] \in JobType
  BY DEF RunType, BundleType, ReportType, JobType

LEMMA ChangedFlows ==
    ASSUME NEW x \in FlowType
    PROVE  /\ x.attempt + 1 \in Nat
           /\ \A pc \in {"start", "poll", "backtest", "promote", "notify", "complain",
                          "completed", "failed"},
                 r \in Runs \cup {NoRun}, p \in BOOLEAN :
                /\ [x EXCEPT !.pc = pc, !.attempt = 0] \in FlowType
                /\ [x EXCEPT !.pc = pc, !.attempt = 0, !.run = r] \in FlowType
                /\ [x EXCEPT !.pc = pc, !.attempt = 0, !.promoted = p] \in FlowType
                /\ [x EXCEPT !.pc = pc, !.attempt = 0, !.run = r, !.promoted = p] \in FlowType
           /\ [x EXCEPT !.attempt = x.attempt + 1] \in FlowType
  <1>1. x.attempt \in Nat
    BY DEF FlowType
  <1>2. x.attempt + 1 \in Nat
    BY <1>1
  <1>3. \A n \in Nat : [x EXCEPT !.attempt = n] \in FlowType
    BY DEF FlowType
  <1>4. ASSUME NEW pc \in {"start", "poll", "backtest", "promote", "notify", "complain",
                        "completed", "failed"},
               NEW r \in Runs \cup {NoRun}, NEW p \in BOOLEAN
        PROVE  /\ [x EXCEPT !.pc = pc, !.attempt = 0] \in FlowType
               /\ [x EXCEPT !.pc = pc, !.attempt = 0, !.run = r] \in FlowType
               /\ [x EXCEPT !.pc = pc, !.attempt = 0, !.promoted = p] \in FlowType
               /\ [x EXCEPT !.pc = pc, !.attempt = 0, !.run = r, !.promoted = p] \in FlowType
    <2>1. [x EXCEPT !.pc = pc, !.attempt = 0] \in FlowType
      BY DEF FlowType
    <2>2. [x EXCEPT !.pc = pc, !.attempt = 0, !.run = r] \in FlowType
      BY DEF FlowType
    <2>3. [x EXCEPT !.pc = pc, !.attempt = 0, !.promoted = p] \in FlowType
      BY DEF FlowType
    <2>4. [x EXCEPT !.pc = pc, !.attempt = 0, !.run = r, !.promoted = p] \in FlowType
      BY DEF FlowType
    <2> QED BY <2>1, <2>2, <2>3, <2>4
  <1> QED BY <1>2, <1>3, <1>4

-----------------------------------------------------------------------------
(* The steps of each service and what they may disturb.                    *)

RunInv    == TypeOK /\ RunsInOrder /\ PolicyHasModel
ReportInv == ReportsInOrder /\ ReportIsTrue
FlowInv   == FlowsInOrder /\ WorkflowIsTrue

\* rl-train keeps its rows, task and files in order.
LEMMA TrainSteps ==
    ASSUME IInv, NEW r \in Runs,
           \/ Begin(r) \/ PutModel(r) \/ SavePolicyBundle(r) \/ CompleteRun(r) \/ FailRun(r)
    PROVE  /\ run' \in [Runs -> RunType] /\ task' \in [Runs -> Stages]
           /\ models' \subseteq Runs /\ bundle' \in [Runs -> BundleType]
           /\ RunsInOrder' /\ PolicyHasModel'
           /\ \A q \in Runs :
                 /\ bundle[q].state # "none" => bundle'[q] = bundle[q]
                 /\ bundle'[q].promoted = bundle[q].promoted
  <1> USE DEF IInv
  <1>1. CASE Begin(r)
    <2>1. /\ run' \in [Runs -> RunType] /\ task' \in [Runs -> Stages]
          /\ models' \subseteq Runs /\ bundle' \in [Runs -> BundleType]
      BY <1>1, ChangedRows DEF Begin, Fresh, TypeOK, Stages
    <2>2. RunsInOrder'
      BY <1>1 DEF Begin, Fresh, TypeOK, RunsInOrder, RunType, BundleType, Stages
    <2>3. PolicyHasModel'
      BY <1>1 DEF Begin, Fresh, TypeOK, RunsInOrder, PolicyHasModel, RunType, BundleType, Stages
    <2>4. \A q \in Runs :
             /\ bundle[q].state # "none" => bundle'[q] = bundle[q]
             /\ bundle'[q].promoted = bundle[q].promoted
      BY <1>1 DEF Begin, Fresh, TypeOK, RunsInOrder, BundleType
    <2> QED BY <2>1, <2>2, <2>3, <2>4
  <1>2. CASE PutModel(r)
    <2>1. /\ run' \in [Runs -> RunType] /\ task' \in [Runs -> Stages]
          /\ models' \subseteq Runs /\ bundle' \in [Runs -> BundleType]
      BY <1>2, ChangedRows DEF PutModel, Step, TypeOK, Stages
    <2>2. RunsInOrder'
      BY <1>2 DEF PutModel, Step, TypeOK, RunsInOrder, RunType, BundleType, Stages
    <2>3. PolicyHasModel'
      BY <1>2 DEF PutModel, Step, TypeOK, RunsInOrder, PolicyHasModel, RunType, BundleType, Stages
    <2>4. \A q \in Runs :
             /\ bundle[q].state # "none" => bundle'[q] = bundle[q]
             /\ bundle'[q].promoted = bundle[q].promoted
      BY <1>2 DEF PutModel, Step, TypeOK, RunsInOrder, BundleType
    <2> QED BY <2>1, <2>2, <2>3, <2>4
  <1>3. CASE SavePolicyBundle(r)
    <2>1. /\ run' \in [Runs -> RunType] /\ task' \in [Runs -> Stages]
          /\ models' \subseteq Runs /\ bundle' \in [Runs -> BundleType]
      BY <1>3, ChangedRows DEF SavePolicyBundle, Step, TypeOK, Stages
    <2>2. RunsInOrder'
      BY <1>3 DEF SavePolicyBundle, Step, TypeOK, RunsInOrder, RunType, BundleType, Stages
    <2>3. PolicyHasModel'
      BY <1>3 DEF SavePolicyBundle, Step, TypeOK, RunsInOrder, PolicyHasModel, RunType, BundleType, Stages
    <2>4. \A q \in Runs :
             /\ bundle[q].state # "none" => bundle'[q] = bundle[q]
             /\ bundle'[q].promoted = bundle[q].promoted
      BY <1>3 DEF SavePolicyBundle, Step, TypeOK, RunsInOrder, BundleType
    <2> QED BY <2>1, <2>2, <2>3, <2>4
  <1>4. CASE CompleteRun(r)
    <2>1. /\ run' \in [Runs -> RunType] /\ task' \in [Runs -> Stages]
          /\ models' \subseteq Runs /\ bundle' \in [Runs -> BundleType]
      BY <1>4, ChangedRows DEF CompleteRun, Step, TypeOK, Stages
    <2>2. RunsInOrder'
      BY <1>4 DEF CompleteRun, Step, TypeOK, RunsInOrder, RunType, BundleType, Stages
    <2>3. PolicyHasModel'
      BY <1>4 DEF CompleteRun, Step, TypeOK, RunsInOrder, PolicyHasModel, RunType, BundleType, Stages
    <2>4. \A q \in Runs :
             /\ bundle[q].state # "none" => bundle'[q] = bundle[q]
             /\ bundle'[q].promoted = bundle[q].promoted
      BY <1>4 DEF CompleteRun, Step, TypeOK, RunsInOrder, BundleType
    <2> QED BY <2>1, <2>2, <2>3, <2>4
  <1>5. CASE FailRun(r)
    <2>1. /\ run' \in [Runs -> RunType] /\ task' \in [Runs -> Stages]
          /\ models' \subseteq Runs /\ bundle' \in [Runs -> BundleType]
      BY <1>5, ChangedRows DEF FailRun, Step, TypeOK, Stages
    <2>2. RunsInOrder'
      BY <1>5 DEF FailRun, Step, TypeOK, RunsInOrder, RunType, BundleType, Stages
    <2>3. PolicyHasModel'
      BY <1>5 DEF FailRun, Step, TypeOK, RunsInOrder, PolicyHasModel, RunType, BundleType, Stages
    <2>4. \A q \in Runs :
             /\ bundle[q].state # "none" => bundle'[q] = bundle[q]
             /\ bundle'[q].promoted = bundle[q].promoted
      BY <1>5 DEF FailRun, Step, TypeOK, RunsInOrder, BundleType
    <2> QED BY <2>1, <2>2, <2>3, <2>4
  <1> QED BY <1>1, <1>2, <1>3, <1>4, <1>5

\* What a report or a workflow knows of a policy survives the steps that leave
\* a policy's row, and those that change or delete it.
LEMMA ReportsKeep ==
    ASSUME IInv, UNCHANGED backtestVars,
           \A q \in Runs : bundle[q].state # "none" =>
               bundle'[q].state # "none" /\ (HasRow(q)' => HasRow(q))
    PROVE  ReportsInOrder' /\ ReportIsTrue'
  <1> USE DEF IInv
  <1>1. \A b \in Reports : report[b].asked \in Runs \cup {NoRun}
    BY DEF TypeOK, ReportType
  <1>2. ASSUME NEW b \in Reports, Made(b) PROVE Made(b)'
    BY <1>1, <1>2 DEF Made, backtestVars, ReportsInOrder
  <1>3. ReportsInOrder'
    BY <1>1, <1>2 DEF ReportsInOrder, backtestVars
  <1>4. ReportIsTrue'
    BY <1>1, <1>2 DEF ReportIsTrue, Made, backtestVars
  <1> QED BY <1>3, <1>4

LEMMA FlowsKeep ==
    ASSUME IInv, flow' = flow,
           \A q \in Runs : bundle[q].state # "none" =>
               /\ bundle'[q].state # "none"
               /\ \/ bundle[q].promoted => bundle'[q].promoted
                  \/ bundle'[q].state = "deleted"
               /\ bundle[q].state = "deleted" => bundle'[q].state = "deleted",
           \A q \in Runs : bundle[q].promoted =>
               bundle'[q].promoted \/ bundle'[q].state = "deleted"
    PROVE  FlowsInOrder' /\ WorkflowIsTrue'
  <1> USE DEF IInv
  <1>1. \A w \in Flows : flow[w].run \in Runs \cup {NoRun}
    BY DEF TypeOK, FlowType
  <1>2. FlowsInOrder'
    BY DEF FlowsInOrder
  <1>3. WorkflowIsTrue'
    BY <1>1 DEF WorkflowIsTrue, FlowsInOrder
  <1> QED BY <1>2, <1>3

\* The backtest service keeps its rows, tasks and files in order.
LEMMA BacktestSteps ==
    ASSUME IInv, UNCHANGED trainVars, NEW b \in Reports,
           \/ \E r \in KnownPolicies : BeginReport(b, r)
           \/ LoadPolicy(b) \/ UploadCharts(b) \/ PutResults(b)
           \/ CompleteReport(b) \/ FailReport(b)
    PROVE  /\ report' \in [Reports -> ReportType] /\ job' \in [Reports -> JobType]
           /\ files' \in [Reports -> SUBSET {"charts", "results"}]
           /\ ReportsInOrder' /\ ReportIsTrue'
  <1> USE DEF IInv, trainVars
  <1> DEFINE Types == /\ report' \in [Reports -> ReportType] /\ job' \in [Reports -> JobType]
                      /\ files' \in [Reports -> SUBSET {"charts", "results"}]
  <1>0. \A q \in Runs : HasRow(q)' <=> HasRow(q)
    BY DEF HasRow
  <1>1. ASSUME NEW r \in KnownPolicies, BeginReport(b, r)
        PROVE  Types /\ ReportsInOrder' /\ ReportIsTrue'
    <2>0. r \in Runs \cup {NoRun}
      BY DEF KnownPolicies
    <2>1. Types
      BY <1>1, <2>0, ChangedRows DEF BeginReport, TypeOK
    <2>2. ReportsInOrder'
      BY <1>1, <2>0, <1>0 DEF BeginReport, TypeOK, ReportsInOrder, Made, ReportType, JobType,
         KnownPolicies
    <2>3. ReportIsTrue'
      BY <1>1, <2>0, <1>0 DEF BeginReport, TypeOK, ReportIsTrue, ReportType, JobType
    <2> QED BY <2>1, <2>2, <2>3
  <1>2. CASE LoadPolicy(b)
    <2>1. Types
      <3>1. report' = report /\ files' = files
        BY <1>2 DEF LoadPolicy
      <3>2. PICK r \in Runs \cup {NoRun} :
                job' = [job EXCEPT ![b] = [job[b] EXCEPT !.pc = "charts", !.uses = r]]
        BY <1>2 DEF LoadPolicy, TypeOK, ReportType
      <3>3. [job[b] EXCEPT !.pc = "charts", !.uses = r] \in JobType
        BY ChangedRows DEF TypeOK
      <3> QED BY <3>1, <3>2, <3>3 DEF TypeOK
    <2>2. ReportsInOrder'
      BY <1>2, <1>0 DEF LoadPolicy, TypeOK, ReportsInOrder, Made, ReportType, JobType
    <2>3. ReportIsTrue'
      BY <1>2, <1>0 DEF LoadPolicy, TypeOK, ReportIsTrue, ReportsInOrder, Made, ReportType, JobType
    <2> QED BY <2>1, <2>2, <2>3
  <1>3. CASE UploadCharts(b)
    <2>0. PICK d \in BOOLEAN :
             /\ job[b].pc = "charts" /\ report' = report
             /\ job' = [job EXCEPT ![b] = [job[b] EXCEPT !.pc = "results", !.drawn = d]]
             /\ files' = [files EXCEPT ![b] = IF d THEN files[b] \cup {"charts"} ELSE files[b]]
      BY <1>3 DEF UploadCharts
    <2>1. Types
      <3>1. [job[b] EXCEPT !.pc = "results", !.drawn = d] \in JobType
        BY ChangedRows DEF TypeOK
      <3> QED BY <2>0, <3>1 DEF TypeOK
    <2>2. /\ \A c \in Reports :
                /\ files[c] \subseteq files'[c]
                /\ c # b => job'[c] = job[c]
          /\ job'[b].pc = "results" /\ job'[b].uses = job[b].uses /\ job'[b].drawn = d
          /\ d => "charts" \in files'[b]
      BY <2>0 DEF TypeOK, JobType
    <2>3. ReportsInOrder'
      BY <2>0, <2>2, <1>0 DEF TypeOK, ReportsInOrder, Made, ReportType
    <2>4. ReportIsTrue'
      BY <2>0, <2>2, <1>0 DEF TypeOK, ReportIsTrue, ReportsInOrder, Made, ReportType
    <2> QED BY <2>1, <2>3, <2>4
  <1>4. CASE PutResults(b)
    <2>1. Types
      BY <1>4, ChangedRows DEF PutResults, JobStep, TypeOK, ReportType
    <2>2. ReportsInOrder'
      BY <1>4, <1>0 DEF PutResults, JobStep, TypeOK, ReportsInOrder, Made, ReportType, JobType
    <2>3. ReportIsTrue'
      BY <1>4, <1>0 DEF PutResults, JobStep, TypeOK, ReportIsTrue, ReportsInOrder, Made, ReportType, JobType
    <2> QED BY <2>1, <2>2, <2>3
  <1>5. CASE CompleteReport(b)
    <2>1. Types
      <3>1. report' \in [Reports -> ReportType]
        <4>1. report' = [report EXCEPT
                  ![b] = [report[b] EXCEPT !.status = "completed", !.charts = job[b].drawn]]
          BY <1>5 DEF CompleteReport
        <4>2. report[b] \in ReportType /\ job[b].drawn \in BOOLEAN
          BY DEF TypeOK, JobType
        <4>3. [report[b] EXCEPT !.status = "completed", !.charts = job[b].drawn] \in ReportType
          BY <4>2, ChangedRows
        <4> QED BY <4>1, <4>3 DEF TypeOK
      <3>2. job' \in [Reports -> JobType]
        <4>1. \E pc \in {"none", "raised"} :
                 job' = [job EXCEPT ![b] = [job[b] EXCEPT !.pc = pc]]
          BY <1>5 DEF CompleteReport, JobStep
        <4>2. \A pc \in {"none", "raised"} : [job[b] EXCEPT !.pc = pc] \in JobType
          BY DEF TypeOK, JobType
        <4> QED BY <4>1, <4>2 DEF TypeOK
      <3>3. files' \in [Reports -> SUBSET {"charts", "results"}]
        BY <1>5 DEF CompleteReport, TypeOK
      <3> QED BY <3>1, <3>2, <3>3
    <2>2. ReportsInOrder'
      BY <1>5, <1>0 DEF CompleteReport, JobStep, TypeOK, ReportsInOrder, Made, ReportType, JobType
    <2>3. ReportIsTrue'
      BY <1>5, <1>0 DEF CompleteReport, JobStep, TypeOK, ReportIsTrue, ReportsInOrder, Made, ReportType, JobType
    <2> QED BY <2>1, <2>2, <2>3
  <1>6. CASE FailReport(b)
    <2>1. Types
      <3>1. report' \in [Reports -> ReportType]
        <4>1. \/ report' = report
              \/ report' = [report EXCEPT
                    ![b] = [report[b] EXCEPT !.status = "failed", !.charts = FALSE]]
          BY <1>6 DEF FailReport
        <4>2. [report[b] EXCEPT !.status = "failed", !.charts = FALSE] \in ReportType
          BY ChangedRows DEF TypeOK
        <4> QED BY <4>1, <4>2 DEF TypeOK
      <3>2. job' \in [Reports -> JobType]
        <4>1. \E pc \in {"none", "raised"} :
                 job' = [job EXCEPT ![b] = [job[b] EXCEPT !.pc = pc]]
          BY <1>6 DEF FailReport
        <4>2. \A pc \in {"none", "raised"} : [job[b] EXCEPT !.pc = pc] \in JobType
          BY DEF TypeOK, JobType
        <4> QED BY <4>1, <4>2 DEF TypeOK
      <3>3. files' \in [Reports -> SUBSET {"charts", "results"}]
        BY <1>6 DEF FailReport, TypeOK
      <3> QED BY <3>1, <3>2, <3>3
    <2>2. ReportsInOrder'
      BY <1>6, <1>0 DEF FailReport, TypeOK, ReportsInOrder, Made, ReportType, JobType
    <2>3. ReportIsTrue'
      BY <1>6, <1>0 DEF FailReport, TypeOK, ReportIsTrue, ReportsInOrder, Made, ReportType, JobType
    <2> QED BY <2>1, <2>2, <2>3
  <1> QED BY <1>1, <1>2, <1>3, <1>4, <1>5, <1>6

\* What the end of an attempt makes of a workflow.
LEMMA RetryFacts ==
    ASSUME IInv, NEW w \in Flows, Retry(w), flow[w].pc \in {"start", "backtest", "promote"}
    PROVE  /\ flow' \in [Flows -> FlowType]
           /\ \A v \in Flows :
                /\ flow'[v].kind = flow[v].kind /\ flow'[v].run = flow[v].run
                /\ flow'[v].promoted = flow[v].promoted
                /\ \/ flow'[v].pc = flow[v].pc
                   \/ flow'[v].pc \in {"complain", "failed"}
  <1> USE DEF IInv
  <1>1. flow[w] \in FlowType
    BY DEF TypeOK
  <1>2. flow' \in [Flows -> FlowType]
    BY <1>1, ChangedFlows DEF Retry, Go, TypeOK
  <1>3. \/ flow' = [flow EXCEPT ![w].attempt = flow[w].attempt + 1]
        \/ flow' = [flow EXCEPT ![w].pc = "complain", ![w].attempt = 0]
        \/ flow' = [flow EXCEPT ![w].pc = "failed", ![w].attempt = 0]
    BY DEF Retry, Go
  <1>4. \A x \in FlowType : \A n, pc :
           /\ [x EXCEPT !.attempt = n].kind = x.kind /\ [x EXCEPT !.attempt = n].run = x.run
           /\ [x EXCEPT !.attempt = n].promoted = x.promoted
           /\ [x EXCEPT !.attempt = n].pc = x.pc
           /\ [x EXCEPT !.pc = pc, !.attempt = n].kind = x.kind
           /\ [x EXCEPT !.pc = pc, !.attempt = n].run = x.run
           /\ [x EXCEPT !.pc = pc, !.attempt = n].promoted = x.promoted
           /\ [x EXCEPT !.pc = pc, !.attempt = n].pc = pc
    BY DEF FlowType
  <1>5. \A v \in Flows : flow[v] \in FlowType
    BY DEF TypeOK
  <1>6. CASE flow' = [flow EXCEPT ![w].attempt = flow[w].attempt + 1]
    BY <1>2, <1>4, <1>5, <1>6 DEF TypeOK
  <1>7. CASE flow' = [flow EXCEPT ![w].pc = "complain", ![w].attempt = 0]
    BY <1>2, <1>4, <1>5, <1>7 DEF TypeOK
  <1>8. CASE flow' = [flow EXCEPT ![w].pc = "failed", ![w].attempt = 0]
    BY <1>2, <1>4, <1>5, <1>8 DEF TypeOK
  <1> QED BY <1>3, <1>6, <1>7, <1>8

\* A workflow that goes on, is told, or has failed an attempt: the policies
\* being what they were, or the one it promotes now promoted.
LEMMA FlowsGoOn ==
    ASSUME IInv, NEW w \in Flows, flow' \in [Flows -> FlowType],
           \A v \in Flows \ {w} : flow'[v] = flow[v],
           \A q \in Runs :
               /\ bundle[q].state # "none" => bundle'[q].state = bundle[q].state
               /\ bundle[q].promoted => bundle'[q].promoted,
           flow'[w].kind = "backtest" =>
               flow'[w].pc \notin {"start", "poll", "promote", "notify"},
           flow'[w].pc \in {"poll", "promote"} => flow'[w].run # NoRun,
           flow'[w].kind = "train" /\ flow'[w].pc \in {"backtest", "promote", "notify"} =>
               flow'[w].run # NoRun /\ bundle'[flow'[w].run].state # "none",
           flow'[w].promoted =>
               flow'[w].run # NoRun /\ flow'[w].pc \notin {"start", "poll"} /\
               (bundle'[flow'[w].run].promoted \/ bundle'[flow'[w].run].state = "deleted")
    PROVE  FlowsInOrder' /\ WorkflowIsTrue'
  <1> USE DEF IInv
  <1>1. \A v \in Flows : flow[v].run \in Runs \cup {NoRun}
    BY DEF TypeOK, FlowType
  <1>2. FlowsInOrder'
    BY DEF FlowsInOrder
  <1>3. WorkflowIsTrue'
    <2> SUFFICES ASSUME NEW v \in Flows
                 PROVE  /\ flow'[v].kind = "train"
                              /\ flow'[v].pc \in {"backtest", "promote", "notify"} =>
                             flow'[v].run # NoRun /\ bundle'[flow'[v].run].state # "none"
                        /\ flow'[v].promoted => \/ bundle'[flow'[v].run].promoted
                                                \/ bundle'[flow'[v].run].state = "deleted"
      BY DEF WorkflowIsTrue
    <2>1. CASE v = w
      BY <2>1
    <2>2. CASE v # w
      <3>1. flow'[v] = flow[v]
        BY <2>2
      <3>2. CASE flow[v].run \in Runs
        <4>1. bundle[flow[v].run].state # "none" => bundle'[flow[v].run].state = bundle[flow[v].run].state
          BY <3>2
        <4>2. bundle[flow[v].run].promoted => bundle'[flow[v].run].promoted
          BY <3>2
        <4> QED BY <3>1, <4>1, <4>2 DEF WorkflowIsTrue
      <3>3. CASE flow[v].run = NoRun
        BY <3>1, <3>3 DEF WorkflowIsTrue, FlowsInOrder
      <3> QED BY <1>1, <3>2, <3>3
    <2> QED BY <2>1, <2>2
  <1> QED BY <1>2, <1>3

\* A step of a workflow that fails an attempt and changes no policy it knows.
LEMMA RetriesKeep ==
    ASSUME IInv, NEW w \in Flows, Retry(w), flow[w].pc \in {"start", "backtest", "promote"},
           \A q \in Runs :
               /\ bundle[q].state # "none" => bundle'[q].state = bundle[q].state
               /\ bundle[q].promoted => bundle'[q].promoted
    PROVE  flow' \in [Flows -> FlowType] /\ FlowsInOrder' /\ WorkflowIsTrue'
  <1> USE DEF IInv
  <1>1. \A v \in Flows : flow[v].run \in Runs \cup {NoRun}
    BY DEF TypeOK, FlowType
  <1>2. flow' \in [Flows -> FlowType] /\
        \A v \in Flows :
           /\ flow'[v].kind = flow[v].kind /\ flow'[v].run = flow[v].run
           /\ flow'[v].promoted = flow[v].promoted
           /\ \/ flow'[v].pc = flow[v].pc
              \/ flow'[v].pc \in {"complain", "failed"}
    BY RetryFacts
  <1>3. FlowsInOrder'
    BY <1>1, <1>2 DEF FlowsInOrder
  <1>4. WorkflowIsTrue'
    BY <1>1, <1>2 DEF WorkflowIsTrue, FlowsInOrder
  <1> QED BY <1>2, <1>3, <1>4

\* Every step keeps the invariant.
LEMMA NextIInv ==
    ASSUME IInv, [Next]_vars
    PROVE  IInv'
  <1> USE DEF IInv
  <1> DEFINE Keeps == \A q \in Runs :
                        /\ bundle[q].state # "none" => bundle'[q].state = bundle[q].state
                        /\ bundle[q].promoted => bundle'[q].promoted
             Known == \A q \in Runs : bundle[q].state # "none" =>
                        bundle'[q].state # "none" /\ (HasRow(q)' => HasRow(q))
  <1>0. ASSUME bundle' = bundle PROVE Keeps /\ Known
    BY <1>0 DEF HasRow
  <1>1. ASSUME UNCHANGED flow, Keeps PROVE FlowsInOrder' /\ WorkflowIsTrue'
    BY <1>1, FlowsKeep
  <1>2. ASSUME UNCHANGED trainVars PROVE RunsInOrder' /\ PolicyHasModel'
    BY <1>2 DEF trainVars, RunsInOrder, PolicyHasModel
  <1>3. ASSUME NEW r \in Runs, UNCHANGED <<authDisabled, backtestVars, flow>>,
               \/ Begin(r) \/ PutModel(r) \/ SavePolicyBundle(r) \/ CompleteRun(r) \/ FailRun(r)
        PROVE  IInv'
    <2>1. /\ run' \in [Runs -> RunType] /\ task' \in [Runs -> Stages]
          /\ models' \subseteq Runs /\ bundle' \in [Runs -> BundleType]
          /\ RunsInOrder' /\ PolicyHasModel'
          /\ \A q \in Runs :
                /\ bundle[q].state # "none" => bundle'[q] = bundle[q]
                /\ bundle'[q].promoted = bundle[q].promoted
      BY <1>3, TrainSteps
    <2>2. Keeps /\ Known
      BY <2>1 DEF HasRow
    <2>3. ReportsInOrder' /\ ReportIsTrue'
      BY <1>3, <2>2, ReportsKeep
    <2>4. TypeOK'
      BY <1>3, <2>1 DEF TypeOK, backtestVars
    <2> QED BY <1>1, <1>3, <2>1, <2>2, <2>3, <2>4
  <1>4. ASSUME NEW b \in Reports, UNCHANGED <<authDisabled, trainVars, flow>>,
               \/ \E r \in KnownPolicies : BeginReport(b, r)
               \/ LoadPolicy(b) \/ UploadCharts(b) \/ PutResults(b)
               \/ CompleteReport(b) \/ FailReport(b)
        PROVE  IInv'
    <2>1. /\ report' \in [Reports -> ReportType] /\ job' \in [Reports -> JobType]
          /\ files' \in [Reports -> SUBSET {"charts", "results"}]
          /\ ReportsInOrder' /\ ReportIsTrue'
      BY <1>4, BacktestSteps
    <2>2. Keeps
      BY <1>0, <1>4 DEF trainVars
    <2>3. TypeOK'
      BY <1>4, <2>1 DEF TypeOK, trainVars
    <2> QED BY <1>1, <1>2, <1>4, <2>1, <2>2, <2>3
  <1>5. ASSUME TrainCrash PROVE IInv'
    <2>1. TypeOK'
      BY <1>5 DEF TrainCrash, TypeOK, Stages, backtestVars
    <2>2. RunsInOrder' /\ PolicyHasModel'
      BY <1>5 DEF TrainCrash, RunsInOrder, PolicyHasModel
    <2>3. UNCHANGED <<bundle, flow, backtestVars>>
      BY <1>5 DEF TrainCrash
    <2>4. Keeps /\ Known
      BY <1>0, <2>3
    <2> QED BY <1>1, <2>1, <2>2, <2>3, <2>4, ReportsKeep
  <1>6. ASSUME BacktestCrash PROVE IInv'
    <2>0. \A b \in Reports : /\ job'[b].pc = "none" /\ job'[b].uses = job[b].uses
                             /\ job'[b] \in JobType
      BY <1>6 DEF BacktestCrash, TypeOK, JobType
    <2>1. UNCHANGED <<authDisabled, run, task, models, bundle, report, files, flow>>
      BY <1>6 DEF BacktestCrash, trainVars
    <2>2. TypeOK'
      BY <1>6, <2>0, <2>1 DEF BacktestCrash, TypeOK
    <2>3. \A b \in Reports : report[b].asked \in Runs \cup {NoRun}
      BY DEF TypeOK, ReportType
    <2>4. ReportsInOrder' /\ ReportIsTrue'
      BY <2>0, <2>1, <2>3 DEF ReportsInOrder, ReportIsTrue, HasRow
    <2> QED BY <1>0, <1>1, <1>2, <2>1, <2>2, <2>4 DEF trainVars
  <1>7. ASSUME NEW r \in Runs, DecideBundle(r) PROVE IInv'
    <2>1. /\ bundle' \in [Runs -> BundleType]
          /\ \A q \in Runs : q # r => bundle'[q] = bundle[q]
          /\ HasRow(r)
          /\ \/ bundle'[r].state \in {"approved", "held"} /\ bundle'[r].promoted = bundle[r].promoted
             \/ bundle'[r].state = "deleted"
      <3>1. CASE \E s \in {"approved", "held"} : bundle' = [bundle EXCEPT ![r].state = s]
        <4>1. PICK s \in {"approved", "held"} :
                 bundle' = [bundle EXCEPT ![r] = [bundle[r] EXCEPT !.state = s]]
          BY <3>1
        <4>2. bundle[r] \in BundleType
          BY DEF TypeOK
        <4>3. /\ [bundle[r] EXCEPT !.state = s] \in BundleType
              /\ [bundle[r] EXCEPT !.state = s].state = s
              /\ [bundle[r] EXCEPT !.state = s].promoted = bundle[r].promoted
          BY <4>2 DEF BundleType
        <4> QED BY <1>7, <4>1, <4>3 DEF DecideBundle, TypeOK
      <3>2. CASE bundle' = [bundle EXCEPT ![r] = [state |-> "deleted", promoted |-> FALSE]]
        BY <1>7, <3>2, ChangedRows DEF DecideBundle, TypeOK
      <3> QED BY <1>7, <3>1, <3>2 DEF DecideBundle
    <2>2. UNCHANGED <<authDisabled, run, task, models, backtestVars, flow>>
      BY <1>7 DEF DecideBundle
    <2>3. bundle[r].state \in {"held", "approved"}
      BY <2>1 DEF HasRow
    <2>4. TypeOK'
      BY <2>1, <2>2 DEF TypeOK, backtestVars
    <2>5. RunsInOrder' /\ PolicyHasModel'
      BY <2>1, <2>2, <2>3 DEF RunsInOrder, PolicyHasModel
    <2>6. Known
      BY <2>1, <2>3 DEF HasRow
    <2>7. ReportsInOrder' /\ ReportIsTrue'
      BY <2>2, <2>6, ReportsKeep
    <2>8. FlowsInOrder' /\ WorkflowIsTrue'
      BY <2>1, <2>2, <2>3, FlowsKeep
    <2> QED BY <2>4, <2>5, <2>7, <2>8
  <1>8. ASSUME NEW w \in Flows, Trigger(w) PROVE IInv'
    <2> DEFINE first == IF flow[w].kind = "train" THEN "start" ELSE "backtest"
    <2>1. flow' = [flow EXCEPT ![w] = [flow[w] EXCEPT !.pc = first, !.attempt = 0, !.run = NoRun,
                                                     !.promoted = FALSE]]
      BY <1>8 DEF Trigger
    <2>2. UNCHANGED <<authDisabled, run, task, models, bundle, report, job, files>>
      BY <1>8 DEF Trigger, trainVars, backtestVars
    <2>3. flow' \in [Flows -> FlowType]
      BY <2>1, ChangedFlows DEF TypeOK
    <2>4. /\ \A v \in Flows \ {w} : flow'[v] = flow[v]
          /\ ~flow'[w].promoted /\ flow'[w].pc = first /\ flow'[w].kind = flow[w].kind
      BY <2>1 DEF TypeOK, FlowType
    <2>5. FlowsInOrder' /\ WorkflowIsTrue'
      BY <2>2, <2>3, <2>4, FlowsGoOn DEF TypeOK, FlowType
    <2>6. TypeOK'
      BY <2>2, <2>3 DEF TypeOK
    <2> QED BY <1>0, <1>2, <2>2, <2>5, <2>6, ReportsKeep DEF trainVars, backtestVars
  <1>9. ASSUME NEW w \in Flows, UNCHANGED <<authDisabled, run, task, models, bundle, report, job, files>>,
               NEW pc \in {"backtest", "complain", "completed", "failed"}, Go(w, pc),
               flow[w].kind = "train" /\ pc = "backtest" =>
                   flow[w].run # NoRun /\ bundle[flow[w].run].state # "none"
        PROVE  IInv'
    <2>1. flow' \in [Flows -> FlowType]
      BY <1>9, ChangedFlows DEF Go, TypeOK
    <2>2. /\ \A v \in Flows \ {w} : flow'[v] = flow[v]
          /\ flow'[w].pc = pc /\ flow'[w].kind = flow[w].kind /\ flow'[w].run = flow[w].run
          /\ flow'[w].promoted = flow[w].promoted
      BY <1>9 DEF Go, TypeOK, FlowType
    <2>3. flow[w].promoted => flow[w].run # NoRun /\
             (bundle[flow[w].run].promoted \/ bundle[flow[w].run].state = "deleted")
      BY DEF FlowsInOrder, WorkflowIsTrue
    <2>4. FlowsInOrder' /\ WorkflowIsTrue'
      BY <1>9, <2>1, <2>2, <2>3, FlowsGoOn
    <2>5. TypeOK'
      BY <1>9, <2>1 DEF TypeOK
    <2> QED BY <1>0, <1>2, <1>9, <2>4, <2>5, ReportsKeep DEF trainVars, backtestVars
  <1>10. ASSUME NEW w \in Flows,
                PollTrainingRun(w) \/ PollGivesUp(w) \/ PollFails(w) \/ Notify(w)
         PROVE  IInv'
    <2>1. UNCHANGED <<authDisabled, run, task, models, bundle, report, job, files>>
      BY <1>10 DEF PollTrainingRun, PollGivesUp, PollFails, Notify, trainVars, backtestVars
    <2>2. CASE PollTrainingRun(w)
      <3>1. flow[w].run \in Runs
        BY <2>2 DEF PollTrainingRun, FlowsInOrder, TypeOK, FlowType
      <3>2. bundle[flow[w].run].state # "none" /\ flow[w].run # NoRun
        BY <2>2, <3>1, PipelineAssumption DEF PollTrainingRun, PolicyHasModel
      <3> QED BY <1>9, <2>1, <2>2, <3>2 DEF PollTrainingRun
    <2>3. CASE PollGivesUp(w) \/ PollFails(w)
      BY <1>9, <2>1, <2>3 DEF PollGivesUp, PollFails
    <2>4. CASE Notify(w)
      BY <1>9, <2>1, <2>4 DEF Notify
    <2> QED BY <1>10, <2>2, <2>3, <2>4
  <1>11. ASSUME NEW w \in Flows, AttemptFails(w) PROVE IInv'
    <2>1. UNCHANGED <<authDisabled, run, task, models, bundle, report, job, files>>
      BY <1>11 DEF AttemptFails, trainVars, backtestVars
    <2>2. flow' \in [Flows -> FlowType] /\ FlowsInOrder' /\ WorkflowIsTrue'
      BY <1>11, <2>1, RetriesKeep DEF AttemptFails
    <2>3. TypeOK'
      BY <2>1, <2>2 DEF TypeOK
    <2> QED BY <1>0, <1>2, <2>1, <2>2, <2>3, ReportsKeep DEF trainVars, backtestVars
  <1>12. ASSUME NEW w \in Flows, NEW r \in Runs, StartTrainingRun(w, r) PROVE IInv'
    <2>1. /\ run' \in [Runs -> RunType] /\ task' \in [Runs -> Stages]
          /\ models' \subseteq Runs /\ bundle' \in [Runs -> BundleType]
          /\ RunsInOrder' /\ PolicyHasModel'
      BY <1>12, TrainSteps DEF StartTrainingRun
    <2>2. UNCHANGED <<authDisabled, report, job, files, bundle>>
      BY <1>12 DEF StartTrainingRun, Begin, backtestVars
    <2>3. flow' \in [Flows -> FlowType] /\ FlowsInOrder' /\ WorkflowIsTrue'
      <3>1. CASE Retry(w)
        BY <1>12, <2>2, <3>1, RetriesKeep DEF StartTrainingRun
      <3>2. CASE flow' = [flow EXCEPT ![w].pc = "poll", ![w].attempt = 0, ![w].run = r]
        <4>1. flow' \in [Flows -> FlowType]
          BY <3>2, ChangedFlows DEF TypeOK
        <4>2. /\ \A v \in Flows \ {w} : flow'[v] = flow[v]
              /\ flow'[w].pc = "poll" /\ flow'[w].kind = flow[w].kind /\ flow'[w].run = r
              /\ flow'[w].promoted = flow[w].promoted
          BY <3>2 DEF TypeOK, FlowType
        <4>3. flow[w].kind = "train" /\ ~flow[w].promoted
          BY <1>12 DEF StartTrainingRun, FlowsInOrder, TypeOK, FlowType
        <4> QED BY <2>2, <4>1, <4>2, <4>3, FlowsGoOn, PipelineAssumption
      <3> QED BY <1>12, <3>1, <3>2 DEF StartTrainingRun
    <2>4. TypeOK'
      BY <2>1, <2>2, <2>3 DEF TypeOK
    <2> QED BY <1>0, <2>1, <2>2, <2>3, <2>4, ReportsKeep DEF backtestVars
  <1>13. ASSUME NEW w \in Flows, NEW b \in Reports, RunBacktest(w, b) PROVE IInv'
    <2>0. NoRun \in KnownPolicies
      BY DEF KnownPolicies
    <2>1. /\ report' \in [Reports -> ReportType] /\ job' \in [Reports -> JobType]
          /\ files' \in [Reports -> SUBSET {"charts", "results"}]
          /\ ReportsInOrder' /\ ReportIsTrue'
      BY <1>13, <2>0, BacktestSteps DEF RunBacktest
    <2>2. UNCHANGED <<authDisabled, run, task, models, bundle>>
      BY <1>13 DEF RunBacktest, trainVars
    <2>3. flow' \in [Flows -> FlowType] /\ FlowsInOrder' /\ WorkflowIsTrue'
      <3>1. CASE Retry(w)
        BY <1>13, <2>2, <3>1, RetriesKeep DEF RunBacktest
      <3>2. CASE Go(w, AfterBacktest(flow[w]))
        <4> DEFINE pc == AfterBacktest(flow[w])
        <4>1. pc \in {"completed", "promote", "notify"} /\ (flow[w].kind = "backtest" => pc = "completed")
          BY DEF AfterBacktest
        <4>2. flow' \in [Flows -> FlowType]
          BY <3>2, <4>1, ChangedFlows DEF Go, TypeOK
        <4>3. /\ \A v \in Flows \ {w} : flow'[v] = flow[v]
              /\ flow'[w].pc = pc /\ flow'[w].kind = flow[w].kind /\ flow'[w].run = flow[w].run
              /\ flow'[w].promoted = flow[w].promoted
          BY <3>2 DEF Go, TypeOK, FlowType
        <4>4. flow[w].kind = "train" =>
                 flow[w].run # NoRun /\ bundle[flow[w].run].state # "none"
          BY <1>13 DEF RunBacktest, WorkflowIsTrue
        <4>5. flow[w].promoted => flow[w].run # NoRun /\
                 (bundle[flow[w].run].promoted \/ bundle[flow[w].run].state = "deleted")
          BY DEF FlowsInOrder, WorkflowIsTrue
        <4>6. flow[w].kind \in {"train", "backtest"}
          BY DEF TypeOK, FlowType
        <4> QED BY <2>2, <4>1, <4>2, <4>3, <4>4, <4>5, <4>6, FlowsGoOn
      <3> QED BY <1>13, <3>1, <3>2 DEF RunBacktest
    <2>4. TypeOK'
      BY <2>1, <2>2, <2>3 DEF TypeOK
    <2> QED BY <1>2, <2>1, <2>2, <2>3, <2>4 DEF trainVars
  <1>14. ASSUME NEW w \in Flows, PromotePolicy(w) PROVE IInv'
    <2>1. PICK r \in Runs : r = flow[w].run
      BY <1>14 DEF PromotePolicy, FlowsInOrder, TypeOK, FlowType
    <2>2. /\ bundle' \in [Runs -> BundleType]
          /\ bundle[r].state = "approved"
          /\ \A q \in Runs : bundle'[q].state = bundle[q].state
                             /\ (bundle'[q].promoted <=> (bundle[q].promoted \/ q = r))
      <3>1. /\ bundle' = [bundle EXCEPT ![r] = [bundle[r] EXCEPT !.promoted = TRUE]]
            /\ bundle[r].state = "approved"
        BY <1>14, <2>1 DEF PromotePolicy
      <3>2. bundle[r] \in BundleType
        BY DEF TypeOK
      <3>3. /\ [bundle[r] EXCEPT !.promoted = TRUE] \in BundleType
            /\ [bundle[r] EXCEPT !.promoted = TRUE].promoted
            /\ [bundle[r] EXCEPT !.promoted = TRUE].state = bundle[r].state
        BY <3>2 DEF BundleType
      <3>4. bundle' \in [Runs -> BundleType]
        BY <3>1, <3>3 DEF TypeOK
      <3>5. bundle'[r] = [bundle[r] EXCEPT !.promoted = TRUE]
        BY <3>1 DEF TypeOK
      <3>6. \A q \in Runs : q # r => bundle'[q] = bundle[q]
        BY <3>1 DEF TypeOK
      <3> QED BY <3>1, <3>3, <3>4, <3>5, <3>6
    <2>3. UNCHANGED <<authDisabled, run, task, models, report, job, files>>
      BY <1>14 DEF PromotePolicy, backtestVars
    <2>4. Keeps /\ Known
      BY <2>2 DEF HasRow
    <2>5. RunsInOrder' /\ PolicyHasModel'
      BY <2>2, <2>3 DEF RunsInOrder, PolicyHasModel
    <2>6. ReportsInOrder' /\ ReportIsTrue'
      BY <2>3, <2>4, ReportsKeep DEF backtestVars
    <2>7. flow' \in [Flows -> FlowType] /\ FlowsInOrder' /\ WorkflowIsTrue'
      <3>1. CASE Retry(w)
        BY <1>14, <2>4, <3>1, RetriesKeep DEF PromotePolicy
      <3>2. CASE flow' = [flow EXCEPT ![w].pc = "notify", ![w].attempt = 0, ![w].promoted = TRUE]
        <4>1. flow' \in [Flows -> FlowType]
          BY <3>2, ChangedFlows DEF TypeOK
        <4>2. /\ \A v \in Flows \ {w} : flow'[v] = flow[v]
              /\ flow'[w].pc = "notify" /\ flow'[w].kind = flow[w].kind /\ flow'[w].run = r
          BY <2>1, <3>2 DEF TypeOK, FlowType
        <4>3. flow[w].kind # "backtest"
          BY <1>14 DEF PromotePolicy, FlowsInOrder
        <4>4. bundle'[r].promoted /\ bundle'[r].state # "none" /\ r # NoRun
          BY <2>2, PipelineAssumption
        <4> QED BY <2>4, <4>1, <4>2, <4>3, <4>4, FlowsGoOn
      <3> QED BY <1>14, <3>1, <3>2 DEF PromotePolicy
    <2>8. TypeOK'
      BY <2>2, <2>3, <2>7 DEF TypeOK
    <2> QED BY <2>5, <2>6, <2>7, <2>8
  <1>15. CASE UNCHANGED vars
    <2>1. UNCHANGED <<authDisabled, run, task, models, bundle, report, job, files, flow>>
      BY <1>15 DEF vars, trainVars, backtestVars
    <2>2. TypeOK'
      BY <2>1 DEF TypeOK
    <2> QED BY <1>0, <1>1, <1>2, <2>1, <2>2, ReportsKeep DEF trainVars, backtestVars
  <1>16. ASSUME UserRequest PROVE IInv'
    BY <1>3, <1>4, <1>16 DEF UserRequest
  <1>17. ASSUME NEW r \in Runs, TrainTask(r) PROVE IInv'
    BY <1>3, <1>17 DEF TrainTask
  <1>18. ASSUME NEW b \in Reports, BacktestTask(b) PROVE IInv'
    BY <1>4, <1>18 DEF BacktestTask
  <1> QED
    BY <1>5, <1>6, <1>7, <1>8, <1>10, <1>11, <1>12, <1>13, <1>14, <1>15, <1>16, <1>17, <1>18
    DEF Next, FlowStep

-----------------------------------------------------------------------------
(* The theorems.                                                           *)

\* The variables keep their types.
THEOREM PipelineTypes == Spec => []TypeOK
  <1>1. IInv => TypeOK
    BY DEF IInv
  <1> QED BY <1>1, InitIInv, NextIInv, PTL DEF Spec

\* A policy has its model, a completed run its policy, whatever fails when.
THEOREM PoliciesHaveModels == Spec => []PolicyHasModel
  <1>1. IInv => PolicyHasModel
    BY DEF IInv
  <1> QED BY <1>1, InitIInv, NextIInv, PTL DEF Spec

\* A completed report is stored with the charts it names, and is of the policy
\* it was asked for.
THEOREM ReportsAreTrue == Spec => []ReportIsTrue
  <1>1. IInv => ReportIsTrue
    BY DEF IInv
  <1> QED BY <1>1, InitIInv, NextIInv, PTL DEF Spec

\* A workflow that says it has promoted its own run's policy has done so.
THEOREM WorkflowsAreTrue == Spec => []WorkflowIsTrue
  <1>1. IInv => WorkflowIsTrue
    BY DEF IInv
  <1> QED BY <1>1, InitIInv, NextIInv, PTL DEF Spec

-----------------------------------------------------------------------------
(* One execution of a workflow, step by step.                              *)

\* How far a workflow is from its end.
Stage(pc) ==
    CASE pc = "start" -> 5
      [] pc = "poll" -> 4
      [] pc = "backtest" -> 3
      [] pc = "promote" -> 2
      [] pc \in {"notify", "complain"} -> 1
      [] OTHER -> 0

\* The attempts that are left to it at most.
Work(x) == Stage(x.pc) * MaxAttempts - x.attempt

\* A workflow tries the same activity again, or goes to a later stage with its
\* attempts to be counted from zero.  It changes its run only at the start, to
\* one nobody has had.  It comes to promote only below a threshold of at most 0.
Again(x, y) ==
    /\ y.pc = x.pc /\ y.run = x.run /\ y.promoted = x.promoted
    /\ y.attempt = x.attempt + 1 /\ y.attempt < MaxAttempts

Further(x, y) ==
    /\ Stage(y.pc) < Stage(x.pc) /\ y.attempt = 0
    /\ y.run = x.run \/ (run[y.run].status = "none" /\ run'[y.run].status = "running")
    /\ y.promoted = x.promoted \/ x.pc = "promote"
    /\ y.pc = "promote" => x.kind = "train" /\ x.threshold <= 0

Proceeds(x, y) ==
    /\ y.kind = x.kind /\ y.threshold = x.threshold
    /\ Stage(x.pc) > 0
    /\ Again(x, y) \/ Further(x, y)

\* A failed workflow is triggered again, or an unused id is.
Restarts(x, y) ==
    /\ Stage(x.pc) = 0
    /\ y.kind = x.kind /\ y.threshold = x.threshold
    /\ y.attempt = 0 /\ y.run = NoRun /\ ~y.promoted /\ y.pc \in {"start", "backtest"}

LEMMA RetryProceeds ==
    ASSUME IInv, NEW w \in Flows, Retry(w), flow[w].pc \in {"start", "backtest", "promote"}
    PROVE  /\ Proceeds(flow[w], flow'[w])
           /\ \A v \in Flows \ {w} : flow'[v] = flow[v]
  <1> DEFINE x == flow[w]
  <1>1. x \in FlowType /\ flow \in [Flows -> FlowType]
    BY DEF IInv, TypeOK
  <1>2. CASE x.attempt + 1 < MaxAttempts
    <2>1. flow' = [flow EXCEPT ![w] = [x EXCEPT !.attempt = x.attempt + 1]]
      BY <1>2 DEF Retry
    <2>2. Proceeds(x, [x EXCEPT !.attempt = x.attempt + 1])
      BY <1>1, <1>2 DEF Proceeds, Again, Stage, FlowType
    <2> QED BY <1>1, <2>1, <2>2
  <1>3. CASE ~(x.attempt + 1 < MaxAttempts)
    <2>1. PICK pc \in {"complain", "failed"} :
             flow' = [flow EXCEPT ![w] = [x EXCEPT !.pc = pc, !.attempt = 0]]
      BY <1>3 DEF Retry, Go
    <2>2. Proceeds(x, [x EXCEPT !.pc = pc, !.attempt = 0])
      BY <1>1 DEF Proceeds, Further, Stage, FlowType
    <2> QED BY <1>1, <2>1, <2>2
  <1> QED BY <1>2, <1>3

LEMMA GoProceeds ==
    ASSUME IInv, NEW w \in Flows,
           NEW pc \in {"backtest", "promote", "notify", "complain", "completed", "failed"},
           Go(w, pc), Stage(pc) < Stage(flow[w].pc),
           pc = "promote" => flow[w].kind = "train" /\ flow[w].threshold <= 0
    PROVE  /\ Proceeds(flow[w], flow'[w])
           /\ \A v \in Flows \ {w} : flow'[v] = flow[v]
  <1> DEFINE x == flow[w]
  <1>1. x \in FlowType /\ flow \in [Flows -> FlowType]
    BY DEF IInv, TypeOK
  <1>2. flow' = [flow EXCEPT ![w] = [x EXCEPT !.pc = pc, !.attempt = 0]]
    BY DEF Go
  <1>3. Stage(pc) \in Nat
    BY DEF Stage
  <1>4. Proceeds(x, [x EXCEPT !.pc = pc, !.attempt = 0])
    BY <1>1, <1>3 DEF Proceeds, Further, Stage, FlowType
  <1> QED BY <1>1, <1>2, <1>4

\* Every step of a workflow is one of these.
LEMMA FlowStepProceeds ==
    ASSUME IInv, NEW w \in Flows, FlowStep(w)
    PROVE  /\ Proceeds(flow[w], flow'[w])
           /\ \A v \in Flows \ {w} : flow'[v] = flow[v]
  <1> DEFINE x == flow[w]
             Goal == /\ Proceeds(flow[w], flow'[w])
                     /\ \A v \in Flows \ {w} : flow'[v] = flow[v]
  <1>1. x \in FlowType /\ flow \in [Flows -> FlowType]
    BY DEF IInv, TypeOK
  <1>2. ASSUME NEW r \in Runs, StartTrainingRun(w, r) PROVE Goal
    <2>1. CASE Retry(w)
      BY <1>2, <2>1, RetryProceeds DEF StartTrainingRun
    <2>2. CASE flow' = [flow EXCEPT ![w].pc = "poll", ![w].attempt = 0, ![w].run = r]
      <3>1. flow' = [flow EXCEPT ![w] = [x EXCEPT !.pc = "poll", !.attempt = 0, !.run = r]]
        BY <2>2
      <3>2. run[r].status = "none" /\ run'[r].status = "running"
        BY <1>2 DEF StartTrainingRun, Begin, Fresh, IInv, TypeOK, RunType
      <3>3. Proceeds(x, [x EXCEPT !.pc = "poll", !.attempt = 0, !.run = r])
        BY <1>1, <1>2, <3>2 DEF StartTrainingRun, Proceeds, Further, Stage, FlowType
      <3> QED BY <1>1, <3>1, <3>3
    <2> QED BY <1>2, <2>1, <2>2 DEF StartTrainingRun
  <1>3. CASE PollTrainingRun(w)
    BY <1>3, GoProceeds DEF PollTrainingRun, Stage
  <1>4. CASE PollGivesUp(w)
    BY <1>4, GoProceeds DEF PollGivesUp, Stage
  <1>5. CASE PollFails(w)
    BY <1>5, GoProceeds DEF PollFails, Stage
  <1>6. ASSUME NEW b \in Reports, RunBacktest(w, b) PROVE Goal
    <2>1. CASE Retry(w)
      BY <1>6, <2>1, RetryProceeds DEF RunBacktest
    <2>2. CASE Go(w, AfterBacktest(x))
      <3>1. /\ AfterBacktest(x) \in {"completed", "promote", "notify"}
            /\ AfterBacktest(x) = "promote" => x.kind = "train" /\ x.threshold <= 0
        BY <1>1 DEF AfterBacktest, SharpeSeen, FlowType
      <3>2. Stage(AfterBacktest(x)) < Stage(x.pc)
        BY <1>6, <3>1 DEF RunBacktest, Stage
      <3> QED BY <2>2, <3>1, <3>2, GoProceeds
    <2> QED BY <1>6, <2>1, <2>2 DEF RunBacktest
  <1>7. CASE PromotePolicy(w)
    <2>1. CASE Retry(w)
      BY <1>7, <2>1, RetryProceeds DEF PromotePolicy
    <2>2. CASE flow' = [flow EXCEPT ![w].pc = "notify", ![w].attempt = 0, ![w].promoted = TRUE]
      <3>1. flow' = [flow EXCEPT ![w] =
                        [x EXCEPT !.pc = "notify", !.attempt = 0, !.promoted = TRUE]]
        BY <2>2
      <3>2. Proceeds(x, [x EXCEPT !.pc = "notify", !.attempt = 0, !.promoted = TRUE])
        BY <1>1, <1>7 DEF PromotePolicy, Proceeds, Further, Stage, FlowType
      <3> QED BY <1>1, <3>1, <3>2
    <2> QED BY <1>7, <2>1, <2>2 DEF PromotePolicy
  <1>8. CASE AttemptFails(w)
    BY <1>8, RetryProceeds DEF AttemptFails
  <1>9. CASE Notify(w)
    <2>1. PICK pc \in {"completed", "failed"} : Go(w, pc)
      BY <1>9 DEF Notify
    <2>2. Stage(pc) < Stage(x.pc)
      BY <1>9 DEF Notify, Stage
    <2> QED BY <2>1, <2>2, GoProceeds
  <1> QED BY <1>2, <1>3, <1>4, <1>5, <1>6, <1>7, <1>8, <1>9 DEF FlowStep

\* Whatever step is taken, a workflow stays, proceeds or is started anew.
LEMMA NextFlowMoves ==
    ASSUME IInv, [Next]_vars, NEW w \in Flows
    PROVE  \/ flow'[w] = flow[w]
           \/ Proceeds(flow[w], flow'[w])
           \/ Restarts(flow[w], flow'[w])
  <1>1. CASE UNCHANGED flow
    BY <1>1
  <1>2. ASSUME NEW v \in Flows, FlowStep(v)
        PROVE  flow'[w] = flow[w] \/ Proceeds(flow[w], flow'[w])
    BY <1>2, FlowStepProceeds
  <1>3. ASSUME NEW v \in Flows, Trigger(v)
        PROVE  flow'[w] = flow[w] \/ Restarts(flow[w], flow'[w])
    <2>1. flow \in [Flows -> FlowType] /\ flow[v] \in FlowType
      BY DEF IInv, TypeOK
    <2>2. PICK pc \in {"start", "backtest"} :
             flow' = [flow EXCEPT ![v] = [flow[v] EXCEPT !.pc = pc, !.attempt = 0,
                                                        !.run = NoRun, !.promoted = FALSE]]
      BY <1>3 DEF Trigger
    <2>3. Stage(flow[v].pc) = 0
      BY <1>3 DEF Trigger, Stage
    <2>4. Restarts(flow[v], [flow[v] EXCEPT !.pc = pc, !.attempt = 0,
                                           !.run = NoRun, !.promoted = FALSE])
      BY <2>1, <2>3 DEF Restarts, FlowType
    <2> QED BY <2>1, <2>2, <2>4
  <1>4. UNCHANGED flow \/ \E v \in Flows : Trigger(v) \/ FlowStep(v)
    BY DEF Next, UserRequest, TrainCrash, BacktestCrash, TrainTask, DecideBundle,
       BacktestTask, vars
  <1> QED BY <1>1, <1>2, <1>3, <1>4

\* A run that has been begun does not become unused again.
LEMMA RunsStayBegun ==
    ASSUME IInv, [Next]_vars, NEW r \in Runs, run[r].status # "none"
    PROVE  run'[r].status # "none"
  <1> USE DEF IInv, TypeOK
  <1>1. ASSUME NEW q \in Runs, Begin(q) PROVE run'[r].status # "none"
    BY <1>1 DEF Begin, RunType
  <1>2. ASSUME NEW q \in Runs, TrainTask(q) PROVE run'[r].status # "none"
    BY <1>2 DEF TrainTask, PutModel, SavePolicyBundle, CompleteRun, FailRun, RunType
  <1>3. CASE UNCHANGED run
    BY <1>3
  <1>4. \/ UNCHANGED run
        \/ \E q \in Runs : Begin(q) \/ TrainTask(q)
    BY DEF Next, UserRequest, TrainCrash, BacktestCrash, DecideBundle, BacktestTask, Trigger,
       FlowStep, StartTrainingRun, PollTrainingRun, PollGivesUp, PollFails, RunBacktest,
       PromotePolicy, AttemptFails, Notify, trainVars, vars
  <1> QED BY <1>1, <1>2, <1>3, <1>4

-----------------------------------------------------------------------------
(* What the execution of a workflow comes to.                              *)

\* Attempts are counted within the retry policy, at an activity only.
AttemptsBounded ==
    \A w \in Flows :
        /\ flow[w].attempt < MaxAttempts
        /\ Stage(flow[w].pc) = 0 => flow[w].attempt = 0

\* The work left is a number, so that it cannot fall for ever, and no more than
\* five activities tried MaxAttempts times each.
LEMMA WorkCounted ==
    ASSUME TypeOK, AttemptsBounded, NEW w \in Flows
    PROVE  Work(flow[w]) \in 0 .. 5 * MaxAttempts
  <1> DEFINE n == flow[w].attempt
  <1>1. n \in Nat /\ n < MaxAttempts /\ (Stage(flow[w].pc) = 0 => n = 0)
    BY DEF TypeOK, FlowType, AttemptsBounded
  <1>2. Stage(flow[w].pc) \in 0 .. 5
    BY DEF Stage
  <1>3. CASE Stage(flow[w].pc) = 0
    BY <1>1, <1>3, PipelineAssumption DEF Work
  <1>4. CASE Stage(flow[w].pc) = 1
    BY <1>1, <1>4, PipelineAssumption DEF Work
  <1>5. CASE Stage(flow[w].pc) = 2
    BY <1>1, <1>5, PipelineAssumption DEF Work
  <1>6. CASE Stage(flow[w].pc) = 3
    BY <1>1, <1>6, PipelineAssumption DEF Work
  <1>7. CASE Stage(flow[w].pc) = 4
    BY <1>1, <1>7, PipelineAssumption DEF Work
  <1>8. CASE Stage(flow[w].pc) = 5
    BY <1>1, <1>8, PipelineAssumption DEF Work
  <1> QED BY <1>2, <1>3, <1>4, <1>5, <1>6, <1>7, <1>8

\* An earlier stage is worth at least all the attempts of the later one.
LEMMA StageWorth ==
    ASSUME NEW a \in 0 .. 5, NEW b \in 0 .. 5, a < b
    PROVE  a * MaxAttempts + MaxAttempts <= b * MaxAttempts
  <1>1. CASE a = 0
    BY <1>1, PipelineAssumption
  <1>2. CASE a = 1
    BY <1>2, PipelineAssumption
  <1>3. CASE a = 2
    BY <1>3, PipelineAssumption
  <1>4. CASE a = 3
    BY <1>4, PipelineAssumption
  <1>5. CASE a = 4
    BY <1>5, PipelineAssumption
  <1> QED BY <1>1, <1>2, <1>3, <1>4, <1>5

LEMMA ProceedingWorks ==
    ASSUME TypeOK, AttemptsBounded, NEW w \in Flows, Proceeds(flow[w], flow'[w])
    PROVE  Work(flow'[w]) < Work(flow[w])
  <1> DEFINE x == flow[w]
             y == flow'[w]
  <1>1. /\ x.attempt \in Nat /\ x.attempt < MaxAttempts
        /\ Stage(x.pc) \in 0 .. 5 /\ Stage(y.pc) \in 0 .. 5
    BY DEF TypeOK, FlowType, AttemptsBounded, Stage
  <1>2. Stage(x.pc) * MaxAttempts \in Int /\ Stage(y.pc) * MaxAttempts \in Int
    BY <1>1, PipelineAssumption
  <1>3. CASE Again(x, y)
    BY <1>1, <1>2, <1>3 DEF Again, Work
  <1>4. CASE Further(x, y)
    <2>1. Stage(y.pc) * MaxAttempts + MaxAttempts <= Stage(x.pc) * MaxAttempts
      BY <1>1, <1>4, StageWorth DEF Further
    <2> QED BY <1>1, <1>2, <1>4, <2>1, PipelineAssumption DEF Further, Work
  <1> QED BY <1>3, <1>4 DEF Proceeds

\* A workflow that holds a run holds one that was begun, and holds it alone,
\* although a start whose answer is lost is tried again and begins another.
RunIsOwn ==
    /\ \A w \in Flows : flow[w].run # NoRun => run[flow[w].run].status # "none"
    /\ \A v, w \in Flows : v # w /\ flow[v].run = flow[w].run => flow[v].run = NoRun

\* The Sharpe ratio that a workflow compares is never that of its backtest:
\* whether it promotes is settled by its threshold when it is triggered.
ThresholdDecides ==
    \A w \in Flows :
        flow[w].pc = "promote" \/ flow[w].promoted =>
            flow[w].kind = "train" /\ flow[w].threshold <= 0

ExecutionInv == AttemptsBounded /\ RunIsOwn /\ ThresholdDecides

LEMMA InitExecution == Init => ExecutionInv
  <1> SUFFICES ASSUME Init PROVE ExecutionInv
    OBVIOUS
  <1>1. \A w \in Flows : \E k \in {"train", "backtest"}, t \in Int : flow[w] = NewFlow(k, t)
    BY PipelineAssumption DEF Init
  <1>2. \A k, t :
          /\ NewFlow(k, t).attempt = 0 /\ NewFlow(k, t).pc = "none"
          /\ NewFlow(k, t).run = NoRun /\ NewFlow(k, t).promoted = FALSE
    BY DEF NewFlow
  <1>3. AttemptsBounded
    <2>1. 0 < MaxAttempts
      BY PipelineAssumption
    <2>2. \A w \in Flows : flow[w].attempt = 0
      BY <1>1, <1>2
    <2> QED BY <2>1, <2>2 DEF AttemptsBounded
  <1>4. RunIsOwn /\ ThresholdDecides
    BY <1>1, <1>2 DEF RunIsOwn, ThresholdDecides
  <1> QED BY <1>3, <1>4 DEF ExecutionInv

LEMMA NextExecution ==
    ASSUME IInv, ExecutionInv, [Next]_vars
    PROVE  ExecutionInv'
  <1>0. \A w \in Flows : flow[w] \in FlowType
    BY DEF IInv, TypeOK
  <1>1. AttemptsBounded'
    <2> SUFFICES ASSUME NEW w \in Flows
                 PROVE  /\ flow'[w].attempt < MaxAttempts
                        /\ Stage(flow'[w].pc) = 0 => flow'[w].attempt = 0
      BY DEF AttemptsBounded
    <2>1. CASE flow'[w] = flow[w]
      BY <2>1 DEF ExecutionInv, AttemptsBounded
    <2>2. CASE Proceeds(flow[w], flow'[w])
      BY <2>2, PipelineAssumption DEF Proceeds, Again, Further
    <2>3. CASE Restarts(flow[w], flow'[w])
      BY <2>3, PipelineAssumption DEF Restarts
    <2> QED BY <2>1, <2>2, <2>3, NextFlowMoves
  <1>2. RunIsOwn'
    <2>1. ASSUME NEW w \in Flows
          PROVE  \/ flow'[w].run = flow[w].run
                 \/ flow'[w].run = NoRun
                 \/ run[flow'[w].run].status = "none" /\ run'[flow'[w].run].status = "running"
      BY NextFlowMoves DEF Proceeds, Again, Further, Restarts
    <2>2. ASSUME NEW w \in Flows, flow'[w].run # NoRun
          PROVE  run'[flow'[w].run].status # "none"
      BY <1>0, <2>1, <2>2, RunsStayBegun DEF FlowType, ExecutionInv, RunIsOwn
    <2>3. ASSUME NEW v \in Flows, NEW w \in Flows, v # w, flow'[v].run = flow'[w].run
          PROVE  flow'[v].run = NoRun
      <3>1. CASE flow' [v] = flow[v]
        BY <2>1, <2>3, <3>1 DEF ExecutionInv, RunIsOwn
      <3>2. CASE flow'[w] = flow[w]
        BY <2>1, <2>3, <3>2 DEF ExecutionInv, RunIsOwn
      <3>3. flow'[v] = flow[v] \/ flow'[w] = flow[w]
        <4>1. UNCHANGED flow \/ \E u \in Flows : Trigger(u) \/ FlowStep(u)
          BY DEF Next, UserRequest, TrainCrash, BacktestCrash, TrainTask, DecideBundle,
             BacktestTask, vars
        <4>2. ASSUME NEW u \in Flows, Trigger(u)
              PROVE  \A z \in Flows \ {u} : flow'[z] = flow[z]
          BY <4>2 DEF Trigger, IInv, TypeOK
        <4> QED BY <2>3, <4>1, <4>2, FlowStepProceeds
      <3> QED BY <3>1, <3>2, <3>3
    <2> QED BY <2>2, <2>3 DEF RunIsOwn
  <1>3. ThresholdDecides'
    <2> SUFFICES ASSUME NEW w \in Flows, flow'[w].pc = "promote" \/ flow'[w].promoted
                 PROVE  flow'[w].kind = "train" /\ flow'[w].threshold <= 0
      BY DEF ThresholdDecides
    <2>1. CASE flow'[w] = flow[w]
      BY <2>1 DEF ExecutionInv, ThresholdDecides
    <2>2. CASE Proceeds(flow[w], flow'[w])
      BY <2>2 DEF Proceeds, Again, Further, ExecutionInv, ThresholdDecides
    <2>3. CASE Restarts(flow[w], flow'[w])
      BY <2>3 DEF Restarts
    <2> QED BY <2>1, <2>2, <2>3, NextFlowMoves
  <1> QED BY <1>1, <1>2, <1>3 DEF ExecutionInv

\* Every step of a workflow uses up some of its work, and no other step, of a
\* service, a user or another workflow, ever adds to it while it is going.
WorkFalls ==
    \A w \in Flows :
        /\ FlowStep(w) => Work(flow'[w]) < Work(flow[w])
        /\ Stage(flow[w].pc) > 0 => Work(flow'[w]) <= Work(flow[w])
        /\ Work(flow[w]) \in 0 .. 5 * MaxAttempts

LEMMA NextWorkFalls ==
    ASSUME IInv, ExecutionInv, [Next]_vars
    PROVE  WorkFalls
  <1> SUFFICES ASSUME NEW w \in Flows
               PROVE  /\ FlowStep(w) => Work(flow'[w]) < Work(flow[w])
                      /\ Stage(flow[w].pc) > 0 => Work(flow'[w]) <= Work(flow[w])
                      /\ Work(flow[w]) \in 0 .. 5 * MaxAttempts
    BY DEF WorkFalls
  <1>1. TypeOK /\ AttemptsBounded
    BY DEF IInv, ExecutionInv
  <1>2. Work(flow[w]) \in Int /\ Work(flow'[w]) \in Int
    <2>1. IInv' /\ ExecutionInv'
      BY NextIInv, NextExecution
    <2>2. flow[w].attempt \in Int /\ flow'[w].attempt \in Int
      BY <2>1 DEF IInv, TypeOK, FlowType
    <2>3. Stage(flow[w].pc) \in Int /\ Stage(flow'[w].pc) \in Int /\ MaxAttempts \in Int
      BY PipelineAssumption DEF Stage
    <2> QED BY <2>2, <2>3 DEF Work
  <1>3. ASSUME Proceeds(flow[w], flow'[w]) PROVE Work(flow'[w]) < Work(flow[w])
    BY <1>1, <1>3, ProceedingWorks
  <1>4. FlowStep(w) => Work(flow'[w]) < Work(flow[w])
    BY <1>3, FlowStepProceeds
  <1>5. ASSUME Stage(flow[w].pc) > 0 PROVE Work(flow'[w]) <= Work(flow[w])
    <2>1. flow'[w] = flow[w] \/ Proceeds(flow[w], flow'[w])
      BY <1>5, NextFlowMoves DEF Restarts
    <2> QED BY <1>2, <1>3, <2>1
  <1> QED BY <1>1, <1>4, <1>5, WorkCounted

\* A workflow cannot go on for ever, whatever fails and however often it is
\* retried: what WorkflowEnds rests on besides fairness.
THEOREM WorkflowsWindDown == Spec => [][WorkFalls]_vars
  <1> QED BY InitIInv, NextIInv, InitExecution, NextExecution, NextWorkFalls, PTL DEF Spec

\* No two workflows ever hold the same training run.
THEOREM RunsAreOwn == Spec => []RunIsOwn
  <1>1. ExecutionInv => RunIsOwn
    BY DEF ExecutionInv
  <1> QED BY <1>1, InitIInv, NextIInv, InitExecution, NextExecution, PTL DEF Spec

\* No workflow with a positive threshold promotes, however its backtest ends.
THEOREM ThresholdsDecide == Spec => []ThresholdDecides
  <1>1. ExecutionInv => ThresholdDecides
    BY DEF ExecutionInv
  <1> QED BY <1>1, InitIInv, NextIInv, InitExecution, NextExecution, PTL DEF Spec
=============================================================================
