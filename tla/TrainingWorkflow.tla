-------------------------- MODULE TrainingWorkflow --------------------------
(***************************************************************************)
(* Training, backtesting and promoting a policy as one pipeline: the       *)
(* workflows of temporal-worker, the HTTP calls of their activities, the   *)
(* background task `train` of rl-train with its training_run row, model    *)
(* file and policy_bundle row, and the background task of backtest with    *)
(* its backtest_report row and files.                                      *)
(*                                                                         *)
(* A background task lives in the process that answered the request: a     *)
(* crash ends it and leaves its row as it was.  A database statement may   *)
(* raise having been applied.  Temporal keeps a workflow's progress over   *)
(* any crash of the worker and tries an activity a bounded number of       *)
(* times; an attempt may fail after its request has been served.  The      *)
(* approval of a policy and its promotion are one step each here           *)
(* (PolicyRegistry has them in detail).                                    *)
(*                                                                         *)
(* Operators named Mutant... are slips of the definition that follows them *)
(* and are used by no definition.                                          *)
(***************************************************************************)
EXTENDS Integers

CONSTANTS Flows,       \* workflow ids
          Runs,        \* training runs, each worth one policy at most
          Reports,     \* backtest reports
          MaxAttempts, \* RetryPolicy(maximum_attempts)
          Thresholds,  \* sharpe_threshold, as the trigger may set it
          NoRun        \* no training run

ASSUME PipelineAssumption ==
    /\ MaxAttempts \in Nat \ {0}
    /\ Thresholds \subseteq Int
    /\ NoRun \notin Runs

VARIABLES authDisabled, \* AUTH_DISABLED of the deployment
          run,     \* training_run: status, artifact_path
          task,    \* where the background task of a run is
          models,  \* runs whose model file is in the object store
          bundle,  \* policy_bundle of a run
          report,  \* backtest_report: status, the policy asked for, charts named
          job,     \* where the background task of a report is, its policy, charts drawn
          files,   \* reports whose charts or results are in the store
          flow     \* the latest execution under each workflow id

trainVars    == <<run, task, models, bundle>>
backtestVars == <<report, job, files>>
vars == <<authDisabled, trainVars, backtestVars, flow>>

RunType    == [status : {"none", "running", "completed", "failed"}, artifact : BOOLEAN]
Stages     == {"none", "train", "bundle", "record", "raised"}
\* What is pending and what was rejected are alike here: held back.
BundleType == [state : {"none", "held", "approved", "deleted"},
               promoted : BOOLEAN]
ReportType == [status : {"none", "running", "completed", "failed"},
               asked : Runs \cup {NoRun}, charts : BOOLEAN]
JobType    == [pc : {"none", "policy", "charts", "results", "record", "raised"},
               uses : Runs \cup {NoRun}, drawn : BOOLEAN]
FlowType   == [kind : {"train", "backtest"}, threshold : Int, attempt : Nat,
               pc : {"none", "start", "poll", "backtest", "promote", "notify", "complain",
                     "completed", "failed"},
               run : Runs \cup {NoRun}, promoted : BOOLEAN]

TypeOK ==
    /\ authDisabled \in BOOLEAN
    /\ run \in [Runs -> RunType]
    /\ task \in [Runs -> Stages]
    /\ models \subseteq Runs
    /\ bundle \in [Runs -> BundleType]
    /\ report \in [Reports -> ReportType]
    /\ job \in [Reports -> JobType]
    /\ files \in [Reports -> SUBSET {"charts", "results"}]
    /\ flow \in [Flows -> FlowType]

IdleJob == [pc |-> "none", uses |-> NoRun, drawn |-> FALSE]

NewFlow(kind, threshold) ==
    [kind |-> kind, threshold |-> threshold, attempt |-> 0, pc |-> "none",
     run |-> NoRun, promoted |-> FALSE]

Init ==
    /\ authDisabled \in BOOLEAN
    /\ run = [r \in Runs |-> [status |-> "none", artifact |-> FALSE]]
    /\ task = [r \in Runs |-> "none"]
    /\ models = {}
    /\ bundle = [r \in Runs |-> [state |-> "none", promoted |-> FALSE]]
    /\ report = [b \in Reports |-> [status |-> "none", asked |-> NoRun, charts |-> FALSE]]
    /\ job = [b \in Reports |-> IdleJob]
    /\ files = [b \in Reports |-> {}]
    /\ flow \in [Flows -> {NewFlow("train", t) : t \in Thresholds} \cup {NewFlow("backtest", 0)}]

-----------------------------------------------------------------------------
(* rl-train                                                                *)

\* A run that has not been used: any, and it does not matter which.
Fresh(r) == run[r].status = "none" /\ r = CHOOSE q \in Runs : run[q].status = "none"

\* create_run and add_task.
Begin(r) ==
    /\ Fresh(r)
    /\ run' = [run EXCEPT ![r].status = "running"]
    /\ task' = [task EXCEPT ![r] = "train"]
    /\ UNCHANGED <<models, bundle>>

Step(r, from, to) == task[r] = from /\ task' = [task EXCEPT ![r] = to]

\* Bars are loaded, there are enough of them, learning ends and the model is
\* put; the episode history that is put after it can only fail the run.
PutModel(r) ==
    /\ Step(r, "train", "bundle")
    /\ models' = models \cup {r}
    /\ UNCHANGED <<run, bundle>>

SavePolicyBundle(r) ==
    /\ Step(r, "bundle", "record")
    /\ bundle' = [bundle EXCEPT ![r].state = "held"]
    /\ UNCHANGED <<run, models>>

\* The run is completed before its bundle is saved.
MutantCompleteRun(r) ==
    /\ Step(r, "bundle", "record")
    /\ run' = [run EXCEPT ![r] = [status |-> "completed", artifact |-> TRUE]]
    /\ UNCHANGED <<models, bundle>>

\* The update is applied, and may raise all the same.
CompleteRun(r) ==
    /\ Step(r, "record", "none") \/ Step(r, "record", "raised")
    /\ run' = [run EXCEPT ![r] = [status |-> "completed", artifact |-> TRUE]]
    /\ UNCHANGED <<models, bundle>>

\* A status the column does not admit.
MutantFailRun(r) ==
    /\ task[r] # "none"
    /\ task' = [task EXCEPT ![r] = "none"]
    /\ run' = [run EXCEPT ![r] = [status |-> "error", artifact |-> FALSE]]
    /\ UNCHANGED <<models, bundle>>

\* Any step raises; the handler overwrites the row, also a completed one, and
\* leaves it as it is if that raises too.
FailRun(r) ==
    /\ task[r] # "none"
    /\ task' = [task EXCEPT ![r] = "none"]
    /\ \/ run' = [run EXCEPT ![r] = [status |-> "failed", artifact |-> FALSE]]
       \/ UNCHANGED run
    /\ UNCHANGED <<models, bundle>>

TrainCrash ==
    /\ task' = [r \in Runs |-> "none"]
    /\ UNCHANGED <<authDisabled, run, models, bundle, backtestVars, flow>>

TrainTask(r) ==
    /\ \/ PutModel(r) \/ SavePolicyBundle(r) \/ CompleteRun(r) \/ FailRun(r)
    /\ UNCHANGED <<authDisabled, backtestVars, flow>>

HasRow(r) == bundle[r].state \in {"held", "approved"}

\* The operator's requests to rl-train about the policy of a run: approve,
\* reject, delete.
DecideBundle(r) ==
    /\ HasRow(r)
    /\ \/ \E s \in {"approved", "held"} : bundle' = [bundle EXCEPT ![r].state = s]
       \/ bundle' = [bundle EXCEPT ![r] = [state |-> "deleted", promoted |-> FALSE]]
    /\ UNCHANGED <<authDisabled, run, task, models, backtestVars, flow>>

-----------------------------------------------------------------------------
(* backtest                                                                *)

\* create_backtest_record and add_task; r is NoRun without a policyId.
BeginReport(b, r) ==
    /\ report[b].status = "none"
    /\ report' = [report EXCEPT ![b] = [status |-> "running", asked |-> r, charts |-> FALSE]]
    /\ job' = [job EXCEPT ![b].pc = "policy"]
    /\ UNCHANGED files

JobStep(b, from, to) == job[b].pc = from /\ job' = [job EXCEPT ![b].pc = to]

\* The policy is looked up among those that are promoted.
MutantLoadPolicy(b) ==
    /\ job[b].pc = "policy"
    /\ LET asked == report[b].asked
           known == asked # NoRun /\ HasRow(asked) /\ bundle[asked].promoted
       IN  /\ known => asked \in models
           /\ job' = [job EXCEPT ![b].pc = "charts", ![b].uses = IF known THEN asked ELSE NoRun]
    /\ UNCHANGED <<report, files>>

\* A policy whose row is gone is replaced by buy-and-hold, silently.
LoadPolicy(b) ==
    /\ job[b].pc = "policy"
    /\ LET asked == report[b].asked
           known == asked # NoRun /\ HasRow(asked)
       IN  /\ known => asked \in models
           /\ job' = [job EXCEPT ![b].pc = "charts", ![b].uses = IF known THEN asked ELSE NoRun]
    /\ UNCHANGED <<report, files>>

\* The engine has run over every symbol with enough rows.  Where generate_charts
\* draws none (no matplotlib, no equity curve), none is stored and the report
\* goes on without.
UploadCharts(b) ==
    /\ job[b].pc = "charts"
    /\ \E drawn \in BOOLEAN :
          /\ job' = [job EXCEPT ![b].pc = "results", ![b].drawn = drawn]
          /\ files' = [files EXCEPT ![b] = IF drawn THEN @ \cup {"charts"} ELSE @]
    /\ UNCHANGED report

\* The charts are forgotten when the results are put.
MutantPutResults(b) ==
    /\ JobStep(b, "results", "record")
    /\ files' = [files EXCEPT ![b] = {"results"}]
    /\ UNCHANGED report

PutResults(b) ==
    /\ JobStep(b, "results", "record")
    /\ files' = [files EXCEPT ![b] = @ \cup {"results"}]
    /\ UNCHANGED report

\* update_backtest_record with the metrics, which name the charts; applied, it
\* may raise all the same.
CompleteReport(b) ==
    /\ JobStep(b, "record", "none") \/ JobStep(b, "record", "raised")
    /\ report' = [report EXCEPT ![b].status = "completed", ![b].charts = job[b].drawn]
    /\ UNCHANGED files

\* No data, too little of it, or an exception; the metrics become {}, else as
\* FailRun.
FailReport(b) ==
    /\ job[b].pc # "none"
    /\ job' = [job EXCEPT ![b].pc = "none"]
    /\ \/ report' = [report EXCEPT ![b].status = "failed", ![b].charts = FALSE]
       \/ UNCHANGED report
    /\ UNCHANGED files

BacktestCrash ==
    /\ job' = [b \in Reports |-> [job[b] EXCEPT !.pc = "none"]]
    /\ UNCHANGED <<authDisabled, trainVars, report, files, flow>>

BacktestTask(b) ==
    /\ \/ LoadPolicy(b) \/ UploadCharts(b) \/ PutResults(b)
       \/ CompleteReport(b) \/ FailReport(b)
    /\ UNCHANGED <<authDisabled, trainVars, flow>>

\* The policy ids a user may have seen; NoRun for none.
KnownPolicies == {NoRun} \cup {r \in Runs : bundle[r].state # "none"}

UserRequest ==
    \/ \E r \in Runs : Begin(r) /\ UNCHANGED <<authDisabled, backtestVars, flow>>
    \/ \E b \in Reports, r \in KnownPolicies :
          BeginReport(b, r) /\ UNCHANGED <<authDisabled, trainVars, flow>>

-----------------------------------------------------------------------------
(* temporal-worker                                                         *)

\* ALLOW_DUPLICATE_FAILED_ONLY: the id is free, or its execution has failed.
Trigger(w) ==
    /\ flow[w].pc \in {"none", "failed"}
    /\ LET first == IF flow[w].kind = "train" THEN "start" ELSE "backtest"
       IN  flow' = [flow EXCEPT ![w].pc = first, ![w].attempt = 0, ![w].run = NoRun,
                                ![w].promoted = FALSE]
    /\ UNCHANGED <<authDisabled, trainVars, backtestVars>>

\* The next activity, its attempts to be counted from zero.
Go(w, pc) == flow' = [flow EXCEPT ![w].pc = pc, ![w].attempt = 0]

\* An attempt fails; the last one fails the workflow, or, in a BacktestWorkflow,
\* sends it to tell of it first.
Retry(w) ==
    LET f == flow[w] IN
    IF f.attempt + 1 < MaxAttempts
    THEN flow' = [flow EXCEPT ![w].attempt = @ + 1]
    ELSE Go(w, IF f.kind = "backtest" THEN "complain" ELSE "failed")

\* POST /rl/train is served, and answered or not.
StartTrainingRun(w, r) ==
    /\ flow[w].pc = "start"
    /\ Begin(r)
    /\ \/ flow' = [flow EXCEPT ![w].pc = "poll", ![w].attempt = 0, ![w].run = r]
       \/ Retry(w)
    /\ UNCHANGED <<authDisabled, backtestVars>>

\* A poll that takes the row's existence for an answer.
MutantPollTrainingRun(w) ==
    /\ flow[w].pc = "poll"
    /\ run[flow[w].run].status \in {"running", "completed"}
    /\ Go(w, "backtest")
    /\ UNCHANGED <<authDisabled, trainVars, backtestVars>>

PollTrainingRun(w) ==
    /\ flow[w].pc = "poll"
    /\ run[flow[w].run].status = "completed"
    /\ run[flow[w].run].artifact
    /\ Go(w, "backtest")
    /\ UNCHANGED <<authDisabled, trainVars, backtestVars>>

\* The run has failed, or six hours are over since the polling began,
\* whatever the run has become since the last poll: both are told, and end the
\* workflow as completed.
PollGivesUp(w) ==
    /\ flow[w].pc = "poll"
    /\ Go(w, "complain")
    /\ UNCHANGED <<authDisabled, trainVars, backtestVars>>

\* One attempt only: an error of any of the polls fails the workflow.
PollFails(w) ==
    /\ flow[w].pc = "poll"
    /\ Go(w, "failed")
    /\ UNCHANGED <<authDisabled, trainVars, backtestVars>>

\* The answer holds a report id and the status "running": the Sharpe ratio
\* that it has not is taken for 0.
SharpeSeen == 0

AfterBacktest(f) ==
    IF f.kind = "backtest" THEN "completed"
    ELSE IF SharpeSeen >= f.threshold THEN "promote" ELSE "notify"

\* POST /backtest/run, without a token and without a policyId.
RunBacktest(w, b) ==
    /\ flow[w].pc = "backtest"
    /\ authDisabled
    /\ BeginReport(b, NoRun)
    /\ Go(w, AfterBacktest(flow[w])) \/ Retry(w)
    /\ UNCHANGED <<authDisabled, trainVars>>

\* Any policy of the table is promoted when the run's has gone.
MutantPromotePolicy(w) ==
    /\ flow[w].pc = "promote"
    /\ \E r \in Runs :
          /\ bundle[r].state = "approved"
          /\ bundle' = [bundle EXCEPT ![r].promoted = TRUE]
    /\ \/ flow' = [flow EXCEPT ![w].pc = "notify", ![w].attempt = 0, ![w].promoted = TRUE]
       \/ Retry(w)
    /\ UNCHANGED <<authDisabled, run, task, models, backtestVars>>

\* The run's policy is found and promoted; the answer may be lost.
PromotePolicy(w) ==
    LET r == flow[w].run IN
    /\ flow[w].pc = "promote"
    /\ bundle[r].state = "approved"
    /\ bundle' = [bundle EXCEPT ![r].promoted = TRUE]
    /\ \/ flow' = [flow EXCEPT ![w].pc = "notify", ![w].attempt = 0, ![w].promoted = TRUE]
       \/ Retry(w)
    /\ UNCHANGED <<authDisabled, run, task, models, backtestVars>>

\* An attempt is tried again without a limit.
MutantAttemptFails(w) ==
    /\ flow[w].pc \in {"start", "backtest", "promote"}
    /\ flow' = [flow EXCEPT ![w].attempt = (@ + 1) % MaxAttempts]
    /\ UNCHANGED <<authDisabled, trainVars, backtestVars>>

\* Timeout, network error, 401 of a backtest, a policy that is not approved or
\* not there: the attempt has changed nothing.
AttemptFails(w) ==
    /\ flow[w].pc \in {"start", "backtest", "promote"}
    /\ Retry(w)
    /\ UNCHANGED <<authDisabled, trainVars, backtestVars>>

\* notify_slack swallows its errors; only its own timeout fails it, and then
\* the workflow, whatever has been done.
Notify(w) ==
    /\ flow[w].pc \in {"notify", "complain"}
    /\ \/ Go(w, IF flow[w].pc = "complain" /\ flow[w].kind = "backtest"
                THEN "failed" ELSE "completed")
       \/ Go(w, "failed")
    /\ UNCHANGED <<authDisabled, trainVars, backtestVars>>

FlowStep(w) ==
    \/ \E r \in Runs : StartTrainingRun(w, r)
    \/ PollTrainingRun(w) \/ PollGivesUp(w) \/ PollFails(w)
    \/ \E b \in Reports : RunBacktest(w, b)
    \/ PromotePolicy(w) \/ AttemptFails(w) \/ Notify(w)

-----------------------------------------------------------------------------
Next ==
    \/ UserRequest \/ TrainCrash \/ BacktestCrash
    \/ \E r \in Runs : TrainTask(r) \/ DecideBundle(r)
    \/ \E b \in Reports : BacktestTask(b)
    \/ \E w \in Flows : Trigger(w) \/ FlowStep(w)

Spec == Init /\ [][Next]_vars

\* Temporal goes on with a workflow, whose every activity has a timeout; no
\* background task of rl-train or of backtest has to make progress.
FairSpec == Spec /\ \A w \in Flows : WF_vars(FlowStep(w))

-----------------------------------------------------------------------------
(* Properties                                                              *)

\* Whatever fails on the way, or is applied and reported as failed: a policy
\* that can be decided about has its model in the store, and a run that says
\* completed has a policy, unless that was deleted.
PolicyHasModel ==
    \A r \in Runs :
        /\ bundle[r].state # "none" => r \in models
        /\ run[r].status = "completed" => run[r].artifact /\ bundle[r].state # "none"

\* A report says completed only when its results are stored, the charts it names
\* are stored too (it names none where none was drawn), and it is a report of
\* the policy that was asked for as long as that exists.
ReportIsTrue ==
    \A b \in Reports : report[b].status = "completed" =>
        /\ "results" \in files[b]
        /\ report[b].charts => "charts" \in files[b]
        /\ report[b].asked # NoRun /\ HasRow(report[b].asked) => job[b].uses = report[b].asked

\* A workflow that is past its training has a run of its own whose policy was
\* registered, and when it says that it has promoted it, it has.
WorkflowIsTrue ==
    \A w \in Flows :
        LET f == flow[w] IN
        /\ f.kind = "train" /\ f.pc \in {"backtest", "promote", "notify"} =>
              f.run # NoRun /\ bundle[f.run].state # "none"
        /\ f.promoted => bundle[f.run].promoted \/ bundle[f.run].state = "deleted"

\* A workflow ends, also when rl-train dies with its run and the row says
\* "running" for ever.
WorkflowEnds ==
    \A w \in Flows :
        flow[w].pc \notin {"none", "completed", "failed"} ~> flow[w].pc \in {"completed", "failed"}
=============================================================================
