--------------------------- MODULE PolicyRegistry ---------------------------
(***************************************************************************)
(* The life of a trained policy: the policy_bundle table, which rl-train   *)
(* and kaggle-orchestrator both write (approve, reject, promote, delete;   *)
(* a job's reviewer approves or rejects the job's policy with the job),    *)
(* and rl-infer's cache of loaded policies with the active one.            *)
(*                                                                         *)
(* A handler that reads a row and then writes it is two steps, since       *)
(* neither service locks the row; a handler that is one UPDATE is one      *)
(* step.  NOW() is when the transaction began, so a promotion carries the  *)
(* time of its read.  A model file is never deleted or overwritten under   *)
(* its key (the key holds the run's id), so that loading a policy is       *)
(* represented by its id.                                                  *)
(*                                                                         *)
(* Operators named Mutant... are slips of the definition that follows them *)
(* and are used by no definition.                                          *)
(***************************************************************************)
EXTENDS Naturals

CONSTANTS Policies,   \* ids of policy_bundle rows
          Jobs,       \* ids of kaggle_training_job rows
          Requests,   \* slots for handlers between their read and their write
          Loads,      \* slots for loads in progress at rl-infer
          MaxClock,   \* how many promotions may begin
          Nobody      \* no policy

ASSUME RegistryAssumption == MaxClock \in Nat /\ Nobody \notin Policies

VARIABLES policy,   \* policy_bundle: approval status, promoted, promoted_at
          clock,    \* the database's clock, ticking with promotions
          job,      \* kaggle_training_job: status, approval status, policy
          request,  \* handlers that have read and not yet written
          cache,    \* PolicyCache._policies: what is loaded
          active,   \* PolicyCache._active_id
          startup,  \* rl-infer's lifespan: load_promoted_policy, then serving
          load,     \* loads in progress
          cleared,  \* history: policies that have been approved at some time
          byHand    \* history: has an operator chosen the active policy?

tables == <<policy, clock, job>>
infer  == <<cache, active, startup, load>>
vars   == <<tables, request, infer, cleared, byHand>>

Decisions == {"pending", "approved", "rejected"}

PolicyType  == [state : Decisions \cup {"absent", "deleted"}, promoted : BOOLEAN, at : Nat]
JobType     == [status : {"absent", "preparing", "pending_approval", "completed", "cancelled"},
                approval : Decisions, policy : Policies \cup {Nobody}]
RequestType == [op : {"none", "promote"}, policy : Policies \cup {Nobody}, at : Nat]
               \cup [op : {"approve", "reject", "cancel"}, policy : Policies \cup {Nobody},
                     job : Jobs]
LoadType    == [pc : {"idle", "found", "loaded"}, policy : Policies \cup {Nobody},
                activate : BOOLEAN]
StartupType == [pc : {"query", "load", "serving"}, policy : Policies \cup {Nobody}]

TypeOK ==
    /\ policy \in [Policies -> PolicyType]
    /\ clock \in Nat
    /\ job \in [Jobs -> JobType]
    /\ request \in [Requests -> RequestType]
    /\ cache \subseteq Policies
    /\ active \in Policies \cup {Nobody}
    /\ startup \in StartupType
    /\ load \in [Loads -> LoadType]
    /\ cleared \subseteq Policies
    /\ byHand \in BOOLEAN

NoRow     == [state |-> "absent", promoted |-> FALSE, at |-> 0]
NoJob     == [status |-> "absent", approval |-> "pending", policy |-> Nobody]
NoRequest == [op |-> "none", policy |-> Nobody, at |-> 0]
NoLoad    == [pc |-> "idle", policy |-> Nobody, activate |-> FALSE]

Init ==
    /\ policy = [p \in Policies |-> NoRow]
    /\ clock = 0
    /\ job = [j \in Jobs |-> NoJob]
    /\ request = [r \in Requests |-> NoRequest]
    /\ cache = {} /\ active = Nobody
    /\ startup = [pc |-> "query", policy |-> Nobody]
    /\ load = [l \in Loads |-> NoLoad]
    /\ cleared = {} /\ byHand = FALSE

-----------------------------------------------------------------------------
(* rl-train                                                                *)

HasRow(p) == policy[p].state \in Decisions

\* The end of a training run.
SavePolicyBundle(p) ==
    /\ policy[p].state = "absent"
    /\ policy' = [policy EXCEPT ![p].state = "pending"]
    /\ UNCHANGED <<clock, job, request, infer, cleared, byHand>>

\* Unconditional: also what was rejected, also again.
Approve(p) ==
    /\ HasRow(p)
    /\ policy' = [policy EXCEPT ![p].state = "approved"]
    /\ cleared' = cleared \cup {p}
    /\ UNCHANGED <<clock, job, request, infer, byHand>>

\* promoted is left as it is.
Reject(p) ==
    /\ HasRow(p)
    /\ policy' = [policy EXCEPT ![p].state = "rejected"]
    /\ UNCHANGED <<clock, job, request, infer, cleared, byHand>>

\* A test for what was rejected instead of for what was approved.
MutantPromoteReads(r, p) ==
    /\ request[r] = NoRequest
    /\ policy[p].state \in {"pending", "approved"}
    /\ clock < MaxClock
    /\ clock' = clock + 1
    /\ request' = [request EXCEPT ![r] = [op |-> "promote", policy |-> p, at |-> clock + 1]]
    /\ UNCHANGED <<policy, job, infer, cleared, byHand>>

\* SELECT approval_status, without a lock; the transaction begins here.
PromoteReads(r, p) ==
    /\ request[r] = NoRequest
    /\ policy[p].state = "approved"
    /\ clock < MaxClock
    /\ clock' = clock + 1
    /\ request' = [request EXCEPT ![r] = [op |-> "promote", policy |-> p, at |-> clock + 1]]
    /\ UNCHANGED <<policy, job, infer, cleared, byHand>>

\* INSERT ... ON CONFLICT DO UPDATE instead of the UPDATE.
MutantPromoteWrites(r) ==
    LET q == request[r] IN
    /\ q.op = "promote"
    /\ policy' = [policy EXCEPT ![q.policy] =
                     [state |-> "approved", promoted |-> TRUE, at |-> q.at]]
    /\ request' = [request EXCEPT ![r] = NoRequest]
    /\ UNCHANGED <<clock, job, infer, cleared, byHand>>

\* The UPDATE: of no row, when the policy has been deleted meanwhile.  Others
\* stay promoted.
PromoteWrites(r) ==
    LET q == request[r] IN
    /\ q.op = "promote"
    /\ policy' = IF HasRow(q.policy)
                 THEN [policy EXCEPT ![q.policy].promoted = TRUE, ![q.policy].at = q.at]
                 ELSE policy
    /\ request' = [request EXCEPT ![r] = NoRequest]
    /\ UNCHANGED <<clock, job, infer, cleared, byHand>>

DeletePolicy(p) ==
    /\ HasRow(p)
    /\ policy' = [policy EXCEPT ![p] = [NoRow EXCEPT !.state = "deleted"]]
    /\ UNCHANGED <<clock, job, request, infer, cleared, byHand>>

-----------------------------------------------------------------------------
(* kaggle-orchestrator                                                     *)

CreateJob(j) ==
    /\ job[j].status = "absent"
    /\ job' = [job EXCEPT ![j].status = "preparing"]
    /\ UNCHANGED <<policy, clock, request, infer, cleared, byHand>>

\* Whoever follows the kernel (nobody in this repository) names the policy.
UpdateJob(j, status, p) ==
    /\ job[j].status = "preparing"
    /\ HasRow(p)
    /\ job' = [job EXCEPT ![j].status = status, ![j].policy = p]
    /\ UNCHANGED <<policy, clock, request, infer, cleared, byHand>>

\* The statuses in which each decision is taken.
Admissible(op, status) ==
    CASE op = "approve" -> status = "pending_approval"
      [] op = "reject"  -> status \in {"pending_approval", "completed"}
      [] op = "cancel"  -> status \in {"preparing", "pending_approval"}

\* get_job_row, in a connection of its own.
ReadJob(r, j, op) ==
    /\ request[r] = NoRequest
    /\ Admissible(op, job[j].status)
    /\ request' = [request EXCEPT ![r] = [op |-> op, policy |-> job[j].policy, job |-> j]]
    /\ UNCHANGED <<tables, infer, cleared, byHand>>

\* The job is approved in a transaction before the policy's.
MutantApproveJob(r) ==
    LET q == request[r] IN
    /\ q.op = "approve"
    /\ job' = [job EXCEPT ![q.job].approval = "approved"]
    /\ request' = [request EXCEPT ![r] = [op |-> "promote", policy |-> q.policy, at |-> clock]]
    /\ UNCHANGED <<policy, clock, infer, cleared, byHand>>

\* One transaction: the job is approved, its policy approved and promoted,
\* whatever anyone has decided about either.
ApproveJob(r) ==
    LET q == request[r] IN
    /\ q.op = "approve"
    /\ clock < MaxClock
    /\ clock' = clock + 1
    /\ job' = [job EXCEPT ![q.job].approval = "approved"]
    /\ IF q.policy # Nobody /\ HasRow(q.policy)
       THEN /\ policy' = [policy EXCEPT ![q.policy] =
                             [state |-> "approved", promoted |-> TRUE, at |-> clock + 1]]
            /\ cleared' = cleared \cup {q.policy}
       ELSE UNCHANGED <<policy, cleared>>
    /\ request' = [request EXCEPT ![r] = NoRequest]
    /\ UNCHANGED <<infer, byHand>>

RejectJob(r) ==
    LET q == request[r] IN
    /\ q.op = "reject"
    /\ job' = [job EXCEPT ![q.job].approval = "rejected"]
    /\ policy' = IF q.policy # Nobody /\ HasRow(q.policy)
                 THEN [policy EXCEPT ![q.policy].state = "rejected"]
                 ELSE policy
    /\ request' = [request EXCEPT ![r] = NoRequest]
    /\ UNCHANGED <<clock, infer, cleared, byHand>>

\* The status goes into the wrong column.
MutantCancelJob(r) ==
    LET q == request[r] IN
    /\ q.op = "cancel"
    /\ job' = [job EXCEPT ![q.job].approval = "cancelled"]
    /\ request' = [request EXCEPT ![r] = NoRequest]
    /\ UNCHANGED <<policy, clock, infer, cleared, byHand>>

\* The status found at the read is not looked at again.
CancelJob(r) ==
    LET q == request[r] IN
    /\ q.op = "cancel"
    /\ job' = [job EXCEPT ![q.job].status = "cancelled"]
    /\ request' = [request EXCEPT ![r] = NoRequest]
    /\ UNCHANGED <<policy, clock, infer, cleared, byHand>>

\* The process dies or the database fails: the transaction is rolled back.
LoseRequest(r) ==
    /\ request[r].op # "none"
    /\ request' = [request EXCEPT ![r] = NoRequest]
    /\ UNCHANGED <<tables, infer, cleared, byHand>>

-----------------------------------------------------------------------------
(* rl-infer                                                                *)

\* Any promoted policy, the newest first.
NewestPromoted(p) ==
    /\ policy[p].promoted
    /\ \A o \in Policies : policy[o].promoted => policy[o].at <= policy[p].at

\* The newest policy, promoted or not.
MutantStartupReads(p) ==
    /\ startup.pc = "query"
    /\ HasRow(p)
    /\ startup' = [pc |-> "load", policy |-> p]
    /\ UNCHANGED <<tables, request, cache, active, load, cleared, byHand>>

StartupReads(p) ==
    /\ startup.pc = "query"
    /\ NewestPromoted(p)
    /\ startup' = [pc |-> "load", policy |-> p]
    /\ UNCHANGED <<tables, request, cache, active, load, cleared, byHand>>

StartupLoads ==
    /\ startup.pc = "load"
    /\ cache' = cache \cup {startup.policy}
    /\ active' = startup.policy
    /\ startup' = [pc |-> "serving", policy |-> Nobody]
    /\ UNCHANGED <<tables, request, load, cleared, byHand>>

\* Nothing is promoted, or the database or the store fails: it serves HOLD.
StartupGivesUp ==
    /\ startup.pc # "serving"
    /\ startup' = [pc |-> "serving", policy |-> Nobody]
    /\ UNCHANGED <<tables, request, cache, active, load, cleared, byHand>>

\* POST /infer/load, or an inference that names a policy that is not loaded:
\* any row of the table will do.
LoadReads(l, p, activate) ==
    /\ startup.pc = "serving"
    /\ load[l] = NoLoad
    /\ HasRow(p)
    /\ load' = [load EXCEPT ![l] = [pc |-> "found", policy |-> p, activate |-> activate]]
    /\ UNCHANGED <<tables, request, cache, active, startup, cleared, byHand>>

\* Activated before the download has succeeded.
MutantLoadStores(l) ==
    /\ load[l].pc = "found"
    /\ load' = [load EXCEPT ![l] = NoLoad]
    /\ \/ cache' = cache \cup {load[l].policy}
       \/ UNCHANGED cache
    /\ IF load[l].activate
       THEN active' = load[l].policy /\ byHand' = TRUE
       ELSE UNCHANGED <<active, byHand>>
    /\ UNCHANGED <<tables, request, startup, cleared>>

\* CACHE.load returns.
LoadStores(l) ==
    /\ load[l].pc = "found"
    /\ cache' = cache \cup {load[l].policy}
    /\ load' = [load EXCEPT ![l] = IF @.activate THEN [@ EXCEPT !.pc = "loaded"] ELSE NoLoad]
    /\ UNCHANGED <<tables, request, active, startup, cleared, byHand>>

LoadActivates(l) ==
    /\ load[l].pc = "loaded"
    /\ active' = load[l].policy
    /\ byHand' = TRUE
    /\ load' = [load EXCEPT ![l] = NoLoad]
    /\ UNCHANGED <<tables, request, cache, startup, cleared>>

LoadFails(l) ==
    /\ load[l].pc = "found"
    /\ load' = [load EXCEPT ![l] = NoLoad]
    /\ UNCHANGED <<tables, request, cache, active, startup, cleared, byHand>>

Activate(p) ==
    /\ startup.pc = "serving"
    /\ p \in cache
    /\ active' = p
    /\ byHand' = TRUE
    /\ UNCHANGED <<tables, request, cache, startup, load, cleared>>

\* The process dies and comes back with nothing loaded.
RestartInfer ==
    /\ cache' = {} /\ active' = Nobody /\ byHand' = FALSE
    /\ startup' = [pc |-> "query", policy |-> Nobody]
    /\ load' = [l \in Loads |-> NoLoad]
    /\ UNCHANGED <<tables, request, cleared>>

-----------------------------------------------------------------------------
Train(p) == SavePolicyBundle(p) \/ Approve(p) \/ Reject(p) \/ DeletePolicy(p)

Kaggle(j) ==
    \/ CreateJob(j)
    \/ \E p \in Policies, status \in {"pending_approval", "completed"} : UpdateJob(j, status, p)
    \/ \E r \in Requests, op \in {"approve", "reject", "cancel"} : ReadJob(r, j, op)

Finish(r) ==
    PromoteWrites(r) \/ ApproveJob(r) \/ RejectJob(r) \/ CancelJob(r) \/ LoseRequest(r)

Infer ==
    \/ \E p \in Policies : StartupReads(p) \/ Activate(p)
    \/ StartupLoads \/ StartupGivesUp \/ RestartInfer
    \/ \E l \in Loads :
          \/ \E p \in Policies, activate \in BOOLEAN : LoadReads(l, p, activate)
          \/ LoadStores(l) \/ LoadActivates(l) \/ LoadFails(l)

Next ==
    \/ \E p \in Policies : Train(p) \/ \E r \in Requests : PromoteReads(r, p)
    \/ \E j \in Jobs : Kaggle(j)
    \/ \E r \in Requests : Finish(r)
    \/ Infer

Spec == Init /\ [][Next]_vars

-----------------------------------------------------------------------------
(* Properties                                                              *)

\* What rl-infer falls back on for every request that names no policy is
\* loaded, across loads that fail half way, deletions and restarts: such a
\* request never waits for a download or meets a 404.
ActiveIsLoaded == active # Nobody => active \in cache

\* Unless an operator has chosen it, the policy rl-infer serves is one that
\* somebody approved, at whatever time it was deleted or rejected since.
StartupServesApproved == active # Nobody /\ ~byHand => active \in cleared

\* A job that stands approved has put its policy into service, and nothing but
\* a deletion takes it out again.
ApprovedJobIsReleased ==
    \A j \in Jobs :
        job[j].approval = "approved" /\ job[j].policy # Nobody =>
            policy[job[j].policy].promoted \/ policy[job[j].policy].state = "deleted"

\* How far a policy has come, for PromotionGate.
Stage(p) ==
    IF ~HasRow(p) THEN policy[p].state
    ELSE IF policy[p].promoted THEN "released"
    ELSE IF p \in cleared THEN "cleared"
    ELSE "waiting"

StageOf == [p \in Policies |-> Stage(p)]

Gate == INSTANCE PromotionGate WITH gate <- StageOf

\* The two services together keep the promise of PromotionGate, although the
\* approval is read and the promotion written in two unlocked steps.
ImplementsGate == Gate!Spec
=============================================================================
