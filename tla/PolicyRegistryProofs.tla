------------------------ MODULE PolicyRegistryProofs ------------------------
(***************************************************************************)
(* Theorems about the registry of policies and rl-infer's cache, for any   *)
(* number of policies, jobs, requests and loads.                           *)
(***************************************************************************)
EXTENDS PolicyRegistry, TLAPS

-----------------------------------------------------------------------------
(* The inductive invariant.                                                *)

\* What is promoted, or about to be, has been approved; what has been
\* approved has had a row.
Registry ==
    /\ \A p \in Policies :
          /\ policy[p].promoted => HasRow(p) /\ p \in cleared
          /\ policy[p].state = "approved" => p \in cleared
          /\ p \in cleared => policy[p].state # "absent"
    /\ \A r \in Requests : request[r].op = "promote" => request[r].policy \in cleared

\* A job's policy is settled before the job can be decided about, so that a
\* reviewer's request still names it when it is written.
JobsSettled ==
    /\ \A j \in Jobs :
          /\ job[j].policy # Nobody => policy[job[j].policy].state # "absent"
          /\ job[j].approval = "approved" => job[j].status \notin {"absent", "preparing"}
    /\ \A r \in Requests : request[r].op = "approve" =>
          /\ job[request[r].job].policy = request[r].policy
          /\ job[request[r].job].status \notin {"absent", "preparing"}

\* rl-infer activates what it has loaded; its start-up loads what was approved.
Serving ==
    /\ ActiveIsLoaded
    /\ StartupServesApproved
    /\ \A l \in Loads :
          /\ load[l].pc # "idle" => load[l].policy \in Policies
          /\ load[l].pc = "loaded" => load[l].policy \in cache
    /\ startup.pc = "load" => startup.policy \in cleared /\ startup.policy \in Policies

IInv == TypeOK /\ Registry /\ JobsSettled /\ ApprovedJobIsReleased /\ Serving

-----------------------------------------------------------------------------
\* Types of the values a step makes.
LEMMA MadeValues ==
    /\ NoRow \in PolicyType /\ NoJob \in JobType /\ NoLoad \in LoadType
    /\ NoRequest \in RequestType
    /\ [NoRow EXCEPT !.state = "deleted"] \in PolicyType
    /\ \A p \in Policies, n \in Nat :
          /\ [op |-> "promote", policy |-> p, at |-> n] \in RequestType
          /\ [state |-> "approved", promoted |-> TRUE, at |-> n] \in PolicyType
    /\ \A p \in Policies \cup {Nobody}, j \in Jobs, op \in {"approve", "reject", "cancel"} :
          [op |-> op, policy |-> p, job |-> j] \in RequestType
    /\ \A p \in Policies, b \in BOOLEAN :
          [pc |-> "found", policy |-> p, activate |-> b] \in LoadType
    /\ \A p \in Policies \cup {Nobody}, pc \in {"query", "load", "serving"} :
          [pc |-> pc, policy |-> p] \in StartupType
  BY DEF NoRow, NoJob, NoLoad, NoRequest, PolicyType, JobType, LoadType, RequestType,
         StartupType, Decisions

\* Types of the values a step changes.
LEMMA ChangedRows ==
    ASSUME NEW row \in PolicyType
    PROVE  /\ \A d \in Decisions : [row EXCEPT !.state = d] \in PolicyType
           /\ \A n \in Nat : [row EXCEPT !.promoted = TRUE, !.at = n] \in PolicyType
  BY DEF PolicyType, Decisions

LEMMA ChangedJobs ==
    ASSUME NEW row \in JobType
    PROVE  /\ \A d \in Decisions : [row EXCEPT !.approval = d] \in JobType
           /\ [row EXCEPT !.status = "cancelled"] \in JobType
           /\ [row EXCEPT !.status = "preparing"] \in JobType
           /\ \A p \in Policies, status \in {"pending_approval", "completed"} :
                 [row EXCEPT !.status = status, !.policy = p] \in JobType
  BY DEF JobType, Decisions

LEMMA ChangedLoads ==
    ASSUME NEW row \in LoadType PROVE [row EXCEPT !.pc = "loaded"] \in LoadType
  BY DEF LoadType

LEMMA InitIInv == Init => IInv
  <1> SUFFICES ASSUME Init PROVE IInv
    OBVIOUS
  <1>1. TypeOK
    BY MadeValues DEF Init, TypeOK
  <1>2. Registry /\ JobsSettled /\ ApprovedJobIsReleased
    BY DEF Init, Registry, JobsSettled, ApprovedJobIsReleased, NoRow, NoJob, NoRequest, HasRow
  <1>3. Serving
    BY DEF Init, Serving, ActiveIsLoaded, StartupServesApproved, NoLoad
  <1> QED BY <1>1, <1>2, <1>3 DEF IInv

\* A promotion in progress names a policy, a decision in progress a job.
LEMMA RequestFacts ==
    ASSUME TypeOK, NEW r \in Requests
    PROVE  /\ request[r].op = "promote" =>
                 request[r].policy \in Policies \cup {Nobody} /\ request[r].at \in Nat
           /\ request[r].op \in {"approve", "reject", "cancel"} =>
                 request[r].policy \in Policies \cup {Nobody} /\ request[r].job \in Jobs
  BY DEF TypeOK, RequestType

\* Every step of the two services and of rl-infer keeps the invariant.
LEMMA NextIInv ==
    ASSUME IInv, [Next]_vars
    PROVE  IInv'
  <1> USE DEF IInv, tables, infer
  <1>1. ASSUME NEW p \in Policies, SavePolicyBundle(p) PROVE IInv'
    <2>1. TypeOK'
      BY <1>1, MadeValues, RequestFacts DEF SavePolicyBundle, TypeOK, HasRow, PolicyType, JobType, LoadType,
         RequestType, StartupType, Decisions
    <2>2. Registry'
      BY <1>1, RequestFacts, RegistryAssumption DEF SavePolicyBundle, TypeOK, Registry, HasRow, Decisions, NoRow,
         NoRequest, PolicyType
    <2>3. JobsSettled' /\ ApprovedJobIsReleased'
      BY <1>1, RequestFacts, RegistryAssumption DEF SavePolicyBundle, TypeOK, Registry, JobsSettled,
         ApprovedJobIsReleased, HasRow, Decisions, NoRow, NoRequest, PolicyType, JobType
    <2>4. Serving'
      BY <1>1, RegistryAssumption DEF SavePolicyBundle, TypeOK, Registry, Serving, ActiveIsLoaded,
         StartupServesApproved, NoLoad, LoadType, StartupType
    <2> QED BY <2>1, <2>2, <2>3, <2>4
  <1>2. ASSUME NEW p \in Policies, Approve(p) PROVE IInv'
    <2>1. TypeOK'
      BY <1>2, ChangedRows DEF Approve, TypeOK, Decisions
    <2>2. Registry'
      BY <1>2, RequestFacts, RegistryAssumption DEF Approve, TypeOK, Registry, HasRow, Decisions, NoRow,
         NoRequest, PolicyType
    <2>3. JobsSettled' /\ ApprovedJobIsReleased'
      BY <1>2, RequestFacts, RegistryAssumption DEF Approve, TypeOK, Registry, JobsSettled,
         ApprovedJobIsReleased, HasRow, Decisions, NoRow, NoRequest, PolicyType, JobType
    <2>4. Serving'
      BY <1>2, RegistryAssumption DEF Approve, TypeOK, Registry, Serving, ActiveIsLoaded,
         StartupServesApproved, NoLoad, LoadType, StartupType
    <2> QED BY <2>1, <2>2, <2>3, <2>4
  <1>3. ASSUME NEW p \in Policies, Reject(p) PROVE IInv'
    <2>1. TypeOK'
      BY <1>3, MadeValues, RequestFacts DEF Reject, TypeOK, HasRow, PolicyType, JobType, LoadType,
         RequestType, StartupType, Decisions
    <2>2. Registry'
      BY <1>3, RequestFacts, RegistryAssumption DEF Reject, TypeOK, Registry, HasRow, Decisions, NoRow,
         NoRequest, PolicyType
    <2>3. JobsSettled' /\ ApprovedJobIsReleased'
      BY <1>3, RequestFacts, RegistryAssumption DEF Reject, TypeOK, Registry, JobsSettled,
         ApprovedJobIsReleased, HasRow, Decisions, NoRow, NoRequest, PolicyType, JobType
    <2>4. Serving'
      BY <1>3, RegistryAssumption DEF Reject, TypeOK, Registry, Serving, ActiveIsLoaded,
         StartupServesApproved, NoLoad, LoadType, StartupType
    <2> QED BY <2>1, <2>2, <2>3, <2>4
  <1>4. ASSUME NEW p \in Policies, DeletePolicy(p) PROVE IInv'
    <2>1. TypeOK'
      BY <1>4, MadeValues, RequestFacts DEF DeletePolicy, TypeOK, HasRow, PolicyType, JobType, LoadType,
         RequestType, StartupType, Decisions
    <2>2. Registry'
      BY <1>4, RequestFacts, RegistryAssumption DEF DeletePolicy, TypeOK, Registry, HasRow, Decisions, NoRow,
         NoRequest, PolicyType
    <2>3. JobsSettled' /\ ApprovedJobIsReleased'
      BY <1>4, RequestFacts, RegistryAssumption DEF DeletePolicy, TypeOK, Registry, JobsSettled,
         ApprovedJobIsReleased, HasRow, Decisions, NoRow, NoRequest, PolicyType, JobType
    <2>4. Serving'
      BY <1>4, RegistryAssumption DEF DeletePolicy, TypeOK, Registry, Serving, ActiveIsLoaded,
         StartupServesApproved, NoLoad, LoadType, StartupType
    <2> QED BY <2>1, <2>2, <2>3, <2>4
  <1>5. ASSUME NEW r \in Requests, NEW p \in Policies, PromoteReads(r, p) PROVE IInv'
    <2>1. TypeOK'
      BY <1>5, MadeValues, RequestFacts DEF PromoteReads, TypeOK, HasRow, PolicyType, JobType, LoadType,
         RequestType, StartupType, Decisions
    <2>2. Registry'
      BY <1>5, RequestFacts, RegistryAssumption DEF PromoteReads, TypeOK, Registry, HasRow, Decisions, NoRow,
         NoRequest, PolicyType
    <2>3. JobsSettled' /\ ApprovedJobIsReleased'
      BY <1>5, RequestFacts, RegistryAssumption DEF PromoteReads, TypeOK, Registry, JobsSettled,
         ApprovedJobIsReleased, HasRow, Decisions, NoRow, NoRequest, PolicyType, JobType
    <2>4. Serving'
      BY <1>5, RegistryAssumption DEF PromoteReads, TypeOK, Registry, Serving, ActiveIsLoaded,
         StartupServesApproved, NoLoad, LoadType, StartupType
    <2> QED BY <2>1, <2>2, <2>3, <2>4
  <1>6. ASSUME NEW r \in Requests, PromoteWrites(r) PROVE IInv'
    <2>1. TypeOK'
      <3>1. policy' \in [Policies -> PolicyType]
        BY <1>6, ChangedRows, RequestFacts DEF PromoteWrites, TypeOK
      <3> QED BY <1>6, <3>1, MadeValues DEF PromoteWrites, TypeOK
    <2>2. Registry'
      BY <1>6, RequestFacts, RegistryAssumption DEF PromoteWrites, TypeOK, Registry, HasRow, Decisions, NoRow,
         NoRequest, PolicyType
    <2>3. JobsSettled' /\ ApprovedJobIsReleased'
      BY <1>6, RequestFacts, RegistryAssumption DEF PromoteWrites, TypeOK, Registry, JobsSettled,
         ApprovedJobIsReleased, HasRow, Decisions, NoRow, NoRequest, PolicyType, JobType
    <2>4. Serving'
      BY <1>6, RegistryAssumption DEF PromoteWrites, TypeOK, Registry, Serving, ActiveIsLoaded,
         StartupServesApproved, NoLoad, LoadType, StartupType
    <2> QED BY <2>1, <2>2, <2>3, <2>4
  <1>7. ASSUME NEW j \in Jobs, CreateJob(j) PROVE IInv'
    <2>1. TypeOK'
      BY <1>7, MadeValues, RequestFacts DEF CreateJob, TypeOK, HasRow, PolicyType, JobType, LoadType,
         RequestType, StartupType, Decisions
    <2>2. Registry'
      BY <1>7, RequestFacts, RegistryAssumption DEF CreateJob, TypeOK, Registry, HasRow, Decisions, NoRow,
         NoRequest, PolicyType
    <2>3. JobsSettled' /\ ApprovedJobIsReleased'
      BY <1>7, RequestFacts, RegistryAssumption DEF CreateJob, TypeOK, Registry, JobsSettled,
         ApprovedJobIsReleased, HasRow, Decisions, NoRow, NoRequest, PolicyType, JobType
    <2>4. Serving'
      BY <1>7, RegistryAssumption DEF CreateJob, TypeOK, Registry, Serving, ActiveIsLoaded,
         StartupServesApproved, NoLoad, LoadType, StartupType
    <2> QED BY <2>1, <2>2, <2>3, <2>4
  <1>8. ASSUME NEW j \in Jobs, NEW p \in Policies,
               NEW status \in {"pending_approval", "completed"},
               UpdateJob(j, status, p) PROVE IInv'
    <2>1. TypeOK'
      BY <1>8, ChangedJobs DEF UpdateJob, TypeOK
    <2>2. Registry'
      BY <1>8, RequestFacts, RegistryAssumption DEF UpdateJob, TypeOK, Registry, HasRow, Decisions, NoRow,
         NoRequest, PolicyType
    <2>3. JobsSettled' /\ ApprovedJobIsReleased'
      BY <1>8, RequestFacts, RegistryAssumption DEF UpdateJob, TypeOK, Registry, JobsSettled,
         ApprovedJobIsReleased, HasRow, Decisions, NoRow, NoRequest, PolicyType, JobType
    <2>4. Serving'
      BY <1>8, RegistryAssumption DEF UpdateJob, TypeOK, Registry, Serving, ActiveIsLoaded,
         StartupServesApproved, NoLoad, LoadType, StartupType
    <2> QED BY <2>1, <2>2, <2>3, <2>4
  <1>9. ASSUME NEW r \in Requests, NEW j \in Jobs,
               NEW op \in {"approve", "reject", "cancel"},
               ReadJob(r, j, op) PROVE IInv'
    <2>1. TypeOK'
      BY <1>9, MadeValues, RequestFacts DEF ReadJob, Admissible, TypeOK, HasRow, PolicyType, JobType, LoadType,
         RequestType, StartupType, Decisions
    <2>2. Registry'
      BY <1>9, RequestFacts, RegistryAssumption DEF ReadJob, Admissible, TypeOK, Registry, HasRow, Decisions, NoRow,
         NoRequest, PolicyType
    <2>3. JobsSettled' /\ ApprovedJobIsReleased'
      BY <1>9, RequestFacts, RegistryAssumption DEF ReadJob, Admissible, TypeOK, Registry, JobsSettled,
         ApprovedJobIsReleased, HasRow, Decisions, NoRow, NoRequest, PolicyType, JobType
    <2>4. Serving'
      BY <1>9, RegistryAssumption DEF ReadJob, Admissible, TypeOK, Registry, Serving, ActiveIsLoaded,
         StartupServesApproved, NoLoad, LoadType, StartupType
    <2> QED BY <2>1, <2>2, <2>3, <2>4
  <1>10. ASSUME NEW r \in Requests, ApproveJob(r) PROVE IInv'
    <2>1. TypeOK'
      <3>1. job' \in [Jobs -> JobType]
        BY <1>10, ChangedJobs DEF ApproveJob, TypeOK, Decisions
      <3>2. policy' \in [Policies -> PolicyType] /\ cleared' \subseteq Policies
        <4>1. CASE request[r].policy # Nobody /\ HasRow(request[r].policy)
          <5>1. request[r].policy \in Policies /\ clock + 1 \in Nat
            BY <1>10, <4>1, RequestFacts DEF ApproveJob, TypeOK
          <5> QED BY <1>10, <4>1, <5>1, MadeValues DEF ApproveJob, TypeOK
        <4>2. CASE ~(request[r].policy # Nobody /\ HasRow(request[r].policy))
          BY <1>10, <4>2 DEF ApproveJob, TypeOK
        <4> QED BY <4>1, <4>2
      <3> QED BY <1>10, <3>1, <3>2, MadeValues DEF ApproveJob, TypeOK
    <2>2. Registry'
      BY <1>10, RequestFacts, RegistryAssumption DEF ApproveJob, TypeOK, Registry, HasRow, Decisions, NoRow,
         NoRequest, PolicyType
    <2>3. JobsSettled' /\ ApprovedJobIsReleased'
      BY <1>10, RequestFacts, RegistryAssumption DEF ApproveJob, TypeOK, Registry, JobsSettled,
         ApprovedJobIsReleased, HasRow, Decisions, NoRow, NoRequest, PolicyType, JobType
    <2>4. Serving'
      BY <1>10, RegistryAssumption DEF ApproveJob, TypeOK, Registry, Serving, ActiveIsLoaded,
         StartupServesApproved, NoLoad, LoadType, StartupType
    <2> QED BY <2>1, <2>2, <2>3, <2>4
  <1>11. ASSUME NEW r \in Requests, RejectJob(r) PROVE IInv'
    <2>1. TypeOK'
      <3>1. job' \in [Jobs -> JobType]
        BY <1>11, ChangedJobs DEF RejectJob, TypeOK, Decisions
      <3>2. policy' \in [Policies -> PolicyType]
        BY <1>11, ChangedRows DEF RejectJob, TypeOK, Decisions
      <3> QED BY <1>11, <3>1, <3>2, MadeValues DEF RejectJob, TypeOK
    <2>2. Registry'
      BY <1>11, RequestFacts, RegistryAssumption DEF RejectJob, TypeOK, Registry, HasRow, Decisions, NoRow,
         NoRequest, PolicyType
    <2>3. JobsSettled' /\ ApprovedJobIsReleased'
      <3>1. \A p \in Policies :
               /\ policy'[p].promoted = policy[p].promoted
               /\ \/ policy'[p].state = policy[p].state
                  \/ policy'[p].state = "rejected" /\ HasRow(p)
        <4>1. \A p \in Policies :
                 \/ policy'[p] = policy[p]
                 \/ HasRow(p) /\ policy'[p] = [policy[p] EXCEPT !.state = "rejected"]
          <5>1. CASE request[r].policy # Nobody /\ HasRow(request[r].policy)
            BY <1>11, <5>1 DEF RejectJob, TypeOK
          <5>2. CASE ~(request[r].policy # Nobody /\ HasRow(request[r].policy))
            BY <1>11, <5>2 DEF RejectJob, TypeOK
          <5> QED BY <5>1, <5>2
        <4>2. \A p \in Policies : policy[p] \in PolicyType
          BY DEF TypeOK
        <4>3. \A x \in PolicyType :
                 /\ [x EXCEPT !.state = "rejected"].promoted = x.promoted
                 /\ [x EXCEPT !.state = "rejected"].state = "rejected"
          BY DEF PolicyType
        <4> QED BY <4>1, <4>2, <4>3
      <3>2. \A j \in Jobs :
               /\ job'[j].policy = job[j].policy /\ job'[j].status = job[j].status
               /\ job'[j].approval = "approved" => job[j].approval = "approved"
        BY <1>11 DEF RejectJob, TypeOK, JobType
      <3>3. \A q \in Requests : request'[q] = request[q] \/ request'[q] = NoRequest
        BY <1>11 DEF RejectJob, TypeOK
      <3>4. \A j \in Jobs : job[j].policy \in Policies \cup {Nobody}
        BY DEF TypeOK, JobType
      <3> QED
        BY <3>1, <3>2, <3>3, <3>4, RequestFacts
        DEF JobsSettled, ApprovedJobIsReleased, HasRow, Decisions, NoRequest
    <2>4. Serving'
      BY <1>11, RegistryAssumption DEF RejectJob, TypeOK, Registry, Serving, ActiveIsLoaded,
         StartupServesApproved, NoLoad, LoadType, StartupType
    <2> QED BY <2>1, <2>2, <2>3, <2>4
  <1>12. ASSUME NEW r \in Requests, CancelJob(r) PROVE IInv'
    <2>1. TypeOK'
      BY <1>12, ChangedJobs, MadeValues DEF CancelJob, TypeOK
    <2>2. Registry'
      BY <1>12, RequestFacts, RegistryAssumption DEF CancelJob, TypeOK, Registry, HasRow, Decisions, NoRow,
         NoRequest, PolicyType
    <2>3. JobsSettled' /\ ApprovedJobIsReleased'
      BY <1>12, RequestFacts, RegistryAssumption DEF CancelJob, TypeOK, Registry, JobsSettled,
         ApprovedJobIsReleased, HasRow, Decisions, NoRow, NoRequest, PolicyType, JobType
    <2>4. Serving'
      BY <1>12, RegistryAssumption DEF CancelJob, TypeOK, Registry, Serving, ActiveIsLoaded,
         StartupServesApproved, NoLoad, LoadType, StartupType
    <2> QED BY <2>1, <2>2, <2>3, <2>4
  <1>13. ASSUME NEW r \in Requests, LoseRequest(r) PROVE IInv'
    <2>1. TypeOK'
      BY <1>13, MadeValues, RequestFacts DEF LoseRequest, TypeOK, HasRow, PolicyType, JobType, LoadType,
         RequestType, StartupType, Decisions
    <2>2. Registry'
      BY <1>13, RequestFacts, RegistryAssumption DEF LoseRequest, TypeOK, Registry, HasRow, Decisions, NoRow,
         NoRequest, PolicyType
    <2>3. JobsSettled' /\ ApprovedJobIsReleased'
      BY <1>13, RequestFacts, RegistryAssumption DEF LoseRequest, TypeOK, Registry, JobsSettled,
         ApprovedJobIsReleased, HasRow, Decisions, NoRow, NoRequest, PolicyType, JobType
    <2>4. Serving'
      BY <1>13, RegistryAssumption DEF LoseRequest, TypeOK, Registry, Serving, ActiveIsLoaded,
         StartupServesApproved, NoLoad, LoadType, StartupType
    <2> QED BY <2>1, <2>2, <2>3, <2>4
  <1>14. ASSUME NEW p \in Policies, StartupReads(p) PROVE IInv'
    <2>1. TypeOK'
      BY <1>14, MadeValues, RequestFacts DEF StartupReads, NewestPromoted, TypeOK, HasRow, PolicyType, JobType, LoadType,
         RequestType, StartupType, Decisions
    <2>2. Registry'
      BY <1>14, RequestFacts, RegistryAssumption DEF StartupReads, NewestPromoted, TypeOK, Registry, HasRow, Decisions, NoRow,
         NoRequest, PolicyType
    <2>3. JobsSettled' /\ ApprovedJobIsReleased'
      BY <1>14, RequestFacts, RegistryAssumption DEF StartupReads, NewestPromoted, TypeOK, Registry, JobsSettled,
         ApprovedJobIsReleased, HasRow, Decisions, NoRow, NoRequest, PolicyType, JobType
    <2>4. Serving'
      BY <1>14, RegistryAssumption DEF StartupReads, NewestPromoted, TypeOK, Registry, Serving, ActiveIsLoaded,
         StartupServesApproved, NoLoad, LoadType, StartupType
    <2> QED BY <2>1, <2>2, <2>3, <2>4
  <1>15. ASSUME StartupLoads PROVE IInv'
    <2>1. TypeOK'
      BY <1>15, MadeValues DEF StartupLoads, TypeOK, Serving
    <2>2. Registry'
      BY <1>15, RequestFacts, RegistryAssumption DEF StartupLoads, TypeOK, Registry, HasRow, Decisions, NoRow,
         NoRequest, PolicyType
    <2>3. JobsSettled' /\ ApprovedJobIsReleased'
      BY <1>15, RequestFacts, RegistryAssumption DEF StartupLoads, TypeOK, Registry, JobsSettled,
         ApprovedJobIsReleased, HasRow, Decisions, NoRow, NoRequest, PolicyType, JobType
    <2>4. Serving'
      BY <1>15, RegistryAssumption DEF StartupLoads, TypeOK, Registry, Serving, ActiveIsLoaded,
         StartupServesApproved, NoLoad, LoadType, StartupType
    <2> QED BY <2>1, <2>2, <2>3, <2>4
  <1>16. ASSUME StartupGivesUp PROVE IInv'
    <2>1. TypeOK'
      BY <1>16, MadeValues, RequestFacts DEF StartupGivesUp, TypeOK, HasRow, PolicyType, JobType, LoadType,
         RequestType, StartupType, Decisions
    <2>2. Registry'
      BY <1>16, RequestFacts, RegistryAssumption DEF StartupGivesUp, TypeOK, Registry, HasRow, Decisions, NoRow,
         NoRequest, PolicyType
    <2>3. JobsSettled' /\ ApprovedJobIsReleased'
      BY <1>16, RequestFacts, RegistryAssumption DEF StartupGivesUp, TypeOK, Registry, JobsSettled,
         ApprovedJobIsReleased, HasRow, Decisions, NoRow, NoRequest, PolicyType, JobType
    <2>4. Serving'
      BY <1>16, RegistryAssumption DEF StartupGivesUp, TypeOK, Registry, Serving, ActiveIsLoaded,
         StartupServesApproved, NoLoad, LoadType, StartupType
    <2> QED BY <2>1, <2>2, <2>3, <2>4
  <1>17. ASSUME NEW l \in Loads, NEW p \in Policies, NEW activate \in BOOLEAN,
               LoadReads(l, p, activate) PROVE IInv'
    <2>1. TypeOK'
      BY <1>17, MadeValues, RequestFacts DEF LoadReads, TypeOK, HasRow, PolicyType, JobType, LoadType,
         RequestType, StartupType, Decisions
    <2>2. Registry'
      BY <1>17, RequestFacts, RegistryAssumption DEF LoadReads, TypeOK, Registry, HasRow, Decisions, NoRow,
         NoRequest, PolicyType
    <2>3. JobsSettled' /\ ApprovedJobIsReleased'
      BY <1>17, RequestFacts, RegistryAssumption DEF LoadReads, TypeOK, Registry, JobsSettled,
         ApprovedJobIsReleased, HasRow, Decisions, NoRow, NoRequest, PolicyType, JobType
    <2>4. Serving'
      BY <1>17, RegistryAssumption DEF LoadReads, TypeOK, Registry, Serving, ActiveIsLoaded,
         StartupServesApproved, NoLoad, LoadType, StartupType
    <2> QED BY <2>1, <2>2, <2>3, <2>4
  <1>18. ASSUME NEW l \in Loads, LoadStores(l) PROVE IInv'
    <2>1. TypeOK'
      BY <1>18, MadeValues, ChangedLoads DEF LoadStores, TypeOK, Serving
    <2>2. Registry'
      BY <1>18, RequestFacts, RegistryAssumption DEF LoadStores, TypeOK, Registry, HasRow, Decisions, NoRow,
         NoRequest, PolicyType
    <2>3. JobsSettled' /\ ApprovedJobIsReleased'
      BY <1>18, RequestFacts, RegistryAssumption DEF LoadStores, TypeOK, Registry, JobsSettled,
         ApprovedJobIsReleased, HasRow, Decisions, NoRow, NoRequest, PolicyType, JobType
    <2>4. Serving'
      BY <1>18, RegistryAssumption DEF LoadStores, TypeOK, Registry, Serving, ActiveIsLoaded,
         StartupServesApproved, NoLoad, LoadType, StartupType
    <2> QED BY <2>1, <2>2, <2>3, <2>4
  <1>19. ASSUME NEW l \in Loads, LoadActivates(l) PROVE IInv'
    <2>1. TypeOK'
      BY <1>19, MadeValues, RequestFacts DEF LoadActivates, TypeOK, HasRow, PolicyType, JobType, LoadType,
         RequestType, StartupType, Decisions
    <2>2. Registry'
      BY <1>19, RequestFacts, RegistryAssumption DEF LoadActivates, TypeOK, Registry, HasRow, Decisions, NoRow,
         NoRequest, PolicyType
    <2>3. JobsSettled' /\ ApprovedJobIsReleased'
      BY <1>19, RequestFacts, RegistryAssumption DEF LoadActivates, TypeOK, Registry, JobsSettled,
         ApprovedJobIsReleased, HasRow, Decisions, NoRow, NoRequest, PolicyType, JobType
    <2>4. Serving'
      BY <1>19, RegistryAssumption DEF LoadActivates, TypeOK, Registry, Serving, ActiveIsLoaded,
         StartupServesApproved, NoLoad, LoadType, StartupType
    <2> QED BY <2>1, <2>2, <2>3, <2>4
  <1>20. ASSUME NEW l \in Loads, LoadFails(l) PROVE IInv'
    <2>1. TypeOK'
      BY <1>20, MadeValues, RequestFacts DEF LoadFails, TypeOK, HasRow, PolicyType, JobType, LoadType,
         RequestType, StartupType, Decisions
    <2>2. Registry'
      BY <1>20, RequestFacts, RegistryAssumption DEF LoadFails, TypeOK, Registry, HasRow, Decisions, NoRow,
         NoRequest, PolicyType
    <2>3. JobsSettled' /\ ApprovedJobIsReleased'
      BY <1>20, RequestFacts, RegistryAssumption DEF LoadFails, TypeOK, Registry, JobsSettled,
         ApprovedJobIsReleased, HasRow, Decisions, NoRow, NoRequest, PolicyType, JobType
    <2>4. Serving'
      BY <1>20, RegistryAssumption DEF LoadFails, TypeOK, Registry, Serving, ActiveIsLoaded,
         StartupServesApproved, NoLoad, LoadType, StartupType
    <2> QED BY <2>1, <2>2, <2>3, <2>4
  <1>21. ASSUME NEW p \in Policies, Activate(p) PROVE IInv'
    <2>1. TypeOK'
      BY <1>21, MadeValues, RequestFacts DEF Activate, TypeOK, HasRow, PolicyType, JobType, LoadType,
         RequestType, StartupType, Decisions
    <2>2. Registry'
      BY <1>21, RequestFacts, RegistryAssumption DEF Activate, TypeOK, Registry, HasRow, Decisions, NoRow,
         NoRequest, PolicyType
    <2>3. JobsSettled' /\ ApprovedJobIsReleased'
      BY <1>21, RequestFacts, RegistryAssumption DEF Activate, TypeOK, Registry, JobsSettled,
         ApprovedJobIsReleased, HasRow, Decisions, NoRow, NoRequest, PolicyType, JobType
    <2>4. Serving'
      BY <1>21, RegistryAssumption DEF Activate, TypeOK, Registry, Serving, ActiveIsLoaded,
         StartupServesApproved, NoLoad, LoadType, StartupType
    <2> QED BY <2>1, <2>2, <2>3, <2>4
  <1>22. ASSUME RestartInfer PROVE IInv'
    <2>1. TypeOK'
      BY <1>22, MadeValues, RequestFacts DEF RestartInfer, TypeOK, HasRow, PolicyType, JobType, LoadType,
         RequestType, StartupType, Decisions
    <2>2. Registry'
      BY <1>22, RequestFacts, RegistryAssumption DEF RestartInfer, TypeOK, Registry, HasRow, Decisions, NoRow,
         NoRequest, PolicyType
    <2>3. JobsSettled' /\ ApprovedJobIsReleased'
      BY <1>22, RequestFacts, RegistryAssumption DEF RestartInfer, TypeOK, Registry, JobsSettled,
         ApprovedJobIsReleased, HasRow, Decisions, NoRow, NoRequest, PolicyType, JobType
    <2>4. Serving'
      BY <1>22, RegistryAssumption DEF RestartInfer, TypeOK, Registry, Serving, ActiveIsLoaded,
         StartupServesApproved, NoLoad, LoadType, StartupType
    <2> QED BY <2>1, <2>2, <2>3, <2>4
  <1>23. CASE UNCHANGED vars
    BY <1>23 DEF vars, TypeOK, Registry, JobsSettled, ApprovedJobIsReleased, Serving,
       ActiveIsLoaded, StartupServesApproved, HasRow
  <1> QED
    BY <1>1, <1>2, <1>3, <1>4, <1>5, <1>6, <1>7, <1>8, <1>9, <1>10, <1>11, <1>12, <1>13, <1>14, <1>15, <1>16, <1>17, <1>18, <1>19, <1>20, <1>21, <1>22, <1>23
    DEF Next, Train, Kaggle, Finish, Infer

-----------------------------------------------------------------------------
(* The refinement.                                                         *)

\* A step that touches the row of p only, and takes p from stage a to stage b.
LEMMA StageMoves ==
    ASSUME NEW p \in Policies, Stage(p)' = Stage(p)',
           \A q \in Policies \ {p} : policy'[q] = policy[q] /\ (q \in cleared' <=> q \in cleared)
    PROVE  StageOf' = [StageOf EXCEPT ![p] = Stage(p)']
  BY DEF StageOf, Stage, HasRow

LEMMA InitGate == Init => Gate!Init
  BY DEF Init, Gate!Init, StageOf, Stage, HasRow, NoRow, Decisions

\* Every step moves at most one policy, and as the gate allows.
LEMMA NextGate ==
    ASSUME IInv, [Next]_vars
    PROVE  [Gate!Next]_StageOf
  <1> USE DEF IInv
  <1>1. ASSUME NEW p \in Policies,
               \A q \in Policies \ {p} :
                   policy'[q] = policy[q] /\ (q \in cleared' <=> q \in cleared),
               \/ Stage(p)' = Stage(p)
               \/ Stage(p) = "absent"  /\ Stage(p)' = "waiting"
               \/ Stage(p) = "waiting" /\ Stage(p)' = "cleared"
               \/ Stage(p) = "cleared" /\ Stage(p)' = "released"
               \/ Stage(p) = "waiting" /\ Stage(p)' = "released"
               \/ Stage(p) \in {"waiting", "cleared", "released"} /\ Stage(p)' = "deleted"
        PROVE  [Gate!Next]_StageOf
    <2>1. StageOf' = [StageOf EXCEPT ![p] = Stage(p)']
      BY <1>1, StageMoves
    <2>2. StageOf[p] = Stage(p)
      BY DEF StageOf
    <2>3. CASE Stage(p)' = Stage(p)
      BY <2>1, <2>2, <2>3 DEF StageOf
    <2>4. CASE Stage(p)' # Stage(p)
      <3>1. Gate!Register(p) \/ Gate!Clear(p) \/ Gate!Release(p) \/ Gate!Admit(p) \/ Gate!Delete(p)
        BY <1>1, <2>1, <2>2, <2>4
        DEF Gate!Register, Gate!Clear, Gate!Release, Gate!Admit, Gate!Delete, Gate!Move
      <3> QED BY <3>1 DEF Gate!Next
    <2> QED BY <2>3, <2>4
  <1>2. ASSUME policy' = policy, cleared' = cleared PROVE [Gate!Next]_StageOf
    BY <1>2 DEF StageOf, Stage, HasRow
  <1>3. ASSUME NEW p \in Policies, SavePolicyBundle(p) PROVE [Gate!Next]_StageOf
    <2>1. Stage(p) = "absent" /\ Stage(p)' = "waiting"
      BY <1>3 DEF SavePolicyBundle, TypeOK, PolicyType, Registry, Stage, HasRow, Decisions
    <2> QED BY <1>1, <1>3, <2>1 DEF SavePolicyBundle, TypeOK
  <1>4. ASSUME NEW p \in Policies, Approve(p) PROVE [Gate!Next]_StageOf
    <2>0. /\ policy'[p].state = "approved" /\ policy'[p].promoted = policy[p].promoted
          /\ p \in cleared'
      BY <1>4 DEF Approve, TypeOK, PolicyType
    <2>1. Stage(p)' = Stage(p) \/ (Stage(p) = "waiting" /\ Stage(p)' = "cleared")
      <3>1. HasRow(p) /\ HasRow(p)'
        BY <1>4, <2>0 DEF Approve, HasRow, Decisions
      <3>2. CASE policy[p].promoted
        BY <2>0, <3>1, <3>2 DEF Stage
      <3>3. CASE ~policy[p].promoted /\ p \in cleared
        BY <2>0, <3>1, <3>3 DEF Stage
      <3>4. CASE ~policy[p].promoted /\ p \notin cleared
        BY <2>0, <3>1, <3>4 DEF Stage
      <3> QED BY <3>2, <3>3, <3>4
    <2> QED BY <1>1, <1>4, <2>1 DEF Approve, TypeOK
  <1>5. ASSUME NEW p \in Policies, Reject(p) PROVE [Gate!Next]_StageOf
    <2>1. Stage(p)' = Stage(p)
      BY <1>5 DEF Reject, TypeOK, PolicyType, Stage, HasRow, Decisions
    <2> QED BY <1>1, <1>5, <2>1 DEF Reject, TypeOK
  <1>6. ASSUME NEW p \in Policies, DeletePolicy(p) PROVE [Gate!Next]_StageOf
    <2>1. Stage(p) \in {"waiting", "cleared", "released"} /\ Stage(p)' = "deleted"
      BY <1>6 DEF DeletePolicy, TypeOK, PolicyType, Stage, HasRow, Decisions, NoRow
    <2> QED BY <1>1, <1>6, <2>1 DEF DeletePolicy, TypeOK
  <1>7. ASSUME NEW r \in Requests, PromoteWrites(r) PROVE [Gate!Next]_StageOf
    <2>1. CASE ~HasRow(request[r].policy)
      BY <1>2, <1>7, <2>1 DEF PromoteWrites
    <2>2. CASE HasRow(request[r].policy)
      <3>1. PICK p \in Policies : p = request[r].policy /\ p \in cleared
        BY <1>7 DEF PromoteWrites, Registry, TypeOK
      <3>0. policy'[p].state = policy[p].state /\ policy'[p].promoted
        BY <1>7, <2>2, <3>1 DEF PromoteWrites, TypeOK, PolicyType
      <3>2. Stage(p)' = Stage(p) \/ (Stage(p) = "cleared" /\ Stage(p)' = "released")
        BY <1>7, <2>2, <3>0, <3>1 DEF PromoteWrites, TypeOK, PolicyType, Stage, HasRow, Decisions
      <3> QED BY <1>1, <1>7, <2>2, <3>1, <3>2 DEF PromoteWrites, TypeOK
    <2> QED BY <2>1, <2>2
  <1>8. ASSUME NEW r \in Requests, ApproveJob(r) PROVE [Gate!Next]_StageOf
    <2>1. CASE ~(request[r].policy # Nobody /\ HasRow(request[r].policy))
      BY <1>2, <1>8, <2>1 DEF ApproveJob
    <2>2. CASE request[r].policy # Nobody /\ HasRow(request[r].policy)
      <3>1. PICK p \in Policies : p = request[r].policy
        BY <1>8, <2>2, RequestFacts DEF ApproveJob
      <3>0. policy'[p].state = "approved" /\ policy'[p].promoted /\ p \in cleared'
        BY <1>8, <2>2, <3>1 DEF ApproveJob, TypeOK, PolicyType
      <3>2. \/ Stage(p)' = Stage(p)
            \/ Stage(p) \in {"waiting", "cleared"} /\ Stage(p)' = "released"
        BY <1>8, <2>2, <3>0, <3>1 DEF ApproveJob, TypeOK, PolicyType, Stage, HasRow, Decisions
      <3> QED BY <1>1, <1>8, <2>2, <3>1, <3>2 DEF ApproveJob, TypeOK
    <2> QED BY <2>1, <2>2
  <1>9. ASSUME NEW r \in Requests, RejectJob(r) PROVE [Gate!Next]_StageOf
    <2>1. CASE ~(request[r].policy # Nobody /\ HasRow(request[r].policy))
      BY <1>2, <1>9, <2>1 DEF RejectJob
    <2>2. CASE request[r].policy # Nobody /\ HasRow(request[r].policy)
      <3>1. PICK p \in Policies : p = request[r].policy
        BY <1>9, <2>2, RequestFacts DEF RejectJob
      <3>0. policy'[p].state = "rejected" /\ policy'[p].promoted = policy[p].promoted
        BY <1>9, <2>2, <3>1 DEF RejectJob, TypeOK, PolicyType
      <3>2. Stage(p)' = Stage(p)
        BY <1>9, <2>2, <3>0, <3>1 DEF RejectJob, TypeOK, PolicyType, Stage, HasRow, Decisions
      <3> QED BY <1>1, <1>9, <2>2, <3>1, <3>2 DEF RejectJob, TypeOK
    <2> QED BY <2>1, <2>2
  <1>10. ASSUME Infer PROVE [Gate!Next]_StageOf
    BY <1>2, <1>10
    DEF Infer, StartupReads, Activate, StartupLoads, StartupGivesUp, RestartInfer, LoadReads,
        LoadStores, LoadActivates, LoadFails, tables
  <1>11. ASSUME NEW j \in Jobs, Kaggle(j) PROVE [Gate!Next]_StageOf
    BY <1>2, <1>11 DEF Kaggle, CreateJob, UpdateJob, ReadJob, tables
  <1>12. ASSUME NEW r \in Requests, NEW p \in Policies,
                PromoteReads(r, p) \/ CancelJob(r) \/ LoseRequest(r)
         PROVE  [Gate!Next]_StageOf
    BY <1>2, <1>12 DEF PromoteReads, CancelJob, LoseRequest, tables
  <1>13. CASE UNCHANGED vars
    BY <1>2, <1>13 DEF vars, tables
  <1>14. CASE Next
    <2>1. ASSUME NEW r \in Requests, CancelJob(r) \/ LoseRequest(r) PROVE [Gate!Next]_StageOf
      BY <1>2, <2>1 DEF CancelJob, LoseRequest, tables
    <2> QED
      BY <1>3, <1>4, <1>5, <1>6, <1>7, <1>8, <1>9, <1>10, <1>11, <1>12, <1>14, <2>1
      DEF Next, Train, Finish
  <1> QED BY <1>13, <1>14

-----------------------------------------------------------------------------
(* The theorems.                                                           *)

\* The variables keep their types.
THEOREM RegistryTypes == Spec => []TypeOK
  <1>1. IInv => TypeOK
    BY DEF IInv
  <1> QED BY <1>1, InitIInv, NextIInv, PTL DEF Spec

\* Whatever loads, deletions and restarts come between, the policy rl-infer
\* answers with by default is loaded.
THEOREM DefaultIsLoaded == Spec => []ActiveIsLoaded
  <1>1. IInv => ActiveIsLoaded
    BY DEF IInv, Serving
  <1> QED BY <1>1, InitIInv, NextIInv, PTL DEF Spec

\* rl-infer's start-up brings into service what somebody has approved.
THEOREM StartupIsApproved == Spec => []StartupServesApproved
  <1>1. IInv => StartupServesApproved
    BY DEF IInv, Serving
  <1> QED BY <1>1, InitIInv, NextIInv, PTL DEF Spec

\* An approved job's policy is in service until it is deleted.
THEOREM ApprovalReleases == Spec => []ApprovedJobIsReleased
  <1>1. IInv => ApprovedJobIsReleased
    BY DEF IInv
  <1> QED BY <1>1, InitIInv, NextIInv, PTL DEF Spec

\* The registry implements PromotionGate: every step of rl-train and of
\* kaggle-orchestrator is a step of the gate or none.
THEOREM RegistryImplementsGate == Spec => ImplementsGate
  <1> QED BY InitIInv, NextIInv, InitGate, NextGate, PTL DEF Spec, ImplementsGate, Gate!Spec

-----------------------------------------------------------------------------
(* What follows for the two services and for rl-infer.                     *)

\* A promotion comes after an approval and lasts until the policy is deleted,
\* whatever is rejected or approved again meanwhile; a deleted policy stays so,
\* also when a promotion that has read its row before is written after.
PromotionLasts ==
    \A p \in Policies :
        /\ policy'[p].promoted => p \in cleared' /\ HasRow(p)'
        /\ policy[p].promoted => policy'[p].promoted \/ policy'[p].state = "deleted"
        /\ policy[p].state = "deleted" => policy'[p].state = "deleted"
        /\ policy[p].state # "absent" => policy'[p].state # "absent"

\* How the gate's stages read in the table.
LEMMA StagesInTable ==
    ASSUME TypeOK, Registry, NEW p \in Policies
    PROVE  /\ policy[p].promoted <=> StageOf[p] = "released"
           /\ policy[p].state = "deleted" <=> StageOf[p] = "deleted"
           /\ policy[p].state = "absent" <=> StageOf[p] = "absent"
  <1>1. /\ policy[p] \in PolicyType
        /\ policy[p].promoted => HasRow(p)
    BY DEF TypeOK, Registry
  <1>2. StageOf[p] = Stage(p)
    BY DEF StageOf
  <1>3. policy[p].promoted \in BOOLEAN /\ policy[p].state \in Decisions \cup {"absent", "deleted"}
    BY <1>1 DEF PolicyType
  <1> QED BY <1>1, <1>2, <1>3 DEF Stage, HasRow, Decisions

\* A step of the gate as one policy sees it.
LEMMA GateMoves ==
    ASSUME [Gate!Next]_StageOf, NEW p \in Policies
    PROVE  /\ StageOf[p] = "deleted" => StageOf'[p] = "deleted"
           /\ StageOf[p] = "released" => StageOf'[p] \in {"released", "deleted"}
           /\ StageOf[p] # "absent" => StageOf'[p] # "absent"
  <1>1. DOMAIN StageOf = Policies
    BY DEF StageOf
  <1>2. CASE UNCHANGED StageOf
    BY <1>2
  <1>3. CASE Gate!Next
    <2>1. PICK q \in Policies : Gate!Register(q) \/ Gate!Clear(q) \/ Gate!Release(q)
                                \/ Gate!Admit(q) \/ Gate!Delete(q)
      BY <1>3 DEF Gate!Next
    <2>2. PICK to : /\ StageOf' = [StageOf EXCEPT ![q] = to]
                    /\ \/ StageOf[q] = "absent" /\ to = "waiting"
                       \/ StageOf[q] = "waiting" /\ to \in {"cleared", "released", "deleted"}
                       \/ StageOf[q] = "cleared" /\ to \in {"released", "deleted"}
                       \/ StageOf[q] = "released" /\ to = "deleted"
      BY <2>1 DEF Gate!Register, Gate!Clear, Gate!Release, Gate!Admit, Gate!Delete, Gate!Move
    <2> QED BY <1>1, <2>2
  <1> QED BY <1>2, <1>3

LEMMA NextPromotionLasts ==
    ASSUME IInv, [Next]_vars
    PROVE  PromotionLasts
  <1>1. [Gate!Next]_StageOf /\ IInv'
    BY NextGate, NextIInv
  <1> SUFFICES ASSUME NEW p \in Policies
               PROVE  /\ policy'[p].promoted => p \in cleared' /\ HasRow(p)'
                      /\ policy[p].promoted => policy'[p].promoted \/ policy'[p].state = "deleted"
                      /\ policy[p].state = "deleted" => policy'[p].state = "deleted"
                      /\ policy[p].state # "absent" => policy'[p].state # "absent"
    BY DEF PromotionLasts
  <1>2. /\ policy[p].promoted <=> StageOf[p] = "released"
        /\ policy[p].state = "deleted" <=> StageOf[p] = "deleted"
        /\ policy[p].state = "absent" <=> StageOf[p] = "absent"
    BY StagesInTable DEF IInv
  <1>3. /\ policy'[p].promoted <=> StageOf'[p] = "released"
        /\ policy'[p].state = "deleted" <=> StageOf'[p] = "deleted"
        /\ policy'[p].state = "absent" <=> StageOf'[p] = "absent"
    <2>1. (TypeOK /\ Registry)'
      BY <1>1 DEF IInv
    <2>2. (TypeOK /\ Registry => /\ policy[p].promoted <=> StageOf[p] = "released"
                                 /\ policy[p].state = "deleted" <=> StageOf[p] = "deleted"
                                 /\ policy[p].state = "absent" <=> StageOf[p] = "absent")'
      BY StagesInTable, PTL
    <2> QED BY <2>1, <2>2
  <1>4. policy'[p].promoted => p \in cleared' /\ HasRow(p)'
    BY <1>1 DEF IInv, Registry
  <1> QED BY <1>1, <1>2, <1>3, <1>4, GateMoves

\* The gate's promise in terms of the table.
THEOREM PromotionsLast == Spec => [][PromotionLasts]_vars
  <1> QED BY InitIInv, NextIInv, NextPromotionLasts, PTL DEF Spec

\* What rl-infer has loaded, is loading or is about to is of a policy that was
\* registered, at whatever time it has been deleted since.
ServedWasRegistered ==
    /\ \A p \in cache : policy[p].state # "absent"
    /\ \A l \in Loads : load[l].pc # "idle" => policy[load[l].policy].state # "absent"

LEMMA NextServed ==
    ASSUME IInv, ServedWasRegistered, [Next]_vars
    PROVE  ServedWasRegistered'
  <1>1. \A p \in Policies : policy[p].state # "absent" => policy'[p].state # "absent"
    BY NextPromotionLasts DEF PromotionLasts
  <1>2. /\ cache \subseteq Policies
        /\ load \in [Loads -> LoadType]
        /\ \A l \in Loads : load[l].pc # "idle" => load[l].policy \in Policies
        /\ startup.pc = "load" => startup.policy \in Policies /\ policy[startup.policy].state # "absent"
    BY DEF IInv, TypeOK, Serving, Registry
  <1>3. ASSUME UNCHANGED <<cache, load>> PROVE ServedWasRegistered'
    BY <1>1, <1>2, <1>3 DEF ServedWasRegistered
  <1>4. CASE StartupLoads
    BY <1>1, <1>2, <1>4 DEF StartupLoads, ServedWasRegistered, tables
  <1>5. CASE RestartInfer
    BY <1>5 DEF RestartInfer, ServedWasRegistered, NoLoad
  <1>6. ASSUME NEW l \in Loads, NEW p \in Policies, NEW activate \in BOOLEAN,
               LoadReads(l, p, activate)
        PROVE  ServedWasRegistered'
    <2>1. /\ cache' = cache /\ policy' = policy /\ policy[p].state # "absent"
          /\ load' = [load EXCEPT ![l] = [pc |-> "found", policy |-> p, activate |-> activate]]
      BY <1>6 DEF LoadReads, HasRow, Decisions, tables
    <2> QED BY <1>2, <2>1 DEF ServedWasRegistered
  <1>7. ASSUME NEW l \in Loads, LoadStores(l) PROVE ServedWasRegistered'
    <2>1. /\ cache' = cache \cup {load[l].policy} /\ policy' = policy /\ load[l].pc = "found"
      BY <1>7 DEF LoadStores, tables
    <2>2. policy[load[l].policy].state # "absent"
      BY <2>1 DEF ServedWasRegistered
    <2>3. \A m \in Loads : load'[m].pc = "idle" \/ (load[m].pc # "idle" /\ load'[m].policy = load[m].policy)
      BY <1>2, <1>7, <2>1 DEF LoadStores, NoLoad, LoadType
    <2> QED BY <2>1, <2>2, <2>3 DEF ServedWasRegistered
  <1>8. ASSUME NEW l \in Loads, LoadActivates(l) \/ LoadFails(l) PROVE ServedWasRegistered'
    <2>1. cache' = cache /\ policy' = policy /\ load' = [load EXCEPT ![l] = NoLoad]
      BY <1>8 DEF LoadActivates, LoadFails, tables
    <2> QED BY <1>2, <2>1 DEF ServedWasRegistered, NoLoad
  <1>9. \/ UNCHANGED <<cache, load>>
        \/ StartupLoads \/ RestartInfer
        \/ \E l \in Loads :
              \/ \E p \in Policies, activate \in BOOLEAN : LoadReads(l, p, activate)
              \/ LoadStores(l) \/ LoadActivates(l) \/ LoadFails(l)
    BY DEF Next, Train, SavePolicyBundle, Approve, Reject, DeletePolicy, PromoteReads, Kaggle,
       CreateJob, UpdateJob, ReadJob, Finish, PromoteWrites, ApproveJob, RejectJob, CancelJob,
       LoseRequest, Infer, StartupReads, Activate, StartupGivesUp, infer, vars
  <1> QED BY <1>3, <1>4, <1>5, <1>6, <1>7, <1>8, <1>9

\* rl-infer serves nothing that the registry has never had.
THEOREM OnlyRegisteredIsServed == Spec => []ServedWasRegistered
  <1>1. Init => ServedWasRegistered
    BY DEF Init, ServedWasRegistered, NoLoad
  <1> QED BY <1>1, InitIInv, NextIInv, NextServed, PTL DEF Spec
=============================================================================
