--------------------------- MODULE SelfImprovement ---------------------------
(* A self improvement travels from an Owner's request to a release candidate   *)
(* through three stores: the job registry, the bindings of                     *)
(* SelfImprovementJobRegistry and the patches of SelfPatchRegistry.  Each of   *)
(* their methods is one commit, the Hub may end between any two of them, and   *)
(* SelfImprovementCoordinator waits for the artifacts in the middle of a       *)
(* promotion.  What runs without an await in between is guarded by siTail.     *)
EXTENDS Integers, FiniteSets
CONSTANTS SourceJobs,        \* jobs requested for the one improvement
          NoJob,
          MaxHubDeaths,      \* bound: how often the Hub ends
          MaxObservers       \* bound: observations of a job under way
ASSUME SelfImprovementAssumption ==
  /\ NoJob \notin SourceJobs \union {"owner"}
  /\ MaxHubDeaths \in Nat /\ MaxObservers \in Nat \ {0}
VARIABLES siHub,       \* "down", "starting" or "up"
          siJob,       \* job -> status in the job registry
          siResult,    \* job -> what its Runner left behind
          siBinding,   \* job -> state of its binding
          siPatch,     \* the row of the improvement in self_patches_v2
          siReading,   \* job -> observations waiting for its artifacts
          siTail,      \* the promotion after its last await: <<job, next commit>>
          siTodo,      \* bindings the start has still to reconcile
          siDeaths
siVars == <<siHub, siJob, siResult, siBinding, siPatch, siReading, siTail, siTodo, siDeaths>>

Finished == {"SUCCEEDED", "FAILED", "CANCELLED"}
NoTail == <<NoJob, "store">>
NoPatch == [state |-> "none", source |-> NoJob, improvement |-> FALSE, material |-> FALSE,
            evidence |-> NoJob, granted |-> FALSE]
Settled == {"ADOPTED", "WAIT_APPROVAL", "CLEARED", "CANARY", "DEPLOYED", "ROLLED_BACK"}
Quiet == siHub = "up" /\ siTail = NoTail

SIInit == /\ siHub = "up" /\ siPatch = NoPatch /\ siTail = NoTail /\ siTodo = {} /\ siDeaths = 0
          /\ siJob = [j \in SourceJobs |-> "none"] /\ siResult = [j \in SourceJobs |-> "none"]
          /\ siBinding = [j \in SourceJobs |-> "none"] /\ siReading = [j \in SourceJobs |-> 0]

-----------------------------------------------------------------------------
(* The request: create the job, bind it, approve it; the Hub may end after    *)
(* the first or the second commit, and the client repeats the request.         *)
Bindable(j, status) ==
  \/ siBinding[j] # "none"
  \/ status = "WAIT_APPROVAL" /\ \A o \in SourceJobs : siBinding[o] = "none"
AfterApprove(status) == IF status = "WAIT_APPROVAL" THEN "RUNNING" ELSE status
HubEnds == /\ siDeaths < MaxHubDeaths /\ siDeaths' = siDeaths + 1 /\ siHub' = "down"
           /\ siReading' = [j \in SourceJobs |-> 0] /\ siTail' = NoTail /\ siTodo' = {}
HubGoesOn == UNCHANGED <<siHub, siReading, siTail, siTodo, siDeaths>>
Request(j, cut) ==
  LET status == IF siJob[j] = "none" THEN "WAIT_APPROVAL" ELSE siJob[j] IN
  /\ Quiet
  /\ siJob[j] = "none" => siPatch = NoPatch
  /\ IF cut = "created" \/ ~Bindable(j, status)
     THEN siJob' = [siJob EXCEPT ![j] = status] /\ UNCHANGED siBinding
     ELSE /\ siBinding' = [siBinding EXCEPT ![j] = IF @ = "none" THEN "PENDING" ELSE @]
          /\ siJob' = [siJob EXCEPT ![j] = IF cut = "bound" THEN status ELSE AfterApprove(status)]
  /\ IF cut = "none" THEN HubGoesOn ELSE HubEnds
  /\ UNCHANGED <<siResult, siPatch>>
ApproveSource(j) == /\ Quiet /\ siJob[j] = "WAIT_APPROVAL"
                    /\ siJob' = [siJob EXCEPT ![j] = "RUNNING"]
                    /\ HubGoesOn /\ UNCHANGED <<siResult, siBinding, siPatch>>
(* Stopping a task cancels its job and observes nothing.                       *)
StopSource(j) == /\ Quiet /\ siJob[j] \in {"WAIT_APPROVAL", "RUNNING"}
                 /\ siJob' = [siJob EXCEPT ![j] = "CANCELLED"]
                 /\ HubGoesOn /\ UNCHANGED <<siResult, siBinding, siPatch>>

-----------------------------------------------------------------------------
(* Observation of a job: what happens before the first await.                  *)
Reject(j) == siBinding' = [siBinding EXCEPT ![j] = IF @ = "PENDING" THEN "REJECTED" ELSE @]
Observation(j, status) ==
  IF siBinding[j] = "PENDING" /\ status = "SUCCEEDED"
  THEN siReading' = [siReading EXCEPT ![j] = @ + 1] /\ UNCHANGED siBinding
  ELSE /\ UNCHANGED siReading
       /\ IF status \in {"FAILED", "CANCELLED"} THEN Reject(j) ELSE UNCHANGED siBinding
(* The Runner's last word commits and is observed by the same request, unless  *)
(* the Hub ends in between; the Runner then repeats it as a duplicate.         *)
Report(j, status, result, cut) ==
  /\ Quiet /\ siReading[j] < MaxObservers
  /\ \/ siJob[j] = "RUNNING" /\ (status = "FAILED" => result = "none")
     \/ siJob[j] = status /\ siResult[j] = result
  /\ siJob' = [siJob EXCEPT ![j] = status] /\ siResult' = [siResult EXCEPT ![j] = result]
  /\ IF cut THEN HubEnds /\ UNCHANGED siBinding
     ELSE Observation(j, status) /\ UNCHANGED <<siHub, siTail, siTodo, siDeaths>>
  /\ UNCHANGED siPatch
(* The artifacts are there: checked against the evidence, then committed in    *)
(* up to four steps without another await.                                     *)
Evidenced(j) == siResult[j] # "bad"
ReadArtifacts(j) ==
  /\ siHub # "down" /\ siTail = NoTail /\ siReading[j] > 0
  /\ siReading' = [siReading EXCEPT ![j] = @ - 1]
  /\ IF Evidenced(j) THEN siTail' = <<j, "store">> /\ UNCHANGED siBinding
     ELSE Reject(j) /\ UNCHANGED siTail
  /\ UNCHANGED <<siHub, siJob, siResult, siPatch, siTodo, siDeaths>>
Drafted(j) == [NoPatch EXCEPT !.state = "DRAFT", !.source = j, !.improvement = TRUE,
                              !.material = siResult[j] = "material"]
StoreImprovement(j) ==
  LET row == IF siPatch = NoPatch THEN Drafted(j) ELSE siPatch IN
  /\ siTail = <<j, "store">>
  /\ siPatch' = row
  /\ IF row.source = j /\ row.state \in Settled \union {"DRAFT"}
     THEN /\ siTail' = <<j, IF row.state = "DRAFT" THEN "test" ELSE "mark">>
          /\ UNCHANGED siBinding
     ELSE siTail' = NoTail /\ Reject(j)
  /\ UNCHANGED <<siHub, siJob, siResult, siReading, siTodo, siDeaths>>
SettledState(row) == IF row.material THEN "WAIT_APPROVAL" ELSE "ADOPTED"
CompleteTest(j) ==
  /\ \/ /\ siTail = <<j, "test">> /\ siTail' = <<j, "settle">>
        /\ siPatch' = [siPatch EXCEPT !.state = "TESTED", !.evidence = j]
     \/ /\ siTail = <<j, "settle">> /\ siTail' = <<j, "mark">>
        /\ siPatch' = [siPatch EXCEPT !.state = SettledState(siPatch)]
  /\ UNCHANGED <<siHub, siJob, siResult, siBinding, siReading, siTodo, siDeaths>>
MarkPromoted(j) ==
  /\ siTail = <<j, "mark">> /\ siTail' = NoTail
  /\ siBinding' = [siBinding EXCEPT ![j] = IF @ = "PENDING" THEN "PROMOTED" ELSE @]
  /\ UNCHANGED <<siHub, siJob, siResult, siPatch, siReading, siTodo, siDeaths>>

-----------------------------------------------------------------------------
(* SelfPatchRegistry as the Owner's requests reach it: patches of the Owner's  *)
(* own, improvements, and for each the way to a Canary and out of it.          *)
OwnerCreates(improvement, material) ==
  /\ siPatch = NoPatch
  /\ siPatch' = [NoPatch EXCEPT !.state = "DRAFT", !.improvement = improvement,
                                !.material = improvement /\ material]
Tested(row) == {"TESTED"} \union (IF row.improvement THEN {SettledState(row)} ELSE {})
OwnerTests ==
  \/ /\ siPatch.state = "DRAFT"
     /\ \E state \in Tested(siPatch) :
          siPatch' = [siPatch EXCEPT !.state = state, !.evidence = "owner"]
  \/ /\ siPatch.state = "TESTED" /\ siPatch.improvement
     /\ siPatch' = [siPatch EXCEPT !.state = SettledState(siPatch)]
RequestApproval == /\ siPatch.state = "TESTED" /\ ~siPatch.improvement
                   /\ siPatch' = [siPatch EXCEPT !.state = "WAIT_APPROVAL"]
\* Faulty variant: an improvement is approved the way an ordinary self-patch is.
ApproveAnyCanary == siPatch.state = "WAIT_APPROVAL" /\ siPatch' = [siPatch EXCEPT !.state = "CANARY"]
ApproveCanary == /\ siPatch.state = "WAIT_APPROVAL" /\ ~siPatch.improvement
                 /\ siPatch' = [siPatch EXCEPT !.state = "CANARY"]
RequestClearance == /\ siPatch.state = "TESTED" /\ siPatch.improvement /\ siPatch.material
                    /\ siPatch' = [siPatch EXCEPT !.state = "WAIT_APPROVAL"]
GrantClearance == /\ siPatch.state = "WAIT_APPROVAL" /\ siPatch.improvement /\ ~siPatch.granted
                  /\ siPatch' = [siPatch EXCEPT !.state = "CLEARED", !.granted = TRUE]
StartCanary == /\ siPatch.state = "CLEARED" /\ siPatch.granted
               /\ siPatch' = [siPatch EXCEPT !.state = "CANARY"]
CompleteCanary(ok) == /\ siPatch.state = "CANARY"
                      /\ siPatch' = [siPatch EXCEPT !.state = IF ok THEN "DEPLOYED" ELSE "ROLLED_BACK"]
OwnerPatch == /\ Quiet
              /\ \/ \E improvement, material \in BOOLEAN : OwnerCreates(improvement, material)
                 \/ OwnerTests
                 \/ RequestApproval
                 \/ ApproveCanary
                 \/ RequestClearance
                 \/ GrantClearance
                 \/ StartCanary
                 \/ \E ok \in BOOLEAN : CompleteCanary(ok)
              /\ HubGoesOn /\ UNCHANGED <<siJob, siResult, siBinding>>

-----------------------------------------------------------------------------
CrashSI == siHub # "down" /\ HubEnds /\ UNCHANGED <<siJob, siResult, siBinding, siPatch>>
\* Faulty variant: a start takes up nothing.
NoBindings == {}
PendingBindings == {j \in SourceJobs : siBinding[j] = "PENDING"}
(* open() adopts what was tested and needs no clearance; the pending bindings  *)
(* are observed one after the other before the first request is served.        *)
StartSI == /\ siHub = "down" /\ siHub' = "starting"
           /\ siPatch' = IF siPatch.state = "TESTED" /\ siPatch.improvement /\ ~siPatch.material
                         THEN [siPatch EXCEPT !.state = "ADOPTED"] ELSE siPatch
           /\ siTodo' = PendingBindings
           /\ UNCHANGED <<siJob, siResult, siBinding, siReading, siTail, siDeaths>>
Between == siHub = "starting" /\ siTail = NoTail /\ \A j \in SourceJobs : siReading[j] = 0
Reconcile(j) == /\ Between /\ j \in siTodo /\ siTodo' = siTodo \ {j}
                /\ Observation(j, siJob[j])
                /\ UNCHANGED <<siHub, siJob, siResult, siPatch, siTail, siDeaths>>
Listen == /\ Between /\ siTodo = {} /\ siHub' = "up"
          /\ UNCHANGED <<siJob, siResult, siBinding, siPatch, siReading, siTail, siTodo, siDeaths>>

Promotion(j) == ReadArtifacts(j) \/ StoreImprovement(j) \/ CompleteTest(j) \/ MarkPromoted(j)
SINext ==
  \/ \E j \in SourceJobs :
       \/ \E cut \in {"none", "created", "bound"} : Request(j, cut)
       \/ ApproveSource(j)
       \/ StopSource(j)
       \/ \E cut \in BOOLEAN :
            \/ Report(j, "FAILED", "none", cut)
            \/ \E result \in {"bad", "minor", "material"} : Report(j, "SUCCEEDED", result, cut)
       \/ Promotion(j)
       \/ Reconcile(j)
  \/ OwnerPatch
  \/ CrashSI
  \/ StartSI
  \/ Listen
SIFairness == /\ WF_siVars(StartSI) /\ WF_siVars(Listen)
              /\ \A j \in SourceJobs : WF_siVars(Reconcile(j)) /\ WF_siVars(Promotion(j))
SISpec == SIInit /\ [][SINext]_siVars /\ SIFairness

-----------------------------------------------------------------------------
SITypeOK ==
  /\ siHub \in {"down", "starting", "up"} /\ siDeaths \in 0..MaxHubDeaths
  /\ siJob \in [SourceJobs -> Finished \union {"none", "WAIT_APPROVAL", "RUNNING"}]
  /\ siBinding \in [SourceJobs -> {"none", "PENDING", "PROMOTED", "REJECTED"}]
  /\ siPatch.state \in Settled \union {"none", "DRAFT", "TESTED"}
  /\ siReading \in [SourceJobs -> 0..MaxObservers] /\ siTodo \subseteq SourceJobs
(* Nothing is adopted, in a Canary or deployed without test evidence, a        *)
(* material improvement only with the Owner's grant, an improvement of a job   *)
(* only when that job is bound and succeeded with valid evidence; and a        *)
(* binding says PROMOTED only of an improvement that is past its test,         *)
(* whichever way the generic and the improvement routes, restarts and          *)
(* repeated observations met (m3-registry.ts, self-improvement-coordinator.ts).*)
ReleasedIsEvidenced ==
  /\ siPatch.state \in {"ADOPTED", "CANARY", "DEPLOYED"} =>
       /\ siPatch.evidence # NoJob
       /\ siPatch.material => siPatch.granted
       /\ siPatch.source \in SourceJobs =>
            /\ siJob[siPatch.source] = "SUCCEEDED" /\ siResult[siPatch.source] # "bad"
            /\ siBinding[siPatch.source] # "none"
  /\ \A j \in SourceJobs :
       siBinding[j] = "PROMOTED" => siPatch.source = j /\ siPatch.state \in Settled
(* A bound job that succeeded is promoted or rejected in the end, even when    *)
(* the Hub ended between the report and its observation or in a promotion.     *)
BoundJobsSettle ==
  \A j \in SourceJobs :
    (siJob[j] = "SUCCEEDED" /\ siBinding[j] = "PENDING") ~> (siBinding[j] # "PENDING")
=============================================================================
