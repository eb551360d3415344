------------------------------ MODULE AgentRunner ------------------------------
(***************************************************************************)
(* FridayRunner (apps/runner/src/runner.ts) executing remote Agent jobs    *)
(* against the Hub of NodeToolPolicy: pull, report, let the model plan,    *)
(* propose node tool calls, invoke the authorized ones, and keep a         *)
(* checkpoint on disk to go on from after a restart or a clearance.        *)
(*                                                                         *)
(* The Runner is one sequential loop, so it is a program counter and the   *)
(* locals of #pullAndExecute.  Every request to the Hub may be lost or its *)
(* answer may be, and #request sends it twice before it gives up.  The     *)
(* process may end at any step; disk and Hub stay.  The Hub itself does    *)
(* not end here: to the Runner that is a lost request, and what it does to *)
(* the Hub's own state is checked in NodeToolPolicy.                       *)
(***************************************************************************)
EXTENDS NodeToolPolicy

CONSTANTS
    Me,             \* this Runner
    Proposed,       \* the tools the model may ask for
    StepBudget,     \* model outputs handled before a job is given up (12)
    ExchangeLimit,  \* exchanges a checkpoint may hold when it is loaded (12)
    MaxCrashes,     \* bound: ends of the Runner process, and saves that fail
    MaxLosses       \* bound: lost requests and answers

ASSUME MeAssumption == Me \in Runners
ASSUME ProposedAssumption == Proposed \subseteq ToolNames
ASSUME BudgetAssumption == StepBudget \in Nat /\ ExchangeLimit \in Nat
ASSUME FaultsAssumption == MaxCrashes \in Nat /\ MaxLosses \in Nat

VARIABLES
    run,        \* the locals of #pullAndExecute, and where it stands
    ckpt,       \* agent-checkpoint.json of each job
    runtime,    \* jobs whose runtime directory exists
    invoked,    \* history: calls whose tool was invoked
    unsaved,    \* history: calls whose result never reached the checkpoint
    crashes, losses

agentVars == <<run, ckpt, runtime, invoked, unsaved, crashes, losses>>
everything == <<allVars, agentVars>>
hubVars == allVars

-----------------------------------------------------------------------------
Places == {"off", "idle", "recover", "pull", "prepare", "first_save", "reconcile",
           "start", "grant", "plan", "ask", "invoke", "observed",
           "output", "succeed", "error", "fail"}

\* What an exchange tells the model about a call.
Said == {"result", "not executed"}
Exchange == [call : Calls, said : Said]

NoTool == [id |-> "NONE", lease |-> 0, name |-> "NONE"]
ToolCall == [id : Calls, lease : 1..MaxLease, name : ToolNames]

NoCheckpoint == [phase |-> "NONE", lease |-> 0, seq |-> 0, exchanges |-> <<>>, call |-> NoTool]
Checkpoint == [phase : {"planning", "tool_pending"}, lease : 1..MaxLease, seq : Nat,
               exchanges : Seq(Exchange), call : ToolCall \cup {NoTool}]

\* A process that just polls; retry: "first", "again" after a lost request,
\* "done" after a request the Hub handled and whose answer was lost.
Idle == [at |-> "idle", jobs |-> {}, job |-> "NONE", lease |-> 0, seq |-> 0, steps |-> 0,
         exchanges |-> <<>>, call |-> NoTool, retry |-> "first"]
Off == [Idle EXCEPT !.at = "off"]

AgentTypeOK ==
    /\ run.at \in Places
    /\ run.jobs \subseteq Jobs
    /\ run.job \in Jobs \cup {"NONE"}
    /\ run.lease \in 0..MaxLease
    /\ run.seq \in Nat
    /\ run.steps \in 0..StepBudget
    /\ run.exchanges \in Seq(Exchange)
    /\ run.call \in ToolCall \cup {NoTool}
    /\ run.retry \in {"first", "again", "done"}
    /\ ckpt \in [Jobs -> Checkpoint \cup {NoCheckpoint}]
    /\ runtime \subseteq Jobs
    /\ invoked \subseteq Calls
    /\ unsaved \subseteq Calls
    /\ crashes \in 0..MaxCrashes
    /\ losses \in 0..MaxLosses

AgentInit ==
    /\ PolicyInit
    /\ run = Off
    /\ ckpt = [j \in Jobs |-> NoCheckpoint]
    /\ runtime = {}
    /\ invoked = {}
    /\ unsaved = {}
    /\ crashes = 0
    /\ losses = 0

At(place) == run.at = place
HubStays == UNCHANGED hubVars
DiskStays == UNCHANGED <<ckpt, runtime>>
Sound == UNCHANGED <<invoked, unsaved, crashes, losses>>
HasCheckpoint(j) == ckpt[j] # NoCheckpoint

\* The Runner goes on from its present locals.
GoTo(place) == run' = [run EXCEPT !.at = place, !.retry = "first"]

-----------------------------------------------------------------------------
(***************************************************************************)
(* #request.  Effect is what the Hub does with the request, Next where the *)
(* Runner goes with the answer; a second loss, or a refusal, throws.       *)
(***************************************************************************)
Lose == losses < MaxLosses /\ losses' = losses + 1 /\ UNCHANGED <<invoked, unsaved, crashes>>

Answered(Effect, Then) == Effect /\ Then /\ Sound

AnswerLost(Effect, Throw) ==
    /\ Effect
    /\ Lose
    /\ DiskStays
    /\ IF run.retry = "first" THEN run' = [run EXCEPT !.retry = "done"] ELSE Throw

RequestLost(Throw) ==
    /\ HubStays
    /\ Lose
    /\ DiskStays
    /\ IF run.retry = "first" THEN run' = [run EXCEPT !.retry = "again"] ELSE Throw

\* An answer that says no.  A 5xx one is asked again, like a lost request or a lost answer.
Refused(Throw) == HubStays /\ Throw /\ DiskStays /\ Sound

GiveUp == run' = Idle

-----------------------------------------------------------------------------
StartRunner ==
    /\ At("off")
    /\ run' = Idle
    /\ HubStays /\ DiskStays /\ Sound

CrashRunner ==
    /\ ~At("off")
    /\ crashes < MaxCrashes
    /\ crashes' = crashes + 1
    /\ run' = Off
    /\ unsaved' = IF At("observed") THEN unsaved \cup {run.call.id} ELSE unsaved
    /\ HubStays /\ DiskStays
    /\ UNCHANGED <<invoked, losses>>

\* #saveAgentCheckpoint throws: the disk is full, or the checkpoint over its size.  After an
\* answer of the Hub that looks like an answer lost twice, and while planning like PlanFails.
SaveFails ==
    /\ At("observed") \/ (At("first_save") /\ ~HasCheckpoint(run.job))
    /\ crashes < MaxCrashes
    /\ crashes' = crashes + 1
    /\ GoTo("error")
    /\ unsaved' = IF At("observed") THEN unsaved \cup {run.call.id} ELSE unsaved
    /\ HubStays /\ DiskStays
    /\ UNCHANGED <<invoked, losses>>

\* One round of the loop of run(): recover the checkpoints, then pull.
Poll ==
    /\ At("idle")
    /\ run' = [Idle EXCEPT !.at = "recover", !.jobs = {j \in Jobs : HasCheckpoint(j)}]
    /\ HubStays /\ DiskStays /\ Sound

\* #agentCheckpoint: a checkpoint it does not accept makes it throw.
Loads(j) == Len(ckpt[j].exchanges) <= ExchangeLimit

\* recoverAgent at the Hub; only a RUNNING job changes.
Recoverable(j) ==
    /\ runner[j] = Me
    /\ \/ status[j] \in Terminal \cup {"WAIT_APPROVAL", "DISPATCHED"}
       \/ status[j] = "RUNNING" /\ lease[j] = ckpt[j].lease

\* Faulty variant: a held job is dispatched again like a running one.
ResumeHeldToo(j) ==
    IF status[j] \in {"RUNNING", "WAIT_APPROVAL"}
      THEN /\ SetStatus(j, "DISPATCHED")
           /\ RenewIfLapsed(j)
           /\ UNCHANGED <<rows, tool, runner, lastSequence, events, approved, policyVars>>
      ELSE HubStays

Resume(j) ==
    IF status[j] = "RUNNING"
      THEN RecoverAgent(j, Me, ckpt[j].lease) /\ UNCHANGED policyVars
      ELSE HubStays

DropCheckpoint(j) == ckpt' = [ckpt EXCEPT ![j] = NoCheckpoint] /\ UNCHANGED runtime

\* Faulty variant: the checkpoint keeps its own sequence number.
KeepSequence(j) ==
    /\ run' = [run EXCEPT !.jobs = @ \ {j}, !.retry = "first"]
    /\ IF status[j] \in Terminal THEN DropCheckpoint(j) ELSE DiskStays

\* DISCARD removes it, READY moves it to the Hub's next sequence number, HOLD keeps it.
AfterResume(j) ==
    /\ run' = [run EXCEPT !.jobs = @ \ {j}, !.retry = "first"]
    /\ CASE status[j] \in Terminal -> DropCheckpoint(j)
         [] status[j] = "WAIT_APPROVAL" -> DiskStays
         [] OTHER -> /\ ckpt' = [ckpt EXCEPT ![j].seq = lastSequence[j] + 1]
                     /\ UNCHANGED runtime

RecoverCheckpoint(j) ==
    /\ At("recover")
    /\ j \in run.jobs
    /\ \/ Loads(j) /\ Recoverable(j) /\ Answered(Resume(j), AfterResume(j))
       \/ Loads(j) /\ Recoverable(j) /\ AnswerLost(Resume(j), GiveUp)
       \/ Loads(j) /\ RequestLost(GiveUp)
       \/ Loads(j) /\ ~Recoverable(j) /\ Refused(GiveUp)
       \/ ~Loads(j) /\ Refused(GiveUp)

Recovered ==
    /\ At("recover")
    /\ run.jobs = {}
    /\ GoTo("pull")
    /\ HubStays /\ DiskStays /\ Sound

-----------------------------------------------------------------------------
Offered(j) == IsOldestDispatched(Me, j)
Hand(j) == IF LeaseLapsed(j) THEN Pull(Me, j) /\ UNCHANGED policyVars ELSE HubStays

PullJob ==
    /\ At("pull")
    /\ \/ \E j \in Jobs :
            /\ Offered(j)
            /\ \/ Answered(Hand(j), run' = [run EXCEPT !.at = "prepare", !.retry = "first",
                                              !.job = j, !.lease = lease'[j]])
                  /\ DiskStays
               \/ AnswerLost(Hand(j), GiveUp)
       \/ RequestLost(GiveUp)
       \/ (\A j \in Jobs : ~Offered(j)) /\ Refused(GiveUp)

\* Faulty variant: whatever has a directory is taken for interrupted.
PrepareFresh ==
    /\ At("prepare")
    /\ IF run.job \in runtime
         THEN GoTo("reconcile") /\ UNCHANGED runtime
         ELSE GoTo("first_save") /\ runtime' = runtime \cup {run.job}
    /\ HubStays /\ UNCHANGED ckpt /\ Sound

\* prepareAgentRuntime: an existing directory without a checkpoint is refused.
Prepare ==
    /\ At("prepare")
    /\ IF run.job \in runtime /\ ~HasCheckpoint(run.job)
         THEN GoTo("reconcile") /\ UNCHANGED runtime
         ELSE /\ run' = [run EXCEPT !.at = "first_save", !.seq = ckpt[run.job].seq,
                                    !.exchanges = ckpt[run.job].exchanges]
              /\ runtime' = runtime \cup {run.job}
    /\ HubStays /\ UNCHANGED ckpt /\ Sound

Save(phase, seq, exchanges, call_) ==
    /\ ckpt' = [ckpt EXCEPT ![run.job] =
                 [phase |-> phase, lease |-> run.lease, seq |-> seq,
                  exchanges |-> exchanges, call |-> call_]]
    /\ UNCHANGED runtime

\* The first checkpoint of a job, before it is reported RUNNING.
FirstSave ==
    /\ At("first_save")
    /\ IF HasCheckpoint(run.job) THEN DiskStays ELSE Save("planning", run.seq, <<>>, NoTool)
    /\ GoTo("start")
    /\ HubStays /\ Sound

\* Refusing to replay an interrupted job; whatever the answer, the round ends.
ReconcileJob ==
    /\ At("reconcile")
    /\ LET Tell == /\ Reconcile(run.job, Me, run.lease)
                   /\ UNCHANGED policyVars
           Told == status[run.job] \in Reconcilable /\ Bound(run.job, Me, run.lease)
                   /\ LeaseHonoured(run.job)
       IN \/ Told /\ Answered(Tell, GiveUp) /\ DiskStays
          \/ Told /\ AnswerLost(Tell, GiveUp)
          \/ RequestLost(GiveUp)
          \/ ~Told /\ Refused(GiveUp)

-----------------------------------------------------------------------------
(***************************************************************************)
(* #jobEvent.  The sequence number is taken whatever becomes of the event; *)
(* the retry of an event the Hub recorded is a duplicate, and accepted     *)
(* while its lease is.                                                     *)
(***************************************************************************)
Acceptable(body) ==
    /\ Bound(run.job, Me, run.lease)
    /\ LeaseHonoured(run.job)
    /\ run.retry # "done" =>
         /\ NextInSequence(run.job, run.seq)
         /\ body \in Notes \cup Transitions[status[run.job]]

Record(body) ==
    IF run.retry = "done"
      THEN HubStays
      ELSE AcceptEvent(run.job, Me, run.lease, run.seq, body) /\ UNCHANGED policyVars

Onward(place) == run' = [run EXCEPT !.at = place, !.seq = @ + 1, !.retry = "first"]

Post(body, Then, Throw) ==
    \/ Acceptable(body) /\ Answered(Record(body), Then)
    \/ Acceptable(body) /\ AnswerLost(Record(body), Throw)
    \/ RequestLost(Throw)
    \/ ~Acceptable(body) /\ Refused(Throw)

ReportRunning ==
    At("start") /\ Post("RUNNING", Onward("grant") /\ DiskStays, Onward("error"))

ReportOutput ==
    At("output") /\ Post("NOTE", Onward("succeed") /\ DiskStays, Onward("error"))

\* The checkpoint goes once the outcome was accepted.
ReportSuccess ==
    At("succeed") /\ Post("SUCCEEDED", GiveUp /\ DropCheckpoint(run.job), Onward("error"))

\* The catch block; when reporting fails too only a diagnostic is written.
ReportError ==
    At("error") /\ Post("NOTE", Onward("fail") /\ DiskStays, GiveUp)

ReportFailure ==
    At("fail") /\ Post("FAILED", GiveUp /\ DropCheckpoint(run.job), GiveUp)

-----------------------------------------------------------------------------
GrantIssued == ActiveLease(run.job, Me, run.lease) /\ ~LeaseLapsed(run.job)

Told(c, said) == Append(run.exchanges, [call |-> c, said |-> said])

\* Without a tool pending, or after one of an older lease, the model plans at once.
PlanFrom(exchanges) ==
    /\ run' = [run EXCEPT !.at = "plan", !.retry = "first", !.exchanges = exchanges,
                          !.call = NoTool]
    /\ Save("planning", run.seq, exchanges, NoTool)

Granted ==
    LET pending == ckpt[run.job].call IN
    CASE ckpt[run.job].phase = "planning" -> PlanFrom(run.exchanges)
      [] ckpt[run.job].phase = "tool_pending" /\ pending.lease # run.lease ->
            PlanFrom(Told(pending.id, "not executed"))
      [] OTHER -> /\ run' = [run EXCEPT !.at = "ask", !.retry = "first", !.call = pending]
                  /\ DiskStays

RequestModelAccess ==
    /\ At("grant")
    /\ \/ GrantIssued /\ Answered(HubStays, Granted)
       \/ RequestLost(GoTo("error"))
       \/ ~GrantIssued /\ Refused(GoTo("error"))

-----------------------------------------------------------------------------
\* #runRemoteAgentLoop: what the model says next, within the budget.
\* (Faulty variant first: the budget is forgotten.)
AnyOutput == At("plan") /\ run.steps <= StepBudget /\ HubStays /\ Sound

Output == At("plan") /\ run.steps < StepBudget /\ HubStays /\ Sound

\* The sandbox fails, the model repeats malformed output, or the budget is spent.  (What the
\* sandbox wrote before it failed is one of the notes that ReportError stands for.)
PlanFails ==
    /\ At("plan")
    /\ GoTo("error")
    /\ HubStays /\ DiskStays /\ Sound

\* Malformed output, or a finish before any exchange, is answered by another turn.
PlanAgain ==
    /\ Output
    /\ run' = [run EXCEPT !.steps = @ + 1]
    /\ Save("planning", run.seq, run.exchanges, NoTool)

FinishAllowed == run.exchanges # <<>>

PlanFinish ==
    /\ Output
    /\ FinishAllowed
    /\ GoTo("output")
    /\ DiskStays

\* The model was told to make up a UUID: no job, here or at the Hub, knows it.
Histories == {run.exchanges} \cup {ckpt[j].exchanges : j \in Jobs}
NewCall(c) ==
    /\ callStatus[c] = "NONE"
    /\ \A j \in Jobs : ckpt[j].call.id # c
    /\ \A ex \in Histories : \A i \in DOMAIN ex : ex[i].call # c

PlanCall(c, name) ==
    /\ Output
    /\ NewCall(c)
    /\ LET tc == [id |-> c, lease |-> run.lease, name |-> name]
       IN /\ run' = [run EXCEPT !.at = "ask", !.steps = @ + 1, !.call = tc]
          /\ Save("tool_pending", run.seq, run.exchanges, tc)

-----------------------------------------------------------------------------
(***************************************************************************)
(* #evaluateNodeTool: a call new to the Hub is proposed, a call it has is  *)
(* answered from its row, and holds the job again while it waits.  At the  *)
(* very expiry of the lease the Hub still writes the row of a new call but *)
(* can no longer hold the job for it: an error after a write.              *)
(***************************************************************************)
Evaluate(c) ==
    /\ hub' = "up"
    /\ \/ ProposeUnavailable(c, run.job, run.lease, run.call.name)
       \/ ProposeRead(c, run.job, run.lease, run.call.name)
       \/ ProposeGuarded(c, run.job, run.lease, run.call.name)
       \/ Reevaluate(c)
       \/ callStatus[c] # "NONE" /\ Decision(c) # "WAIT_APPROVAL" /\ HubStays

NewGuarded(c) ==
    callStatus[c] = "NONE" /\ NeedsOwner(run.call.name) /\ run.call.name \notin unavailable

Evaluable(c) == ActiveLease(run.job, Me, run.lease)

Decidable(c) ==
    \/ callStatus[c] = "NONE" /\ run.call.name \in unavailable
    \/ callStatus[c] # "NONE" /\ Decision(c) # "WAIT_APPROVAL"
    \/ ~LeaseLapsed(run.job)

\* The decision the answer carries.
Decided(c) ==
    CASE Decision(c)' = "WAIT_APPROVAL" -> GiveUp /\ DiskStays
      [] Decision(c)' = "APPROVED" -> GoTo("invoke") /\ DiskStays
      [] OTHER -> PlanFrom(Told(c, "not executed"))

\* (c is bound, not defined, so that it stays the same call in Decided.)
AskHub ==
    /\ At("ask")
    /\ \E c \in {run.call.id} :
         LET Write == IF NewGuarded(c) THEN Evaluate(c) ELSE HubStays
         IN \/ Evaluable(c) /\ Decidable(c) /\ Answered(Evaluate(c), Decided(c))
            \/ Evaluable(c) /\ Decidable(c) /\ AnswerLost(Evaluate(c), GoTo("error"))
            \/ Evaluable(c) /\ ~Decidable(c) /\ Answered(Write, GoTo("error") /\ DiskStays)
            \/ Evaluable(c) /\ ~Decidable(c) /\ AnswerLost(Write, GoTo("error"))
            \/ RequestLost(GoTo("error"))
            \/ ~Evaluable(c) /\ Refused(GoTo("error"))

\* Faulty variant: the node does not look at the authorization's expiry.
AnyAuthority(c) == callStatus[c] = "APPROVED"

AuthorityVerified(c) == authTtl[c] > 0

\* Faulty variant: a refused authorization is a failure of the tool.
ObserveRefusal ==
    /\ At("invoke")
    /\ GoTo("observed")
    /\ invoked' = IF AuthorityVerified(run.call.id) THEN invoked \cup {run.call.id} ELSE invoked
    /\ HubStays /\ DiskStays
    /\ UNCHANGED <<unsaved, crashes, losses>>

\* The node verifies the authorization again; a tool that fails is a result too.
InvokeTool ==
    /\ At("invoke")
    /\ LET c == run.call.id IN
       IF AuthorityVerified(c)
         THEN GoTo("observed") /\ invoked' = invoked \cup {c}
         ELSE GoTo("error") /\ UNCHANGED invoked
    /\ HubStays /\ DiskStays
    /\ UNCHANGED <<unsaved, crashes, losses>>

Observe ==
    /\ At("observed")
    /\ PlanFrom(Told(run.call.id, "result"))
    /\ HubStays /\ Sound

-----------------------------------------------------------------------------
RunnerStep ==
    \/ StartRunner \/ Poll \/ Recovered \/ PullJob \/ Prepare \/ FirstSave \/ ReconcileJob
    \/ ReportRunning \/ ReportOutput \/ ReportSuccess \/ ReportError \/ ReportFailure
    \/ RequestModelAccess \/ PlanFails \/ PlanAgain \/ PlanFinish \/ AskHub
    \/ InvokeTool \/ Observe
    \/ \E j \in Jobs : RecoverCheckpoint(j)
    \/ \E c \in Calls, name \in Proposed : PlanCall(c, name)

\* The Owner, through the Hub.
Submit(j) == Create(j, Me, "agent") /\ UNCHANGED policyVars
Stop(j) == Cancel(j) /\ UNCHANGED policyVars
Answer(c) == hub' = "up" /\ (ClearCall(c) \/ ClearCallTooLate(c))

AgentNext ==
    \/ RunnerStep
    \/ CrashRunner \/ SaveFails
    \/ /\ UNCHANGED agentVars
       /\ \/ PolicyTick
          \/ \E j \in Jobs : Submit(j) \/ Stop(j)
          \/ \E c \in Calls : Answer(c)

AgentSpec == AgentInit /\ [][AgentNext]_everything

-----------------------------------------------------------------------------
(***************************************************************************)
(* The tool calls of the Runner are those the policy was modelled for, so  *)
(* what was checked of the policy holds with this Runner.                  *)
(***************************************************************************)
ImplementsPolicy == PolicySpec

(***************************************************************************)
(* A tool that is not a read is invoked only for a call the Owner cleared, *)
(* whatever was lost, replayed or restarted in between.                    *)
(***************************************************************************)
OnlyClearedInvoked ==
    \A c \in invoked : NodeToolRisk(call[c].name) # "R0" => c \in cleared

(***************************************************************************)
(* A call is invoked while the job still has the lease it was proposed     *)
(* under ("If the lease expires first, Friday never executes the old       *)
(* call", README.en.md:92).                                                *)
(***************************************************************************)
InvokedUnderItsLease ==
    [][\A c \in invoked' \ invoked :
          lease[JobOf(c)] = call[c].lease /\ ~LeaseLapsed(JobOf(c))]_everything

(***************************************************************************)
(* What the model is told about a call, through restarts of the Runner, is *)
(* true: a result was observed, and a call "not executed" was not.  The    *)
(* one exception is a call whose tool ran and whose result never reached   *)
(* the checkpoint, because the process ended or the save failed: after a   *)
(* renewal of the lease it is told as not executed (runner.ts:226, see     *)
(* README), and nothing else makes a call that ran look like one that did  *)
(* not.                                                                    *)
(***************************************************************************)
ToldTheTruth ==
    \A ex \in Histories : \A i \in DOMAIN ex :
        /\ ex[i].said = "result" => ex[i].call \in invoked
        /\ ex[i].said = "not executed" /\ ex[i].call \in invoked => ex[i].call \in unsaved

(***************************************************************************)
(* A job of an Agent succeeds only after an observation of the node        *)
(* (runner.ts:319: a result without a real observation is meaningless).    *)
(***************************************************************************)
SuccessIsObserved ==
    \A j \in Jobs : status[j] = "SUCCEEDED" => \E c \in invoked : JobOf(c) = j

(***************************************************************************)
(* A Runner that polls can recover every checkpoint it kept: the Hub does  *)
(* not refuse it.  A refused one ends every round before the pull.         *)
(***************************************************************************)
CheckpointsRecover ==
    At("idle") => \A j \in Jobs : HasCheckpoint(j) => Recoverable(j)

\* It can load every checkpoint it saved.
CheckpointsLoad == \A j \in Jobs : Loads(j)

-----------------------------------------------------------------------------
(***************************************************************************)
(* The loop of the Runner never ends; its requests time out.  The Owner    *)
(* answers what is asked.  Faults are finite in number.                    *)
(***************************************************************************)
FairAgentSpec ==
    /\ AgentSpec
    /\ WF_everything(RunnerStep)
    /\ \A c \in Calls : WF_everything(UNCHANGED agentVars /\ Answer(c))

BoundReached(j) ==
    \/ lease[j] = MaxLease /\ LeaseLapsed(j)
    \/ Len(events[j]) = MaxEvents

(***************************************************************************)
(* A job that was dispatched ends, or is left to the Owner as interrupted, *)
(* through lost messages, restarts of the Runner and clearances.           *)
(***************************************************************************)
JobsEnd ==
    \A j \in Jobs : status[j] = "DISPATCHED" ~>
        status[j] \in Terminal \cup {"RECONCILING"} \/ BoundReached(j)
=============================================================================
