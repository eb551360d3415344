-------------------------- MODULE AgentRunnerProofs --------------------------
(***************************************************************************)
(* What a Runner with remote Agents does to the Hub and tells its model,   *)
(* for any number of jobs, calls, lost messages and ends of its process.   *)
(***************************************************************************)
EXTENDS AgentRunner, NodeToolPolicyProofs

-----------------------------------------------------------------------------
(***************************************************************************)
(* The inductive invariant.                                                *)
(***************************************************************************)
RunRow ==
    [at : Places, jobs : SUBSET Jobs, job : Jobs \cup {"NONE"}, lease : 0..MaxLease, seq : Nat,
     steps : 0..StepBudget, exchanges : Seq(Exchange), call : ToolCall \cup {NoTool},
     retry : {"first", "again", "done"}]

LocalsTyped ==
    /\ run \in RunRow
    /\ ckpt \in [Jobs -> Checkpoint \cup {NoCheckpoint}]
    /\ runtime \subseteq Jobs /\ invoked \subseteq Calls /\ unsaved \subseteq Calls
    /\ crashes \in 0..MaxCrashes /\ losses \in 0..MaxLosses

Pending(j) == ckpt[j].phase = "tool_pending"

InHand == Places \ {"off", "idle", "recover", "pull"}
Saved == InHand \ {"prepare", "first_save", "reconcile"}
Failing == {"error", "fail"}

\* The states a job has when an Agent is its tool and this Runner its only one.
Seen == {"ABSENT", "DISPATCHED", "RUNNING", "WAIT_APPROVAL", "RECONCILING"} \cup Terminal

\* The Hub knows the job in hand as the Runner left it, the Owner and the clock aside.
JobKnown ==
    /\ hub = "up"
    /\ \A j \in Jobs : status[j] \in Seen
    /\ run.at \in InHand => /\ run.job \in Jobs /\ run.lease \in 1..MaxLease
                            /\ status[run.job] # "ABSENT"
    /\ run.at \in InHand \ {"reconcile"} => status[run.job] # "RECONCILING"
    /\ run.at \in {"prepare", "first_save"} => status[run.job] \in {"DISPATCHED", "CANCELLED"}
    /\ run.at = "start" /\ run.retry # "done" => status[run.job] \in {"DISPATCHED", "CANCELLED"}
    /\ run.at = "reconcile" => status[run.job] \in {"DISPATCHED", "CANCELLED", "RECONCILING"}

\* The checkpoint is written before the Hub is asked, or the first save failed.
DiskKnown ==
    /\ \A j \in Jobs : Pending(j) => ckpt[j].call \in ToolCall
    /\ At("recover") => \A j \in run.jobs : HasCheckpoint(j)
    /\ run.at \in Saved \ Failing => HasCheckpoint(run.job)
    /\ run.at \in {"ask", "invoke", "observed"} => Pending(run.job) /\ ckpt[run.job].call = run.call

\* An authorization that runs is that of a row.
AuthorityHasRow == \A c \in Calls : authTtl[c] > 0 => callStatus[c] = "APPROVED"

InvokedCleared ==
    /\ \A c \in invoked : callStatus[c] # "NONE"
    /\ OnlyClearedInvoked

\* A pending call is told to no model yet, pends in one checkpoint, and was invoked
\* only if its result is about to be saved, or was lost before it was.
CallsUntold ==
    \A j \in Jobs : Pending(j) =>
        /\ run.at = "observed" /\ run.job = j => ckpt[j].call.id \in invoked
        /\ ckpt[j].call.id \in invoked =>
              (run.at = "observed" /\ run.job = j) \/ ckpt[j].call.id \in unsaved
        /\ \A ex \in Histories : \A i \in DOMAIN ex : ex[i].call # ckpt[j].call.id
        /\ \A k \in Jobs : Pending(k) /\ ckpt[k].call.id = ckpt[j].call.id => k = j

AgentInv ==
    /\ PolicyInv /\ AuthorityHasRow
    /\ LocalsTyped /\ JobKnown /\ DiskKnown
    /\ InvokedCleared /\ ToldTheTruth /\ CallsUntold

-----------------------------------------------------------------------------
(***************************************************************************)
(* What the Runner's requests and the Owner do to the Hub: steps of the    *)
(* policy, which move a job from one set of states to another.             *)
(***************************************************************************)
Moved(from, to) ==
    /\ [PolicyNext]_allVars
    /\ hub' = "up"
    /\ \A j \in Jobs : status'[j] = status[j] \/ (status[j] \in from /\ status'[j] \in to)

LEMMA HubStaysMoves ==
    ASSUME JobKnown, HubStays
    PROVE  Moved({}, {}) /\ status' = status
  BY DEF JobKnown, HubStays, hubVars, allVars, vars, policyVars, Moved

LEMMA TypesOfHub ==
    ASSUME PolicyInv
    PROVE  /\ status \in [Jobs -> States \cup {"ABSENT"}]
           /\ lease \in [Jobs -> 0..MaxLease]
           /\ \A j \in Jobs : lastSequence[j] + 1 = Len(events[j]) /\ Len(events[j]) \in Nat
           /\ call \in [Calls -> CallContent \cup {NoCall}]
           /\ MaxLease \in Nat /\ MaxEvents \in Nat
  <1>1. TypeOK /\ RowsInv /\ call \in [Calls -> CallContent \cup {NoCall}]
    BY DEF PolicyInv, PolicyTypeOK, IInv
  <1>2. ASSUME NEW j \in Jobs
        PROVE  lastSequence[j] + 1 = Len(events[j]) /\ Len(events[j]) \in Nat
    <2>1. events[j] \in Seq(Event) /\ lastSequence[j] = Len(events[j]) - 1
      BY <1>1 DEF TypeOK, RowsInv, RowInv
    <2>2. Len(events[j]) \in Nat
      BY <2>1, LenProperties
    <2>3. QED
      BY <2>1, <2>2
  <1>3. QED
    BY <1>1, <1>2, BoundsAssumption DEF TypeOK

LEMMA JobStepMoves ==
    ASSUME JobKnown, NEW j \in Jobs, JobStep(j), UNCHANGED policyVars
    PROVE  [PolicyNext]_allVars /\ hub' = "up"
  BY DEF JobKnown, PolicyNext, policyVars

LEMMA ResumeMoves ==
    ASSUME PolicyInv, JobKnown, NEW j \in Jobs, Recoverable(j), Resume(j)
    PROVE  Moved({"RUNNING"}, {"DISPATCHED"})
  <1>1. CASE status[j] = "RUNNING"
    <2> DEFINE l == ckpt[j].lease
    <2>1. RecoverAgent(j, Me, l) /\ UNCHANGED policyVars
      BY <1>1 DEF Resume
    <2>2. l > 0 /\ l = lease[j] /\ status' = [status EXCEPT ![j] = "DISPATCHED"]
      BY <2>1 DEF RecoverAgent, Bound, SetStatus
    <2>3. l \in 1..MaxLease
      BY <2>2, TypesOfHub
    <2>4. JobStep(j)
      BY <2>1, <2>3, MeAssumption DEF JobStep
    <2>5. QED
      BY <1>1, <2>1, <2>2, <2>4, JobStepMoves, TypesOfHub DEF Moved
  <1>2. CASE status[j] # "RUNNING"
    BY <1>2, HubStaysMoves DEF Resume, Moved
  <1>3. QED
    BY <1>1, <1>2

LEMMA HandMoves ==
    ASSUME PolicyInv, JobKnown, NEW j \in Jobs, Hand(j)
    PROVE  Moved({}, {}) /\ status' = status
  <1>1. CASE LeaseLapsed(j)
    <2>1. Pull(Me, j) /\ UNCHANGED policyVars
      BY <1>1 DEF Hand
    <2>2. JobStep(j)
      BY <2>1, MeAssumption DEF JobStep
    <2>3. QED
      BY <2>1, <2>2, JobStepMoves DEF Moved, Pull
  <1>2. CASE ~LeaseLapsed(j)
    BY <1>2, HubStaysMoves DEF Hand
  <1>3. QED
    BY <1>1, <1>2

LEMMA ReconcileMoves ==
    ASSUME PolicyInv, JobKnown, At("reconcile"), status[run.job] \in Reconcilable,
           Reconcile(run.job, Me, run.lease), UNCHANGED policyVars
    PROVE  Moved({"DISPATCHED"}, {"RECONCILING"})
  <1>1. run.job \in Jobs /\ run.lease \in 1..MaxLease /\ status[run.job] = "DISPATCHED"
    BY DEF JobKnown, At, InHand, Places, Reconcilable
  <1>2. JobStep(run.job)
    BY <1>1, MeAssumption DEF JobStep
  <1>3. status' = [status EXCEPT ![run.job] = "RECONCILING"]
    BY DEF Reconcile, SetStatus
  <1>4. QED
    BY <1>1, <1>2, <1>3, JobStepMoves, TypesOfHub DEF Moved

\* A report goes through only from the state the Runner knows the job in.
LEMMA RecordMoves ==
    ASSUME PolicyInv, JobKnown, run.at \in {"start", "output", "succeed", "error", "fail"},
           NEW body \in {"NOTE", "RUNNING", "SUCCEEDED", "FAILED"},
           body = "RUNNING" => At("start"), Record(body)
    PROVE  Moved({"DISPATCHED", "RUNNING"}, {"RUNNING", "SUCCEEDED", "FAILED"})
  <1> DEFINE j == run.job
  <1>1. /\ j \in Jobs /\ run.lease \in 1..MaxLease
        /\ status[j] \in Seen \ {"RECONCILING", "ABSENT"}
        /\ At("start") /\ run.retry # "done" => status[j] \in {"DISPATCHED", "CANCELLED"}
    BY DEF JobKnown, At, InHand, Places
  <1>2. CASE run.retry = "done"
    BY <1>2, HubStaysMoves DEF Record, Moved
  <1>3. CASE run.retry # "done"
    <2>1. AcceptEvent(j, Me, run.lease, run.seq, body) /\ UNCHANGED policyVars
      BY <1>3 DEF Record
    <2>2. run.seq \in 0..MaxEvents
      <3>1. run.seq = lastSequence[j] + 1 /\ Len(events[j]) < MaxEvents
        BY <2>1 DEF AcceptEvent, NextInSequence
      <3>2. QED
        BY <1>1, <3>1, TypesOfHub
    <2>3. CASE status' = status /\ body \in Notes
      <3>1. RunnerReport(j, Me, run.lease, run.seq)
        BY <2>1, <2>3 DEF RunnerReport
      <3>2. JobStep(j)
        BY <1>1, <2>2, <3>1, MeAssumption DEF JobStep
      <3>3. QED
        BY <1>1, <2>1, <2>3, <3>2, JobStepMoves DEF Moved
    <2>4. CASE body \in Transitions[status[j]] /\ status' = [status EXCEPT ![j] = body]
      <3>1. \/ status[j] = "DISPATCHED" /\ body = "RUNNING"
            \/ status[j] = "RUNNING" /\ body \in {"SUCCEEDED", "FAILED"}
        BY <1>1, <1>3, <2>4 DEF Seen, Terminal, Transitions
      <3>2. RunnerReport(j, Me, run.lease, run.seq)
        BY <2>1, <3>1 DEF RunnerReport
      <3>3. JobStep(j)
        BY <1>1, <2>2, <3>2, MeAssumption DEF JobStep
      <3>4. QED
        BY <1>1, <2>1, <2>4, <3>1, <3>3, JobStepMoves, TypesOfHub DEF Moved
    <2>5. QED
      BY <2>1, <2>3, <2>4 DEF AcceptEvent, SetStatus
  <1>4. QED
    BY <1>2, <1>3

LEMMA HoldMoves ==
    ASSUME PolicyInv, NEW j \in Jobs, NEW r, NEW l, Hold(j, r, l)
    PROVE  \A k \in Jobs : \/ status'[k] = status[k]
                           \/ status[k] \in {"RUNNING", "DISPATCHED"} /\ status'[k] = "WAIT_APPROVAL"
  BY TypesOfHub DEF Hold, WaitForToolApproval, CanHold, SetStatus, vars

LEMMA EvaluateMoves ==
    ASSUME PolicyInv, JobKnown, LocalsTyped, DiskKnown, At("ask"), NEW c \in Calls, c = run.call.id,
           Evaluate(c)
    PROVE  Moved({"RUNNING", "DISPATCHED"}, {"WAIT_APPROVAL"})
  <1> DEFINE j == run.job
             l == run.lease
             name == run.call.name
  <1>1. j \in Jobs /\ l \in 1..MaxLease /\ name \in ToolNames /\ hub' = "up" /\ hub = "up"
    BY DEF JobKnown, DiskKnown, At, InHand, Places, Evaluate, ToolCall
  <1>2. CASE ProposeUnavailable(c, j, l, name) \/ ProposeRead(c, j, l, name)
    <2>1. CallStep(c)
      BY <1>1, <1>2 DEF CallStep
    <2>2. QED
      BY <1>1, <1>2, <2>1 DEF PolicyNext, Moved, ProposeUnavailable, ProposeRead, vars
  <1>3. CASE ProposeGuarded(c, j, l, name)
    <2>1. CallStep(c)
      BY <1>1, <1>3 DEF CallStep
    <2>2. Hold(j, runner[j], l)
      BY <1>1, <1>3 DEF ProposeGuarded, CrashBetween
    <2>3. QED
      BY <1>1, <2>1, <2>2, HoldMoves DEF PolicyNext, Moved
  <1>4. CASE Reevaluate(c)
    <2>1. CallStep(c)
      BY <1>4 DEF CallStep
    <2>2. callStatus[c] # "NONE" /\ BoundToCall(c) /\ Hold(JobOf(c), runner[JobOf(c)], call[c].lease)
      BY <1>4 DEF Reevaluate, Decision
    <2>3. JobOf(c) \in Jobs
      BY <2>2, CallNamesJob DEF PolicyInv
    <2>4. QED
      BY <1>1, <2>1, <2>2, <2>3, HoldMoves DEF PolicyNext, Moved
  <1>5. CASE HubStays
    BY <1>5, HubStaysMoves DEF Moved
  <1>6. QED
    BY <1>2, <1>3, <1>4, <1>5 DEF Evaluate

\* The Owner and the clock.
Environment ==
    \/ PolicyTick
    \/ \E j \in Jobs : Submit(j) \/ Stop(j)
    \/ \E c \in Calls : Answer(c)

Submitted(j) == status[j] = "ABSENT" /\ status'[j] = "DISPATCHED" /\ runner'[j] = Me

LEMMA EnvironmentMoves ==
    ASSUME PolicyInv, JobKnown, Environment
    PROVE  /\ [PolicyNext]_allVars /\ hub' = "up"
           /\ \A j \in Jobs : \/ status'[j] = status[j]
                              \/ status[j] # "ABSENT" /\ status'[j] = "CANCELLED"
                              \/ status[j] = "WAIT_APPROVAL" /\ status'[j] = "DISPATCHED"
                              \/ Submitted(j)
  <1>1. CASE PolicyTick
    BY <1>1 DEF JobKnown, PolicyTick, Tick, PolicyNext
  <1>2. ASSUME NEW j \in Jobs, Submit(j)
        PROVE  /\ [PolicyNext]_allVars /\ hub' = "up"
               /\ \A k \in Jobs : status'[k] = status[k] \/ Submitted(k)
    <2>1. Create(j, Me, "agent") /\ UNCHANGED policyVars
      BY <1>2 DEF Submit
    <2>2. JobStep(j)
      BY <2>1, MeAssumption DEF JobStep, Tools
    <2>3. /\ status[j] = "ABSENT" /\ status' = [status EXCEPT ![j] = "DISPATCHED"]
          /\ runner' = [runner EXCEPT ![j] = Me]
      BY <2>1 DEF Create, SetStatus, InitialStatus, Risk
    <2>4. runner \in [Jobs -> Runners \cup {"ABSENT"}]
      BY DEF PolicyInv, PolicyTypeOK, TypeOK
    <2>5. QED
      BY <2>1, <2>2, <2>3, <2>4, JobStepMoves, TypesOfHub DEF Submitted
  <1>3. ASSUME NEW j \in Jobs, Stop(j)
        PROVE  Moved(Active, {"CANCELLED"})
    <2>1. Cancel(j) /\ UNCHANGED policyVars
      BY <1>3 DEF Stop
    <2>2. JobStep(j) /\ status[j] \in Active /\ status' = [status EXCEPT ![j] = "CANCELLED"]
      BY <2>1 DEF JobStep, Cancel, SetStatus, Stoppable
    <2>3. QED
      BY <2>1, <2>2, JobStepMoves, TypesOfHub DEF Moved
  <1>4. ASSUME NEW c \in Calls, Answer(c)
        PROVE  Moved({"WAIT_APPROVAL"}, {"DISPATCHED"})
    <2>1. CallStep(c) /\ hub' = "up" /\ callStatus[c] # "NONE" /\ BoundToCall(c)
      BY <1>4 DEF Answer, CallStep, ClearCall, ClearCallTooLate, AwaitingClearance, HeldForCall
    <2>2. JobOf(c) \in Jobs
      BY <2>1, CallNamesJob DEF PolicyInv
    <2>3. Dispatch(c) \/ Redispatch(c)
      BY <1>4, <2>1 DEF Answer, ClearCall, ClearCallTooLate, CrashBetween
    <2>4. status[JobOf(c)] = "WAIT_APPROVAL" /\ status' = [status EXCEPT ![JobOf(c)] = "DISPATCHED"]
      BY <2>3 DEF Dispatch, Redispatch, DispatchAfterToolApproval, RedispatchAfterDeniedToolCall,
                  HeldForTool, SetStatus
    <2>5. QED
      BY <2>1, <2>2, <2>4, TypesOfHub DEF PolicyNext, Moved
  <1>5. QED
    BY <1>1, <1>2, <1>3, <1>4 DEF Environment, Moved, Active

-----------------------------------------------------------------------------
(***************************************************************************)
(* The rows of the policy persist: what the Runner invoked stays known,    *)
(* and cleared, whatever the Hub does next.                                *)
(***************************************************************************)
RowPersists(d) ==
    /\ callStatus[d] # "NONE" => callStatus'[d] # "NONE" /\ call'[d] = call[d]
    /\ authTtl'[d] > 0 => callStatus'[d] = "APPROVED"

RowsPersist == (\A d \in Calls : RowPersists(d)) /\ cleared \subseteq cleared'

LEMMA OneRowPersists ==
    ASSUME PolicyInv, AuthorityHasRow, NEW c \in Calls, CallStep(c) \/ OpenStep(c)
    PROVE  RowsPersist
  <1>1. CASE Reevaluate(c) \/ RestoreHold(c) \/ CompleteClearance(c) \/ SkipRow(c)
    BY <1>1 DEF Reevaluate, policyVars, RestoreHold, CompleteClearance, SkipRow, RowsPersist,
                RowPersists, AuthorityHasRow
  <1>2. CASE ClearCall(c)
    BY <1>2 DEF ClearCall, WriteRow, Authorize, PolicyInv, PolicyTypeOK, RowsPersist, RowPersists,
                AuthorityHasRow
  <1>3. CASE ClearCallTooLate(c) \/ DenyRow(c)
    BY <1>3 DEF ClearCallTooLate, DenyRow, WriteRow, NoAuthority, PolicyInv, PolicyTypeOK,
                RowsPersist, RowPersists, AuthorityHasRow
  <1>4. ASSUME NEW j \in Jobs, NEW l \in 1..MaxLease, NEW name \in ToolNames,
               \/ ProposeUnavailable(c, j, l, name)
               \/ ProposeRead(c, j, l, name)
               \/ ProposeGuarded(c, j, l, name)
        PROVE  RowsPersist
    BY <1>4 DEF ProposeUnavailable, ProposeRead, ProposeGuarded, Propose, WriteRow, Authorize,
                PolicyInv, PolicyTypeOK, RowsPersist, RowPersists, AuthorityHasRow
  <1>5. QED
    BY <1>1, <1>2, <1>3, <1>4 DEF CallStep, OpenStep

LEMMA EveryRowPersists ==
    ASSUME PolicyInv, AuthorityHasRow, [PolicyNext]_allVars
    PROVE  RowsPersist
  <1>1. CASE PolicyTick
    <2>1. /\ UNCHANGED <<callStatus, call, cleared>>
          /\ authTtl' = [c \in Calls |-> IF authTtl[c] > 0 THEN authTtl[c] - 1 ELSE 0]
      BY <1>1 DEF PolicyTick
    <2>2. QED
      BY <2>1 DEF RowsPersist, RowPersists, AuthorityHasRow
  <1>2. CASE Crash \/ Open \/ Opened \/ UNCHANGED policyVars \/ UNCHANGED allVars
    BY <1>2 DEF Crash, Open, Opened, allVars, policyVars, RowsPersist, RowPersists, AuthorityHasRow
  <1>3. QED
    BY <1>1, <1>2, OneRowPersists DEF PolicyNext

-----------------------------------------------------------------------------
(***************************************************************************)
(* A step of the Runner.  Kept: what it knows of the Hub and of its disk   *)
(* stays so.  Quiet for the model: it is told nothing and no call pends    *)
(* that did not.                                                           *)
(***************************************************************************)
Kept == [PolicyNext]_allVars /\ LocalsTyped' /\ JobKnown' /\ DiskKnown'

Untold ==
    /\ invoked' = invoked /\ unsaved' = unsaved
    /\ \A ex \in Histories' : ex \in Histories \/ ex = <<>>
    /\ \A j \in Jobs : Pending(j)' => Pending(j) /\ ckpt'[j].call = ckpt[j].call
    /\ run.at # "observed" /\ run'.at # "observed"

TrueOf(ex) ==
    \A i \in DOMAIN ex :
        /\ ex[i].said = "result" => ex[i].call \in invoked
        /\ ex[i].said = "not executed" /\ ex[i].call \in invoked => ex[i].call \in unsaved

LEMMA TruthStays ==
    ASSUME ToldTheTruth, invoked' = invoked, unsaved \subseteq unsaved',
           \A ex \in Histories' : ex \in Histories \/ ex = <<>> \/ TrueOf(ex)
    PROVE  ToldTheTruth'
  <1>1. ASSUME NEW ex \in Histories', NEW i \in DOMAIN ex
        PROVE  /\ ex[i].said = "result" => ex[i].call \in invoked'
               /\ ex[i].said = "not executed" /\ ex[i].call \in invoked' => ex[i].call \in unsaved'
    <2>1. CASE ex \in Histories
      BY <1>1, <2>1 DEF ToldTheTruth
    <2>2. CASE ex = <<>>
      <3>1. DOMAIN ex = {}
        BY <2>2
      <3>2. QED
        BY <1>1, <3>1
    <2>3. CASE TrueOf(ex)
      BY <1>1, <2>3 DEF TrueOf
    <2>4. QED
      BY <1>1, <2>1, <2>2, <2>3
  <1>2. QED
    BY <1>1 DEF ToldTheTruth

LEMMA UntoldTruth ==
    ASSUME ToldTheTruth, CallsUntold, Untold
    PROVE  ToldTheTruth' /\ CallsUntold'
  <1>1. ASSUME NEW ex \in Histories', NEW i \in DOMAIN ex
        PROVE  ex \in Histories
    BY <1>1 DEF Untold
  <1>2. ToldTheTruth'
    BY <1>1 DEF Untold, ToldTheTruth
  <1>3. ASSUME NEW j \in Jobs, Pending(j)'
        PROVE  /\ run'.at # "observed" /\ Pending(j) /\ ckpt'[j].call = ckpt[j].call
               /\ ckpt[j].call.id \in invoked => ckpt[j].call.id \in unsaved
               /\ \A ex \in Histories' : \A i \in DOMAIN ex : ex[i].call # ckpt[j].call.id
               /\ \A k \in Jobs : Pending(k)' /\ ckpt'[k].call.id = ckpt'[j].call.id => k = j
    BY <1>1, <1>3 DEF Untold, CallsUntold
  <1>4. CallsUntold'
    BY <1>3 DEF Untold, CallsUntold
  <1>5. QED
    BY <1>2, <1>4

\* A job the Runner no longer has in hand, and one it goes on with.
LEMMA KnownAtRest ==
    ASSUME JobKnown, NEW from, NEW to, Moved(from, to), to \subseteq Seen, run'.at \notin InHand
    PROVE  JobKnown'
  <1>1. {"prepare", "first_save", "start", "reconcile"} \subseteq InHand
    BY DEF InHand, Places
  <1>2. QED
    BY <1>1 DEF JobKnown, Moved

LEMMA KnownInHand ==
    ASSUME JobKnown, NEW from, NEW to, Moved(from, to), to \subseteq Seen \ {"ABSENT", "RECONCILING"},
           run.at \in Saved, run'.at \in Saved, run'.job = run.job, run'.lease = run.lease,
           run'.at = "start" /\ run'.retry # "done" =>
               status'[run.job] \in {"DISPATCHED", "CANCELLED"}
    PROVE  JobKnown'
  <1>1. /\ run.job \in Jobs /\ run.lease \in 1..MaxLease
        /\ status[run.job] \notin {"ABSENT", "RECONCILING"}
        /\ run'.at \notin {"prepare", "first_save", "reconcile"}
    BY DEF JobKnown, Saved, InHand, Places
  <1>2. status'[run.job] \notin {"ABSENT", "RECONCILING"}
    BY <1>1 DEF Moved
  <1>3. QED
    BY <1>1, <1>2 DEF JobKnown, Moved

LEMMA DiskAsItWas ==
    ASSUME LocalsTyped, DiskKnown, DiskStays, run' \in RunRow,
           invoked' \subseteq Calls, unsaved' \subseteq Calls,
           crashes' \in 0..MaxCrashes, losses' \in 0..MaxLosses, run'.at # "recover",
           run'.at \in Saved \ Failing => run.at \in Saved \ Failing /\ run'.job = run.job,
           run'.at \in {"ask", "invoke", "observed"} =>
               run.at \in {"ask", "invoke", "observed"} /\ run'.call = run.call
    PROVE  LocalsTyped' /\ DiskKnown'
  <1>1. LocalsTyped'
    BY DEF LocalsTyped, DiskStays
  <1>2. {"ask", "invoke", "observed"} \subseteq Saved \ Failing
    BY DEF Saved, Failing, InHand, Places
  <1>3. DiskKnown'
    BY <1>2 DEF DiskKnown, DiskStays, Pending, HasCheckpoint, At
  <1>4. QED
    BY <1>1, <1>3

LEMMA IdleTyped == Idle \in RunRow /\ Off \in RunRow
  <1>1. <<>> \in Seq(Exchange) /\ 0 \in 0..MaxLease /\ 0 \in 0..StepBudget
    BY EmptySeq, BoundsAssumption, BudgetAssumption
  <1>2. QED
    BY <1>1 DEF Idle, Off, RunRow, Places

LEMMA LossCounted ==
    ASSUME LocalsTyped, Sound \/ Lose
    PROVE  /\ invoked' = invoked /\ invoked' \subseteq Calls
           /\ unsaved' = unsaved /\ unsaved' \subseteq Calls
           /\ crashes' = crashes /\ crashes' \in 0..MaxCrashes /\ losses' \in 0..MaxLosses
  BY FaultsAssumption DEF LocalsTyped, Sound, Lose

\* Requests that change where the Runner stands and nothing on its disk.
LEMMA RoundGoesOn ==
    ASSUME AgentInv, NEW from, NEW to, Moved(from, to), to \subseteq Seen \ {"ABSENT", "RECONCILING"},
           DiskStays, Sound \/ Lose, run.at \in Saved \ {"observed"},
           \/ run' = Idle
           \/ run' = [run EXCEPT !.retry = "done"]
           \/ run' = [run EXCEPT !.retry = "again"] /\ run.retry = "first" /\ status' = status
           \/ \E place \in Saved \ {"start", "ask", "invoke", "observed"} :
                /\ GoTo(place) \/ Onward(place)
                /\ run.at \in Failing => place \in Failing
    PROVE  Kept /\ Untold /\ crashes' = crashes
  <1> USE DEF AgentInv
  <1>1. run \in RunRow /\ Saved \subseteq InHand /\ InHand \subseteq Places
    BY DEF LocalsTyped, Saved, InHand
  <1>2. CASE run' = Idle
    <2>1. run'.at = "idle" /\ run'.exchanges = <<>> /\ run' \in RunRow
      BY <1>2, IdleTyped DEF Idle
    <2>2. JobKnown'
      BY <2>1, KnownAtRest DEF InHand
    <2>3. LocalsTyped' /\ DiskKnown'
      BY <2>1, LossCounted, DiskAsItWas DEF Saved, InHand
    <2>4. Untold
      BY <2>1, LossCounted DEF Untold, Histories, Pending, DiskStays
    <2>5. QED
      BY <2>2, <2>3, <2>4, LossCounted DEF Kept, Moved
  <1>3. CASE run' # Idle
    <2>1. /\ run' \in RunRow /\ run'.job = run.job /\ run'.lease = run.lease
          /\ run'.exchanges = run.exchanges /\ run'.call = run.call
          /\ run'.at \in Saved \ {"observed"}
          /\ run'.at \in {"ask", "invoke"} => run.at = run'.at
          /\ run.at \in Failing => run'.at \in Failing
          /\ run'.at = "start" /\ run'.retry # "done" =>
                run.at = "start" /\ run.retry # "done" /\ status' = status
      <3>1. CASE run' = [run EXCEPT !.retry = "done"]
        BY <3>1, <1>1 DEF RunRow
      <3>2. CASE run' = [run EXCEPT !.retry = "again"] /\ run.retry = "first" /\ status' = status
        BY <3>2, <1>1 DEF RunRow
      <3>3. ASSUME NEW place \in Saved \ {"start", "ask", "invoke", "observed"},
                   GoTo(place) \/ Onward(place)
            PROVE  /\ run' \in RunRow /\ run'.job = run.job /\ run'.lease = run.lease
                   /\ run'.exchanges = run.exchanges /\ run'.call = run.call /\ run'.at = place
        <4>1. place \in Places
          BY <1>1
        <4>2. CASE GoTo(place)
          BY <4>1, <4>2, <1>1 DEF RunRow, GoTo
        <4>3. CASE Onward(place)
          <5> DEFINE n == run.seq + 1
          <5>1. n \in Nat
            BY <1>1 DEF RunRow
          <5>2. run' = [run EXCEPT !.at = place, !.seq = n, !.retry = "first"]
            BY <4>3 DEF Onward
          <5> HIDE DEF n
          <5>3. QED
            BY <4>1, <5>1, <5>2, <1>1 DEF RunRow
        <4>4. QED
          BY <3>3, <4>2, <4>3
      <3>4. QED
        BY <1>3, <3>1, <3>2, <3>3
    <2>2. JobKnown'
      BY <2>1, KnownInHand DEF JobKnown
    <2>3. LocalsTyped' /\ DiskKnown'
      <3>1. run'.at # "recover"
        BY <2>1 DEF Saved, InHand
      <3>2. QED
        BY <2>1, <3>1, LossCounted, DiskAsItWas
    <2>4. Untold
      BY <2>1, LossCounted DEF Untold, Histories, Pending, DiskStays
    <2>5. QED
      BY <2>2, <2>3, <2>4, LossCounted DEF Kept, Moved
  <1>4. QED
    BY <1>2, <1>3

-----------------------------------------------------------------------------
(***************************************************************************)
(* Reports.                                                                *)
(***************************************************************************)
StepQuiet == Kept /\ Untold /\ crashes' = crashes

Thrown == GiveUp \/ GoTo("error") \/ Onward("error")

Retried(how) == run.retry = "first" /\ run' = [run EXCEPT !.retry = how]

LEMMA RequestFails ==
    ASSUME AgentInv, NEW from, NEW to, Moved(from, to), to \subseteq Seen \ {"ABSENT", "RECONCILING"},
           DiskStays, Sound \/ Lose, run.at \in Saved \ {"observed"},
           Thrown \/ Retried("done") \/ (Retried("again") /\ status' = status)
    PROVE  StepQuiet
  <1>1. "error" \in Saved \ {"start", "ask", "invoke", "observed"}
    BY DEF Saved, InHand, Places
  <1>2. CASE GoTo("error") \/ Onward("error")
    <2>1. \E place \in Saved \ {"start", "ask", "invoke", "observed"} :
             (GoTo(place) \/ Onward(place)) /\ place \in Failing
      BY <1>1, <1>2 DEF Failing
    <2>2. QED
      BY <2>1, RoundGoesOn DEF StepQuiet
  <1>3. CASE GiveUp \/ Retried("done") \/ (Retried("again") /\ status' = status)
    BY <1>3, RoundGoesOn DEF StepQuiet, GiveUp, Retried
  <1>4. QED
    BY <1>2, <1>3 DEF Thrown

LEMMA HubUnasked ==
    ASSUME AgentInv, HubStays
    PROVE  Moved({}, {}) /\ status' = status
  BY HubStaysMoves DEF AgentInv

LEMMA PostLost ==
    ASSUME AgentInv, run.at \in {"start", "output", "succeed", "error", "fail"},
           NEW body \in {"NOTE", "RUNNING", "SUCCEEDED", "FAILED"}, body = "RUNNING" => At("start"),
           DiskStays,
           \/ Record(body) /\ Lose /\ (Retried("done") \/ Thrown)
           \/ HubStays /\ Lose /\ (Retried("again") \/ Thrown)
           \/ HubStays /\ Sound /\ Thrown
    PROVE  StepQuiet
  <1>1. run.at \in Saved \ {"observed"}
    BY DEF Saved, InHand, Places
  <1>2. CASE Record(body) /\ Lose /\ (Retried("done") \/ Thrown)
    <2>1. Moved({"DISPATCHED", "RUNNING"}, {"RUNNING", "SUCCEEDED", "FAILED"})
      BY <1>2, RecordMoves DEF AgentInv
    <2>2. {"RUNNING", "SUCCEEDED", "FAILED"} \subseteq Seen \ {"ABSENT", "RECONCILING"}
      BY DEF Seen, Terminal
    <2>3. QED
      BY <1>1, <1>2, <2>1, <2>2, RequestFails
  <1>3. CASE HubStays /\ (Sound \/ Lose) /\ (Retried("again") \/ Thrown)
    BY <1>1, <1>3, HubUnasked, RequestFails
  <1>4. QED
    BY <1>2, <1>3

LEMMA PostAccepted ==
    ASSUME AgentInv, run.at \in {"start", "output", "succeed", "error", "fail"},
           NEW body \in {"NOTE", "RUNNING", "SUCCEEDED", "FAILED"}, body = "RUNNING" => At("start"),
           Record(body), Sound, DiskStays,
           NEW place \in {"grant", "succeed", "fail"}, Onward(place),
           run.at \in Failing => place \in Failing
    PROVE  StepQuiet
  <1>1. run.at \in Saved \ {"observed"} /\ place \in Saved \ {"start", "ask", "invoke", "observed"}
    BY DEF Saved, InHand, Places
  <1>2. Moved({"DISPATCHED", "RUNNING"}, {"RUNNING", "SUCCEEDED", "FAILED"})
    BY RecordMoves DEF AgentInv
  <1>3. {"RUNNING", "SUCCEEDED", "FAILED"} \subseteq Seen \ {"ABSENT", "RECONCILING"}
    BY DEF Seen, Terminal
  <1>4. QED
    BY <1>1, <1>2, <1>3, RoundGoesOn DEF StepQuiet

LEMMA PostLast ==
    ASSUME AgentInv, run.at \in {"succeed", "fail"}, NEW body \in {"SUCCEEDED", "FAILED"},
           Record(body), Sound, GiveUp, DropCheckpoint(run.job)
    PROVE  StepQuiet
  <1>1. Moved({"DISPATCHED", "RUNNING"}, {"RUNNING", "SUCCEEDED", "FAILED"})
    BY RecordMoves DEF AgentInv
  <1>2. {"RUNNING", "SUCCEEDED", "FAILED"} \subseteq Seen
    BY DEF Seen, Terminal
  <1>3. run' = Idle /\ run'.at = "idle" /\ run'.exchanges = <<>> /\ run' \in RunRow
    BY IdleTyped DEF GiveUp, Idle
  <1>4. JobKnown'
    BY <1>1, <1>2, <1>3, KnownAtRest DEF AgentInv, InHand
  <1>5. /\ ckpt \in [Jobs -> Checkpoint \cup {NoCheckpoint}]
        /\ ckpt' = [ckpt EXCEPT ![run.job] = NoCheckpoint] /\ runtime' = runtime
    BY DEF AgentInv, LocalsTyped, DropCheckpoint
  <1>6. NoCheckpoint.phase = "NONE" /\ NoCheckpoint.exchanges = <<>>
    BY DEF NoCheckpoint
  <1>7. \A j \in Jobs : \/ ckpt'[j] = ckpt[j]
                        \/ ckpt'[j] = NoCheckpoint
    BY <1>5
  <1>8. LocalsTyped' /\ DiskKnown'
    <2>1. LocalsTyped'
      BY <1>3, <1>5, LossCounted DEF AgentInv, LocalsTyped
    <2>2. run'.at \notin Saved \cup {"recover", "ask", "invoke", "observed"}
      BY <1>3 DEF Saved, InHand
    <2>3. \A j \in Jobs : Pending(j)' => ckpt'[j].call \in ToolCall
      BY <1>6, <1>7 DEF AgentInv, DiskKnown, Pending
    <2>4. QED
      BY <2>1, <2>2, <2>3 DEF DiskKnown, At
  <1>9. Untold
    BY <1>3, <1>6, <1>7, LossCounted DEF Untold, Histories, Pending, AgentInv
  <1>10. QED
    BY <1>1, <1>4, <1>8, <1>9, LossCounted DEF StepQuiet, Kept, Moved, AgentInv

LEMMA ReportsQuiet ==
    ASSUME AgentInv,
           ReportRunning \/ ReportOutput \/ ReportSuccess \/ ReportError \/ ReportFailure
    PROVE  StepQuiet
  <1>1. CASE ReportRunning
    BY <1>1, PostLost, PostAccepted
    DEF ReportRunning, Post, Answered, AnswerLost, RequestLost, Refused, Retried, Thrown, At, Failing
  <1>2. CASE ReportOutput
    BY <1>2, PostLost, PostAccepted
    DEF ReportOutput, Post, Answered, AnswerLost, RequestLost, Refused, Retried, Thrown, At, Failing
  <1>3. CASE ReportSuccess
    BY <1>3, PostLost, PostLast
    DEF ReportSuccess, Post, Answered, AnswerLost, RequestLost, Refused, Retried, Thrown, At, Failing
  <1>4. CASE ReportError
    BY <1>4, PostLost, PostAccepted
    DEF ReportError, Post, Answered, AnswerLost, RequestLost, Refused, Retried, Thrown, At, Failing
  <1>5. CASE ReportFailure
    BY <1>5, PostLost, PostLast
    DEF ReportFailure, Post, Answered, AnswerLost, RequestLost, Refused, Retried, Thrown, At, Failing
  <1>6. QED
    BY <1>1, <1>2, <1>3, <1>4, <1>5

-----------------------------------------------------------------------------
(***************************************************************************)
(* Planning: every turn of the model is saved before it is acted upon.     *)
(***************************************************************************)
LEMMA SaveFacts ==
    ASSUME LocalsTyped, run.job \in Jobs, run.lease \in 1..MaxLease,
           NEW phase \in {"planning", "tool_pending"}, NEW seq \in Nat, NEW ex \in Seq(Exchange),
           NEW tc \in ToolCall \cup {NoTool}, Save(phase, seq, ex, tc)
    PROVE  /\ ckpt' \in [Jobs -> Checkpoint \cup {NoCheckpoint}]
           /\ ckpt'[run.job].phase = phase /\ ckpt'[run.job].exchanges = ex
           /\ ckpt'[run.job].call = tc /\ ckpt'[run.job] # NoCheckpoint
           /\ \A j \in Jobs : j # run.job => ckpt'[j] = ckpt[j]
           /\ runtime' = runtime
  <1> DEFINE new == [phase |-> phase, lease |-> run.lease, seq |-> seq, exchanges |-> ex, call |-> tc]
  <1>1. new \in Checkpoint
    BY DEF Checkpoint
  <1>2. new.phase = phase /\ new.exchanges = ex /\ new.call = tc /\ new # NoCheckpoint
    BY DEF NoCheckpoint
  <1>3. ckpt' = [ckpt EXCEPT ![run.job] = new] /\ runtime' = runtime
    BY DEF Save
  <1> HIDE DEF new
  <1>4. QED
    BY <1>1, <1>2, <1>3 DEF LocalsTyped

LEMMA PlanKept ==
    ASSUME AgentInv, NEW from, NEW to, Moved(from, to), to \subseteq Seen \ {"ABSENT", "RECONCILING"},
           run.at \in Saved, Sound, run' \in RunRow, run'.job = run.job, run'.lease = run.lease,
           NEW phase, NEW ex \in Seq(Exchange), NEW tc, Save(phase, run.seq, ex, tc),
           \/ phase = "planning" /\ tc = NoTool /\ run'.at = "plan"
           \/ phase = "tool_pending" /\ tc \in ToolCall /\ run'.at = "ask" /\ run'.call = tc
    PROVE  /\ Kept /\ crashes' = crashes
           /\ run.job \in Jobs
           /\ ckpt'[run.job].phase = phase /\ ckpt'[run.job].exchanges = ex
           /\ ckpt'[run.job].call = tc
           /\ \A j \in Jobs : j # run.job => ckpt'[j] = ckpt[j]
  <1>1. run.job \in Jobs /\ run.lease \in 1..MaxLease /\ run.seq \in Nat
    BY DEF AgentInv, JobKnown, Saved, LocalsTyped, RunRow
  <1>2. /\ ckpt' \in [Jobs -> Checkpoint \cup {NoCheckpoint}]
        /\ ckpt'[run.job].phase = phase /\ ckpt'[run.job].exchanges = ex
        /\ ckpt'[run.job].call = tc /\ ckpt'[run.job] # NoCheckpoint
        /\ \A j \in Jobs : j # run.job => ckpt'[j] = ckpt[j]
        /\ runtime' = runtime
    BY <1>1, SaveFacts DEF AgentInv
  <1>3. LocalsTyped'
    BY <1>2, LossCounted DEF AgentInv, LocalsTyped
  <1>4. DiskKnown'
    <2>1. \A j \in Jobs : Pending(j)' => ckpt'[j].call \in ToolCall
      BY <1>1, <1>2 DEF Pending, AgentInv, DiskKnown
    <2>2. ckpt'[run'.job] # NoCheckpoint
      BY <1>2
    <2>3. run'.at # "plan" => ckpt'[run'.job].phase = "tool_pending" /\ ckpt'[run'.job].call = run'.call
      BY <1>2
    <2>4. run'.at \in {"plan", "ask"}
      OBVIOUS
    <2>5. QED
      BY <2>1, <2>2, <2>3, <2>4 DEF DiskKnown, At, HasCheckpoint, Pending
  <1>5. JobKnown'
    <2>1. run'.at \in Saved \ {"start"}
      BY DEF Saved, InHand, Places
    <2>2. QED
      BY <2>1, KnownInHand DEF AgentInv
  <1>6. QED
    BY <1>1, <1>2, <1>3, <1>4, <1>5, LossCounted DEF Kept, Moved, AgentInv

\* PlanFrom, on a history that says as much as before.
LEMMA PlanFromTyped ==
    ASSUME AgentInv, NEW ex \in Seq(Exchange), PlanFrom(ex)
    PROVE  /\ run' \in RunRow /\ run'.job = run.job /\ run'.lease = run.lease
           /\ run'.at = "plan" /\ run'.exchanges = ex
           /\ Save("planning", run.seq, ex, NoTool)
  BY DEF AgentInv, LocalsTyped, RunRow, Places, PlanFrom

LEMMA PlanUntold ==
    ASSUME AgentInv, HubStays, Sound, run.at \in Saved \ {"observed"},
           run' \in RunRow, run'.job = run.job, run'.lease = run.lease, run'.at = "plan",
           run'.exchanges = run.exchanges, Save("planning", run.seq, run.exchanges, NoTool)
    PROVE  StepQuiet
  <1>1. run.exchanges \in Seq(Exchange)
    BY DEF AgentInv, LocalsTyped, RunRow
  <1>2. /\ Kept /\ crashes' = crashes /\ run.job \in Jobs
        /\ ckpt'[run.job].phase = "planning" /\ ckpt'[run.job].exchanges = run.exchanges
        /\ \A j \in Jobs : j # run.job => ckpt'[j] = ckpt[j]
    BY <1>1, HubUnasked, PlanKept
  <1>3. Untold
    BY <1>2, LossCounted DEF Untold, Histories, Pending, AgentInv
  <1>4. QED
    BY <1>2, <1>3 DEF StepQuiet

\* Telling the model about the call that pends.
StepTold == Kept /\ invoked' = invoked /\ (ToldTheTruth /\ CallsUntold)'

LEMMA PlanTold ==
    ASSUME AgentInv, NEW from, NEW to, Moved(from, to), to \subseteq Seen \ {"ABSENT", "RECONCILING"},
           run.at \in Saved, Sound, Pending(run.job), NEW said \in Said,
           run.at = "observed" <=> said = "result", PlanFrom(Told(ckpt[run.job].call.id, said))
    PROVE  StepTold
  <1> DEFINE c == ckpt[run.job].call.id
             ex == Told(c, said)
             x == [call |-> c, said |-> said]
  <1>1. run.job \in Jobs /\ c \in Calls /\ run.exchanges \in Seq(Exchange)
    BY DEF AgentInv, JobKnown, DiskKnown, Saved, LocalsTyped, RunRow, ToolCall
  <1>2. x \in Exchange /\ x.call = c /\ x.said = said
    BY <1>1 DEF Exchange
  <1>3. ex = Append(run.exchanges, x)
    BY DEF Told
  <1> HIDE DEF x, c, ex
  <1>4. /\ ex \in Seq(Exchange)
        /\ \A i \in DOMAIN ex : \/ i \in DOMAIN run.exchanges /\ ex[i] = run.exchanges[i]
                                \/ ex[i] = x
    BY <1>1, <1>2, <1>3, AppendFacts
  <1>5. PlanFrom(ex)
    BY DEF ex, c
  <1>6. /\ run' \in RunRow /\ run'.job = run.job /\ run'.lease = run.lease
        /\ run'.at = "plan" /\ run'.exchanges = ex /\ Save("planning", run.seq, ex, NoTool)
    BY <1>4, <1>5, PlanFromTyped
  <1>7. /\ Kept /\ crashes' = crashes
        /\ ckpt'[run.job].phase = "planning" /\ ckpt'[run.job].exchanges = ex
        /\ \A j \in Jobs : j # run.job => ckpt'[j] = ckpt[j]
    BY <1>4, <1>6, PlanKept
  <1>8. invoked' = invoked /\ unsaved' = unsaved
    BY LossCounted DEF AgentInv
  <1>9. /\ said = "result" => c \in invoked
        /\ said = "not executed" /\ c \in invoked => c \in unsaved
        /\ \A h \in Histories : \A i \in DOMAIN h :
              /\ h[i].call # c
              /\ h[i].said = "result" => h[i].call \in invoked
              /\ h[i].said = "not executed" /\ h[i].call \in invoked => h[i].call \in unsaved
    BY <1>1 DEF AgentInv, CallsUntold, ToldTheTruth, c
  <1>10. \A h \in Histories' : h \in Histories \/ h = ex
    BY <1>6, <1>7 DEF Histories
  <1>11. run.exchanges \in Histories
    BY DEF Histories
  <1>12. ASSUME NEW h \in Histories', NEW i \in DOMAIN h
         PROVE  h[i] = x \/ \E g \in Histories : \E k \in DOMAIN g : h[i] = g[k]
    BY <1>4, <1>10, <1>11, <1>12
  <1>13. ToldTheTruth'
    <2>1. TrueOf(ex)
      BY <1>2, <1>4, <1>9, <1>11 DEF TrueOf
    <2>2. QED
      BY <1>8, <1>10, <2>1, TruthStays DEF AgentInv
  <1>14. ASSUME NEW j \in Jobs, Pending(j)'
         PROVE  /\ j # run.job /\ Pending(j) /\ ckpt'[j] = ckpt[j]
                /\ ckpt[j].call.id # c
                /\ ckpt[j].call.id \in invoked => ckpt[j].call.id \in unsaved
                /\ \A g \in Histories : \A k \in DOMAIN g : g[k].call # ckpt[j].call.id
                /\ \A k \in Jobs : Pending(k) /\ ckpt[k].call.id = ckpt[j].call.id => k = j
    <2>1. j # run.job /\ ckpt'[j] = ckpt[j] /\ Pending(j)
      BY <1>7, <1>14 DEF Pending
    <2>2. QED
      BY <1>1, <1>14, <2>1 DEF AgentInv, CallsUntold, c
  <1>15. CallsUntold'
    <2>1. ASSUME NEW j \in Jobs, Pending(j)', NEW h \in Histories', NEW i \in DOMAIN h
          PROVE  h[i].call # ckpt'[j].call.id
      BY <1>2, <1>12, <1>14, <2>1
    <2>2. ASSUME NEW j \in Jobs, Pending(j)'
          PROVE  /\ ckpt'[j].call.id \in invoked' => ckpt'[j].call.id \in unsaved'
                 /\ \A k \in Jobs : Pending(k)' /\ ckpt'[k].call.id = ckpt'[j].call.id => k = j
      BY <1>8, <1>14, <2>2
    <2>3. QED
      BY <1>6, <2>1, <2>2 DEF CallsUntold
  <1>16. QED
    BY <1>7, <1>8, <1>13, <1>15 DEF StepTold

\* The Runner goes to ask or invoke with the call that pends on its disk.
LEMMA CallInHand ==
    ASSUME AgentInv, NEW from, NEW to, Moved(from, to), to \subseteq Seen \ {"ABSENT", "RECONCILING"},
           DiskStays, Sound, run.at \in Saved \ {"observed"}, NEW place \in {"ask", "invoke"},
           Pending(run.job), ckpt[run.job].call = run'.call,
           run' = [run EXCEPT !.at = place, !.retry = "first", !.call = ckpt[run.job].call]
    PROVE  StepQuiet
  <1>1. /\ run.job \in Jobs /\ run \in RunRow /\ ckpt[run.job].call \in ToolCall
        /\ place \in Saved /\ place \in Places
    BY DEF AgentInv, JobKnown, DiskKnown, Saved, InHand, Places, LocalsTyped
  <1>2. /\ run' \in RunRow /\ run'.job = run.job /\ run'.lease = run.lease /\ run'.at = place
        /\ run'.exchanges = run.exchanges
    BY <1>1 DEF RunRow
  <1>3. LocalsTyped'
    BY <1>2, LossCounted DEF AgentInv, LocalsTyped, DiskStays
  <1>4. DiskKnown'
    <2>1. HasCheckpoint(run.job) /\ HasCheckpoint(run.job)'
      BY <1>2 DEF HasCheckpoint, Pending, NoCheckpoint, DiskStays
    <2>2. run'.at # "recover"
      BY <1>2
    <2>3. QED
      BY <1>1, <1>2, <2>1, <2>2 DEF AgentInv, DiskKnown, DiskStays, At, HasCheckpoint, Pending
  <1>5. JobKnown'
    BY <1>1, <1>2, KnownInHand DEF AgentInv
  <1>6. Untold
    BY <1>2, LossCounted DEF Untold, Histories, Pending, DiskStays, AgentInv
  <1>7. QED
    BY <1>3, <1>4, <1>5, <1>6, LossCounted DEF StepQuiet, Kept, Moved, AgentInv

LEMMA AccessFine ==
    ASSUME AgentInv, RequestModelAccess
    PROVE  StepQuiet \/ StepTold
  <1>1. run.at = "grant" /\ "grant" \in Saved \ {"observed"} /\ {} \subseteq Seen \ {"ABSENT", "RECONCILING"}
    BY DEF RequestModelAccess, At, Saved, InHand, Places
  <1>2. CASE RequestLost(GoTo("error")) \/ (~GrantIssued /\ Refused(GoTo("error")))
    <2>1. HubStays /\ DiskStays /\ (Sound \/ Lose) /\ (Thrown \/ Retried("again"))
      BY <1>2 DEF RequestLost, Refused, Thrown, Retried
    <2>2. QED
      BY <1>1, <2>1, HubUnasked, RequestFails
  <1>3. CASE Answered(HubStays, Granted)
    <2>1. Moved({}, {}) /\ status' = status /\ Sound /\ HubStays /\ Granted
      BY <1>3, HubUnasked DEF Answered
    <2>2. run.job \in Jobs /\ ckpt[run.job] \in Checkpoint
      BY <1>1 DEF AgentInv, JobKnown, DiskKnown, LocalsTyped, Saved, Failing, HasCheckpoint
    <2>3. ckpt[run.job].phase \in {"planning", "tool_pending"}
      BY <2>2 DEF Checkpoint
    <2>4. CASE ckpt[run.job].phase = "planning"
      <3>1. PlanFrom(run.exchanges) /\ run.exchanges \in Seq(Exchange)
        BY <2>1, <2>4 DEF Granted, AgentInv, LocalsTyped, RunRow
      <3>2. QED
        BY <1>1, <2>1, <3>1, PlanFromTyped, PlanUntold
    <2>5. CASE Pending(run.job) /\ ckpt[run.job].call.lease # run.lease
      <3>1. PlanFrom(Told(ckpt[run.job].call.id, "not executed")) /\ "not executed" \in Said
        BY <2>1, <2>5 DEF Granted, Pending, Said
      <3>2. QED
        BY <1>1, <2>1, <2>5, <3>1, PlanTold
    <2>6. CASE Pending(run.job) /\ ckpt[run.job].call.lease = run.lease
      <3>1. /\ run' = [run EXCEPT !.at = "ask", !.retry = "first", !.call = ckpt[run.job].call]
            /\ DiskStays
        BY <2>1, <2>6 DEF Granted, Pending
      <3>2. run'.call = ckpt[run.job].call
        BY <3>1 DEF AgentInv, LocalsTyped, RunRow
      <3>3. QED
        BY <1>1, <2>1, <2>6, <3>1, <3>2, CallInHand
    <2>7. QED
      BY <2>3, <2>4, <2>5, <2>6 DEF Pending
  <1>4. QED
    BY <1>2, <1>3 DEF RequestModelAccess

LEMMA PlanFine ==
    ASSUME AgentInv, PlanFails \/ PlanAgain \/ PlanFinish
    PROVE  StepQuiet
  <1>1. /\ run.at = "plan" /\ "plan" \in Saved \ {"observed"} /\ HubStays /\ Sound
        /\ {} \subseteq Seen \ {"ABSENT", "RECONCILING"}
    BY DEF PlanFails, PlanAgain, PlanFinish, Output, At, Saved, InHand, Places
  <1>2. CASE PlanFails \/ PlanFinish
    <2>1. {"error", "output"} \subseteq Saved \ {"start", "ask", "invoke", "observed"}
      BY DEF Saved, InHand, Places
    <2>2. DiskStays /\ \E place \in Saved \ {"start", "ask", "invoke", "observed"} : GoTo(place)
      BY <1>2, <2>1 DEF PlanFails, PlanFinish
    <2>3. run.at \notin Failing
      BY <1>1 DEF Failing
    <2>4. QED
      BY <1>1, <2>2, <2>3, HubUnasked, RoundGoesOn DEF StepQuiet
  <1>3. CASE PlanAgain
    <2>1. /\ run' = [run EXCEPT !.steps = run.steps + 1] /\ run.steps < StepBudget
          /\ Save("planning", run.seq, run.exchanges, NoTool)
      BY <1>3 DEF PlanAgain, Output
    <2>2. run \in RunRow /\ run.steps + 1 \in 0..StepBudget
      BY <2>1, BudgetAssumption DEF AgentInv, LocalsTyped, RunRow
    <2>3. /\ run' \in RunRow /\ run'.job = run.job /\ run'.lease = run.lease
          /\ run'.at = "plan" /\ run'.exchanges = run.exchanges
      BY <1>1, <2>1, <2>2 DEF RunRow
    <2>4. QED
      BY <1>1, <2>1, <2>3, PlanUntold
  <1>4. QED
    BY <1>2, <1>3

\* A new call pends, untold and not invoked.
LEMMA PlanCallFine ==
    ASSUME AgentInv, NEW c \in Calls, NEW name \in Proposed, PlanCall(c, name)
    PROVE  Kept /\ invoked' = invoked /\ ToldTheTruth' /\ CallsUntold'
  <1> DEFINE tc == [id |-> c, lease |-> run.lease, name |-> name]
             n == run.steps + 1
  <1>1. /\ run.at = "plan" /\ run.at \in Saved /\ HubStays /\ Sound /\ NewCall(c)
        /\ run' = [run EXCEPT !.at = "ask", !.steps = n, !.call = tc] /\ run.steps < StepBudget
        /\ Save("tool_pending", run.seq, run.exchanges, tc)
    BY DEF PlanCall, Output, At, Saved, InHand, Places
  <1>2. run.job \in Jobs /\ run.lease \in 1..MaxLease /\ run \in RunRow
    BY <1>1 DEF AgentInv, JobKnown, LocalsTyped, Saved
  <1>3. tc \in ToolCall /\ tc.id = c /\ n \in 0..StepBudget
    <2>1. name \in ToolNames
      BY ProposedAssumption
    <2>2. QED
      BY <1>1, <1>2, <2>1, BudgetAssumption DEF ToolCall, RunRow
  <1> HIDE DEF tc, n
  <1>4. /\ run' \in RunRow /\ run'.job = run.job /\ run'.lease = run.lease /\ run'.at = "ask"
        /\ run'.exchanges = run.exchanges /\ run'.call = tc
    BY <1>1, <1>2, <1>3 DEF RunRow, Places
  <1>5. run.exchanges \in Seq(Exchange) /\ {} \subseteq Seen \ {"ABSENT", "RECONCILING"}
    BY <1>2 DEF RunRow
  <1>6. /\ Kept /\ crashes' = crashes
        /\ ckpt'[run.job].exchanges = run.exchanges /\ ckpt'[run.job].call = tc
        /\ \A j \in Jobs : j # run.job => ckpt'[j] = ckpt[j]
    BY <1>1, <1>3, <1>4, <1>5, HubUnasked, PlanKept
  <1>7. invoked' = invoked /\ unsaved' = unsaved
    BY <1>1, LossCounted DEF AgentInv
  <1>8. \A h \in Histories' : h \in Histories
    BY <1>4, <1>6 DEF Histories
  <1>9. ToldTheTruth'
    BY <1>6, <1>7, <1>8 DEF AgentInv, ToldTheTruth
  <1>10. ASSUME NEW j \in Jobs, Pending(j)'
         PROVE  /\ ckpt'[j].call.id \in invoked => ckpt'[j].call.id \in unsaved
                /\ \A h \in Histories : \A i \in DOMAIN h : h[i].call # ckpt'[j].call.id
                /\ \A k \in Jobs : Pending(k)' /\ ckpt'[k].call.id = ckpt'[j].call.id => k = j
    <2>1. \A k \in Jobs : ckpt[k].call.id # c
      BY <1>1 DEF NewCall
    <2>2. CASE j = run.job
      <3>1. ckpt'[j].call.id = c /\ c \notin invoked
        BY <1>1, <1>3, <1>6, <2>2 DEF NewCall, AgentInv, InvokedCleared
      <3>2. QED
        BY <1>1, <1>6, <2>1, <2>2, <3>1 DEF NewCall
    <2>3. CASE j # run.job
      <3>1. ckpt'[j] = ckpt[j] /\ Pending(j)
        BY <1>6, <1>10, <2>3 DEF Pending
      <3>2. \A k \in Jobs : Pending(k)' /\ k # run.job => Pending(k) /\ ckpt'[k] = ckpt[k]
        BY <1>6 DEF Pending
      <3>3. ckpt'[run.job].call.id = c
        BY <1>3, <1>6
      <3>4. QED
        BY <1>1, <1>10, <2>1, <3>1, <3>2, <3>3 DEF AgentInv, CallsUntold
    <2>4. QED
      BY <2>2, <2>3
  <1>11. CallsUntold'
    BY <1>4, <1>6, <1>7, <1>8, <1>10 DEF CallsUntold
  <1>12. QED
    BY <1>6, <1>7, <1>9, <1>11

LEMMA AskFine ==
    ASSUME AgentInv, AskHub
    PROVE  StepQuiet \/ StepTold
  <1>1. /\ run.at = "ask" /\ "ask" \in Saved \ {"observed"} /\ At("ask")
        /\ Pending(run.job) /\ ckpt[run.job].call = run.call
        /\ run.job \in Jobs /\ run.call \in ToolCall /\ run.call.id \in Calls
        /\ {} \subseteq Seen \ {"ABSENT", "RECONCILING"}
        /\ {"WAIT_APPROVAL"} \subseteq Seen \ {"ABSENT", "RECONCILING"}
    BY DEF AskHub, At, Saved, InHand, Places, AgentInv, DiskKnown, JobKnown, ToolCall, Seen
  <1>2. PICK c \in {run.call.id} :
          LET Write == IF NewGuarded(c) THEN Evaluate(c) ELSE HubStays
          IN \/ Evaluable(c) /\ Decidable(c) /\ Answered(Evaluate(c), Decided(c))
             \/ Evaluable(c) /\ Decidable(c) /\ AnswerLost(Evaluate(c), GoTo("error"))
             \/ Evaluable(c) /\ ~Decidable(c) /\ Answered(Write, GoTo("error") /\ DiskStays)
             \/ Evaluable(c) /\ ~Decidable(c) /\ AnswerLost(Write, GoTo("error"))
             \/ RequestLost(GoTo("error"))
             \/ ~Evaluable(c) /\ Refused(GoTo("error"))
    BY DEF AskHub
  <1>3. c = run.call.id /\ c \in Calls
    BY <1>1
  <1>4. Evaluate(c) => Moved({"RUNNING", "DISPATCHED"}, {"WAIT_APPROVAL"})
    BY <1>1, <1>3, EvaluateMoves DEF AgentInv
  <1>5. CASE /\ HubStays /\ DiskStays /\ (Sound \/ Lose)
             /\ (Thrown \/ Retried("again") \/ Retried("done"))
    <2>1. Moved({}, {}) /\ status' = status
      BY <1>5, HubUnasked
    <2>2. StepQuiet
      BY <1>1, <1>5, <2>1, RequestFails
    <2>3. QED
      BY <2>2
  <1>6. CASE /\ Evaluate(c) /\ DiskStays /\ (Sound \/ Lose)
             /\ (Thrown \/ Retried("done"))
    <2>1. Moved({"RUNNING", "DISPATCHED"}, {"WAIT_APPROVAL"})
      BY <1>4, <1>6
    <2>2. StepQuiet
      BY <1>1, <1>6, <2>1, RequestFails
    <2>3. QED
      BY <2>2
  <1>7. CASE Evaluate(c) /\ Decided(c) /\ Sound
    <2>1. CASE GiveUp /\ DiskStays
      BY <1>6, <1>7, <2>1 DEF Thrown
    <2>2. CASE GoTo("invoke") /\ DiskStays
      <3>1. run' = [run EXCEPT !.at = "invoke", !.retry = "first", !.call = ckpt[run.job].call]
        BY <1>1, <2>2 DEF GoTo, AgentInv, LocalsTyped, RunRow
      <3>2. run'.call = ckpt[run.job].call
        BY <3>1 DEF AgentInv, LocalsTyped, RunRow
      <3>3. QED
        BY <1>1, <1>4, <1>7, <2>2, <3>1, <3>2, CallInHand
    <2>3. CASE PlanFrom(Told(c, "not executed"))
      BY <1>1, <1>3, <1>4, <1>7, <2>3, PlanTold DEF Said
    <2>4. QED
      BY <1>7, <2>1, <2>2, <2>3 DEF Decided
  <1>8. QED
    BY <1>2, <1>5, <1>6, <1>7
    DEF Answered, AnswerLost, RequestLost, Refused, Thrown, Retried

-----------------------------------------------------------------------------
(***************************************************************************)
(* Between jobs: checkpoints are dropped or renumbered, and say the same.  *)
(***************************************************************************)
SaysTheSame(j) ==
    \/ ckpt'[j] = ckpt[j]
    \/ ckpt'[j] = NoCheckpoint
    \/ /\ ckpt'[j].phase = ckpt[j].phase /\ ckpt'[j].exchanges = ckpt[j].exchanges
       /\ ckpt'[j].call = ckpt[j].call

LEMMA RestQuiet ==
    ASSUME AgentInv, NEW from, NEW to, Moved(from, to), to \subseteq Seen, Sound \/ Lose,
           run.at # "observed", run' \in RunRow, run'.at \notin InHand,
           run'.exchanges = <<>> \/ run'.exchanges = run.exchanges,
           ckpt' \in [Jobs -> Checkpoint \cup {NoCheckpoint}], runtime' = runtime,
           \A j \in Jobs : SaysTheSame(j),
           run'.at = "recover" => \A j \in run'.jobs : ckpt'[j] # NoCheckpoint
    PROVE  StepQuiet
  <1>1. JobKnown'
    BY KnownAtRest DEF AgentInv
  <1>2. LocalsTyped'
    BY LossCounted DEF AgentInv, LocalsTyped
  <1>3. NoCheckpoint.phase = "NONE" /\ NoCheckpoint.exchanges = <<>>
    BY DEF NoCheckpoint
  <1>4. \A j \in Jobs : Pending(j)' => Pending(j) /\ ckpt'[j].call = ckpt[j].call
    BY <1>3 DEF Pending, SaysTheSame
  <1>5. run'.at \notin Saved /\ run'.at \notin {"ask", "invoke", "observed"}
    BY DEF Saved, InHand, Places
  <1>6. DiskKnown'
    BY <1>4, <1>5 DEF AgentInv, DiskKnown, At, HasCheckpoint
  <1>7. \A ex \in Histories' : ex \in Histories \/ ex = <<>>
    <2>1. \A j \in Jobs : ckpt'[j].exchanges = ckpt[j].exchanges \/ ckpt'[j].exchanges = <<>>
      BY <1>3 DEF SaysTheSame
    <2>2. QED
      BY <2>1 DEF Histories
  <1>8. Untold
    BY <1>4, <1>5, <1>7, LossCounted DEF Untold, AgentInv
  <1>9. QED
    BY <1>1, <1>2, <1>6, <1>8, LossCounted DEF StepQuiet, Kept, Moved, AgentInv

\* A request sent between jobs that fails, or is sent again.
LEMMA RestFails ==
    ASSUME AgentInv, NEW from, NEW to, Moved(from, to), to \subseteq Seen, Sound \/ Lose,
           run.at \in {"idle", "recover", "pull", "off"}, DiskStays,
           \/ GiveUp \/ Retried("done") \/ Retried("again")
           \/ At("recover") /\ GoTo("pull")
    PROVE  StepQuiet
  <1>1. run.at \notin InHand /\ run.at # "observed"
    BY DEF InHand, Places
  <1>2. /\ ckpt' \in [Jobs -> Checkpoint \cup {NoCheckpoint}] /\ runtime' = runtime
        /\ \A j \in Jobs : SaysTheSame(j)
    BY DEF DiskStays, AgentInv, LocalsTyped, SaysTheSame
  <1>3. run \in RunRow
    BY DEF AgentInv, LocalsTyped
  <1>4. /\ run' \in RunRow /\ run'.at \notin InHand
        /\ run'.exchanges = <<>> \/ run'.exchanges = run.exchanges
        /\ run'.at = "recover" => run.at = "recover" /\ run'.jobs = run.jobs
    <2>1. CASE GiveUp
      BY <2>1, IdleTyped DEF GiveUp, Idle, InHand
    <2>2. CASE Retried("done") \/ Retried("again")
      BY <2>2, <1>1, <1>3 DEF Retried, RunRow
    <2>3. CASE At("recover") /\ GoTo("pull")
      BY <2>3, <1>3 DEF GoTo, RunRow, InHand, Places
    <2>4. QED
      BY <2>1, <2>2, <2>3
  <1>5. run'.at = "recover" => \A j \in run'.jobs : ckpt'[j] # NoCheckpoint
    BY <1>4 DEF DiskStays, AgentInv, DiskKnown, At, HasCheckpoint
  <1>6. QED
    BY <1>1, <1>2, <1>4, <1>5, RestQuiet

LEMMA LoopFine ==
    ASSUME AgentInv, StartRunner \/ Poll \/ Recovered
    PROVE  StepQuiet
  <1>1. HubStays /\ DiskStays /\ Sound /\ {} \subseteq Seen
    BY DEF StartRunner, Poll, Recovered
  <1>2. CASE StartRunner \/ Recovered
    BY <1>1, <1>2, HubUnasked, RestFails DEF StartRunner, Recovered, At, GiveUp
  <1>3. CASE Poll
    <2> DEFINE js == {j \in Jobs : HasCheckpoint(j)}
    <2>1. run' = [Idle EXCEPT !.at = "recover", !.jobs = js] /\ run.at # "observed"
      BY <1>3 DEF Poll, At
    <2>2. /\ run' \in RunRow /\ run'.at = "recover" /\ run'.jobs = js /\ run'.exchanges = <<>>
      <3>1. js \subseteq Jobs
        OBVIOUS
      <3> HIDE DEF js
      <3>2. Idle \in RunRow /\ Idle.exchanges = <<>>
        BY IdleTyped DEF Idle
      <3>3. QED
        BY <2>1, <3>1, <3>2 DEF RunRow, Places
    <2>3. /\ ckpt' \in [Jobs -> Checkpoint \cup {NoCheckpoint}] /\ runtime' = runtime
          /\ \A j \in Jobs : SaysTheSame(j)
          /\ \A j \in run'.jobs : ckpt'[j] # NoCheckpoint
      BY <1>1, <2>2 DEF DiskStays, AgentInv, LocalsTyped, SaysTheSame, HasCheckpoint
    <2>4. run'.at \notin InHand
      BY <2>2 DEF InHand
    <2>5. Moved({}, {})
      BY <1>1, HubUnasked
    <2> HIDE DEF js
    <2>6. QED
      BY <1>1, <2>1, <2>2, <2>3, <2>4, <2>5, RestQuiet
  <1>4. QED
    BY <1>2, <1>3

LEMMA RecoverFine ==
    ASSUME AgentInv, NEW j \in Jobs, RecoverCheckpoint(j)
    PROVE  StepQuiet
  <1>1. /\ run.at = "recover" /\ At("recover") /\ j \in run.jobs /\ ckpt[j] \in Checkpoint
        /\ {} \subseteq Seen /\ {"DISPATCHED"} \subseteq Seen
    BY DEF RecoverCheckpoint, At, AgentInv, DiskKnown, HasCheckpoint, LocalsTyped, Seen
  <1>2. CASE Recoverable(j) /\ Answered(Resume(j), AfterResume(j))
    <2>1. Moved({"RUNNING"}, {"DISPATCHED"}) /\ Sound /\ AfterResume(j)
      BY <1>2, ResumeMoves DEF Answered, AgentInv
    <2>2. run \in RunRow /\ run' = [run EXCEPT !.jobs = run.jobs \ {j}, !.retry = "first"]
      BY <2>1 DEF AfterResume, AgentInv, LocalsTyped
    <2>3. /\ run' \in RunRow /\ run'.at = "recover" /\ run'.jobs = run.jobs \ {j}
          /\ run'.exchanges = run.exchanges
      BY <1>1, <2>2 DEF RunRow
    <2>4. \/ DropCheckpoint(j) \/ DiskStays
          \/ ckpt' = [ckpt EXCEPT ![j].seq = lastSequence[j] + 1] /\ runtime' = runtime
      BY <2>1 DEF AfterResume
    <2>5. /\ ckpt' \in [Jobs -> Checkpoint \cup {NoCheckpoint}] /\ runtime' = runtime
          /\ SaysTheSame(j) /\ \A k \in Jobs : k # j => ckpt'[k] = ckpt[k]
      <3>1. ckpt \in [Jobs -> Checkpoint \cup {NoCheckpoint}]
        BY DEF AgentInv, LocalsTyped
      <3>2. CASE DropCheckpoint(j) \/ DiskStays
        BY <3>1, <3>2 DEF DropCheckpoint, DiskStays, SaysTheSame
      <3>3. CASE ckpt' = [ckpt EXCEPT ![j].seq = lastSequence[j] + 1] /\ runtime' = runtime
        <4> DEFINE n == lastSequence[j] + 1
                   new == [ckpt[j] EXCEPT !.seq = n]
        <4>1. n \in Nat
          BY TypesOfHub DEF AgentInv
        <4>2. ckpt' = [ckpt EXCEPT ![j] = new]
          BY <3>3
        <4> HIDE DEF n
        <4>3. /\ new \in Checkpoint /\ new.phase = ckpt[j].phase
              /\ new.exchanges = ckpt[j].exchanges /\ new.call = ckpt[j].call
          BY <1>1, <4>1 DEF Checkpoint
        <4> HIDE DEF new
        <4>4. QED
          BY <3>1, <3>3, <4>2, <4>3 DEF SaysTheSame
      <3>4. QED
        BY <2>4, <3>2, <3>3
    <2>6. run'.at \notin InHand /\ run.at # "observed"
      BY <1>1, <2>3 DEF InHand
    <2>7. \A k \in run'.jobs : ckpt'[k] # NoCheckpoint
      BY <1>1, <2>3, <2>5 DEF AgentInv, DiskKnown, HasCheckpoint, LocalsTyped, RunRow
    <2>8. \A k \in Jobs : SaysTheSame(k)
      BY <2>5 DEF SaysTheSame
    <2>9. QED
      BY <1>1, <2>1, <2>3, <2>5, <2>6, <2>7, <2>8, RestQuiet
  <1>3. CASE Recoverable(j) /\ AnswerLost(Resume(j), GiveUp)
    <2>1. Moved({"RUNNING"}, {"DISPATCHED"}) /\ Lose /\ DiskStays /\ (GiveUp \/ Retried("done"))
      BY <1>3, ResumeMoves DEF AnswerLost, AgentInv, Retried
    <2>2. QED
      BY <1>1, <2>1, RestFails
  <1>4. CASE RequestLost(GiveUp) \/ Refused(GiveUp)
    <2>1. /\ Moved({}, {}) /\ (Sound \/ Lose) /\ DiskStays
          /\ (GiveUp \/ Retried("again"))
      BY <1>4, HubUnasked DEF RequestLost, Refused, Retried
    <2>2. QED
      BY <1>1, <2>1, RestFails
  <1>5. QED
    BY <1>2, <1>3, <1>4 DEF RecoverCheckpoint

-----------------------------------------------------------------------------
(***************************************************************************)
(* Taking a job in hand.                                                   *)
(***************************************************************************)
\* Steps before the first report: the disk is kept, or gets a first checkpoint.
LEMMA TakenQuiet ==
    ASSUME AgentInv, NEW from, NEW to, Moved(from, to), Sound \/ Lose,
           run.at \in {"pull", "prepare", "first_save", "reconcile"}, run' \in RunRow,
           run'.at \in {"prepare", "first_save", "start", "reconcile"},
           run'.exchanges \in Histories, JobKnown', DiskStays \/ (ckpt' = ckpt /\ runtime' \subseteq Jobs),
           run'.at = "start" => HasCheckpoint(run.job) /\ run'.job = run.job
    PROVE  StepQuiet
  <1>1. LocalsTyped'
    BY LossCounted DEF AgentInv, LocalsTyped, DiskStays
  <1>2. ckpt' = ckpt
    BY DEF DiskStays
  <1>3. DiskKnown'
    BY <1>2 DEF AgentInv, DiskKnown, At, HasCheckpoint, Pending, Saved, InHand, Places
  <1>4. Untold
    BY <1>2, LossCounted DEF Untold, Histories, Pending, AgentInv
  <1>5. QED
    BY <1>1, <1>3, <1>4, LossCounted DEF StepQuiet, Kept, Moved, AgentInv

LEMMA PullFine ==
    ASSUME AgentInv, PullJob
    PROVE  StepQuiet
  <1>1. run.at = "pull" /\ At("pull") /\ {} \subseteq Seen /\ run \in RunRow
    BY DEF PullJob, At, AgentInv, LocalsTyped
  <1>2. ASSUME NEW j \in Jobs, Offered(j), DiskStays,
               Answered(Hand(j), run' = [run EXCEPT !.at = "prepare", !.retry = "first",
                                              !.job = j, !.lease = lease'[j]])
        PROVE  StepQuiet
    <2>1. Moved({}, {}) /\ status' = status /\ Sound
      BY <1>2, HandMoves DEF Answered, AgentInv
    <2>2. PolicyInv'
      BY <2>1, PolicyStepInv DEF Moved, AgentInv
    <2>3. status[j] = "DISPATCHED" /\ status'[j] = "DISPATCHED"
      BY <1>2, <2>1 DEF Offered, IsOldestDispatched, Dispatched
    <2>4. lease'[j] \in 1..MaxLease
      <3>1. lease'[j] > 0
        BY <2>2, <2>3 DEF PolicyInv, IInv, Gates, SignedBeforeWork, States, Active
      <3>2. lease'[j] \in 0..MaxLease
        BY <2>2 DEF PolicyInv, PolicyTypeOK, TypeOK
      <3>3. QED
        BY <3>1, <3>2, BoundsAssumption
    <2>5. /\ run' \in RunRow /\ run'.at = "prepare" /\ run'.job = j /\ run'.lease = lease'[j]
          /\ run'.exchanges = run.exchanges
      <3> DEFINE l == lease'[j]
      <3>1. l \in 1..MaxLease /\ l \in 0..MaxLease
        BY <2>4, BoundsAssumption
      <3>2. run' = [run EXCEPT !.at = "prepare", !.retry = "first", !.job = j, !.lease = l]
        BY <1>2 DEF Answered
      <3> HIDE DEF l
      <3>3. /\ run' \in RunRow /\ run'.at = "prepare" /\ run'.job = j /\ run'.lease = l
            /\ run'.exchanges = run.exchanges
        BY <1>1, <3>1, <3>2 DEF RunRow, Places
      <3>4. QED
        BY <3>3 DEF l
    <2>6. JobKnown'
      BY <2>1, <2>3, <2>4, <2>5 DEF JobKnown, AgentInv, Moved
    <2>7. QED
      BY <1>1, <1>2, <2>1, <2>5, <2>6, TakenQuiet DEF Histories
  <1>3. ASSUME NEW j \in Jobs, AnswerLost(Hand(j), GiveUp)
        PROVE  StepQuiet
    <2>1. Moved({}, {}) /\ Lose /\ DiskStays /\ (GiveUp \/ Retried("done"))
      BY <1>3, HandMoves DEF AnswerLost, AgentInv, Retried
    <2>2. QED
      BY <1>1, <2>1, RestFails
  <1>4. CASE RequestLost(GiveUp) \/ Refused(GiveUp)
    <2>1. /\ Moved({}, {}) /\ (Sound \/ Lose) /\ DiskStays
          /\ (GiveUp \/ Retried("again"))
      BY <1>4, HubUnasked DEF RequestLost, Refused, Retried
    <2>2. QED
      BY <1>1, <2>1, RestFails
  <1>5. QED
    BY <1>2, <1>3, <1>4 DEF PullJob

LEMMA PrepareFine ==
    ASSUME AgentInv, Prepare
    PROVE  StepQuiet
  <1>1. /\ run.at = "prepare" /\ HubStays /\ Sound /\ ckpt' = ckpt /\ run \in RunRow
        /\ run.job \in Jobs /\ run.lease \in 1..MaxLease
        /\ status[run.job] \in {"DISPATCHED", "CANCELLED"}
    BY DEF Prepare, At, AgentInv, LocalsTyped, JobKnown, InHand, Places
  <1>2. Moved({}, {}) /\ status' = status
    BY <1>1, HubUnasked
  <1>3. CASE GoTo("reconcile") /\ UNCHANGED runtime
    <2>1. /\ run' \in RunRow /\ run'.at = "reconcile" /\ run'.job = run.job
          /\ run'.lease = run.lease /\ run'.exchanges = run.exchanges
      BY <1>1, <1>3 DEF GoTo, RunRow, Places
    <2>2. JobKnown'
      BY <1>1, <1>2, <2>1 DEF AgentInv, JobKnown, Moved
    <2>3. QED
      BY <1>1, <1>2, <1>3, <2>1, <2>2, TakenQuiet DEF Histories, DiskStays
  <1>4. CASE /\ run' = [run EXCEPT !.at = "first_save", !.seq = ckpt[run.job].seq,
                                    !.exchanges = ckpt[run.job].exchanges]
             /\ runtime' = runtime \cup {run.job}
    <2> DEFINE n == ckpt[run.job].seq
               ex == ckpt[run.job].exchanges
    <2>1. n \in Nat /\ ex \in Seq(Exchange) /\ ex \in Histories
      <3>1. ckpt[run.job] \in Checkpoint \/ ckpt[run.job] = NoCheckpoint
        BY <1>1 DEF AgentInv, LocalsTyped
      <3>2. NoCheckpoint.seq \in Nat /\ NoCheckpoint.exchanges \in Seq(Exchange)
        BY EmptySeq DEF NoCheckpoint
      <3>3. QED
        BY <1>1, <3>1, <3>2 DEF Checkpoint, Histories
    <2>2. run' = [run EXCEPT !.at = "first_save", !.seq = n, !.exchanges = ex]
      BY <1>4
    <2> HIDE DEF n, ex
    <2>3. /\ run' \in RunRow /\ run'.at = "first_save" /\ run'.job = run.job
          /\ run'.lease = run.lease /\ run'.exchanges = ex
      BY <1>1, <2>1, <2>2 DEF RunRow, Places
    <2>4. JobKnown'
      BY <1>1, <1>2, <2>3 DEF AgentInv, JobKnown, Moved
    <2>5. runtime' \subseteq Jobs
      BY <1>1, <1>4 DEF AgentInv, LocalsTyped
    <2>6. QED
      BY <1>1, <1>2, <2>1, <2>3, <2>4, <2>5, TakenQuiet
  <1>5. QED
    BY <1>3, <1>4 DEF Prepare

LEMMA FirstSaveFine ==
    ASSUME AgentInv, FirstSave
    PROVE  StepQuiet
  <1>1. /\ run.at = "first_save" /\ HubStays /\ Sound /\ run \in RunRow
        /\ run.job \in Jobs /\ run.lease \in 1..MaxLease /\ run.seq \in Nat
        /\ status[run.job] \in {"DISPATCHED", "CANCELLED"} /\ GoTo("start")
    BY DEF FirstSave, At, AgentInv, LocalsTyped, JobKnown, InHand, Places, RunRow
  <1>2. Moved({}, {}) /\ status' = status
    BY <1>1, HubUnasked
  <1>3. /\ run' \in RunRow /\ run'.at = "start" /\ run'.job = run.job
        /\ run'.lease = run.lease /\ run'.exchanges = run.exchanges
    BY <1>1 DEF GoTo, RunRow, Places
  <1>4. JobKnown'
    BY <1>1, <1>2, <1>3 DEF AgentInv, JobKnown, Moved
  <1>5. CASE HasCheckpoint(run.job)
    BY <1>1, <1>2, <1>3, <1>4, <1>5, TakenQuiet DEF FirstSave, Histories
  <1>6. CASE ~HasCheckpoint(run.job)
    <2>1. Save("planning", run.seq, <<>>, NoTool) /\ <<>> \in Seq(Exchange)
      BY <1>6, EmptySeq DEF FirstSave
    <2>2. /\ ckpt' \in [Jobs -> Checkpoint \cup {NoCheckpoint}]
          /\ ckpt'[run.job].phase = "planning" /\ ckpt'[run.job].exchanges = <<>>
          /\ ckpt'[run.job] # NoCheckpoint
          /\ \A j \in Jobs : j # run.job => ckpt'[j] = ckpt[j]
          /\ runtime' = runtime
      BY <1>1, <2>1, SaveFacts DEF AgentInv
    <2>3. LocalsTyped'
      BY <1>1, <1>3, <2>2, LossCounted DEF AgentInv, LocalsTyped
    <2>4. DiskKnown'
      BY <1>3, <2>2 DEF AgentInv, DiskKnown, At, HasCheckpoint, Pending
    <2>5. Untold
      BY <1>1, <1>3, <2>2, LossCounted DEF Untold, Histories, Pending, AgentInv
    <2>6. QED
      BY <1>1, <1>2, <1>4, <2>3, <2>4, <2>5, LossCounted DEF StepQuiet, Kept, Moved, AgentInv
  <1>7. QED
    BY <1>5, <1>6

LEMMA ReconcileFine ==
    ASSUME AgentInv, ReconcileJob
    PROVE  StepQuiet
  <1>1. /\ run.at = "reconcile" /\ At("reconcile") /\ run \in RunRow
        /\ run.job \in Jobs /\ run.lease \in 1..MaxLease
        /\ status[run.job] \in {"DISPATCHED", "CANCELLED", "RECONCILING"}
    BY DEF ReconcileJob, At, AgentInv, LocalsTyped, JobKnown, InHand, Places
  <1>2. /\ DiskStays /\ (Sound \/ Lose) /\ (GiveUp \/ Retried("done") \/ Retried("again"))
        /\ \/ HubStays
           \/ /\ status[run.job] \in Reconcilable
              /\ Reconcile(run.job, Me, run.lease) /\ UNCHANGED policyVars
    BY DEF ReconcileJob, Answered, AnswerLost, RequestLost, Refused, Retried
  <1>3. Moved({"DISPATCHED"}, {"RECONCILING"})
    BY <1>1, <1>2, HubUnasked, ReconcileMoves DEF Moved, AgentInv
  <1>4. CASE GiveUp
    <2>1. /\ run' \in RunRow /\ run'.at = "idle" /\ run'.exchanges = <<>>
      BY <1>4, IdleTyped DEF GiveUp, Idle
    <2>2. /\ ckpt' \in [Jobs -> Checkpoint \cup {NoCheckpoint}] /\ runtime' = runtime
          /\ \A j \in Jobs : SaysTheSame(j)
      BY <1>2 DEF DiskStays, AgentInv, LocalsTyped, SaysTheSame
    <2>3. {"RECONCILING"} \subseteq Seen /\ run'.at \notin InHand
      BY <2>1 DEF Seen, InHand
    <2>4. QED
      BY <1>1, <1>2, <1>3, <2>1, <2>2, <2>3, RestQuiet
  <1>5. CASE Retried("done") \/ Retried("again")
    <2>1. /\ run' \in RunRow /\ run'.at = "reconcile" /\ run'.job = run.job
          /\ run'.lease = run.lease /\ run'.exchanges = run.exchanges
      BY <1>1, <1>5 DEF Retried, RunRow
    <2>2. JobKnown'
      <3>1. status'[run.job] \in {"DISPATCHED", "CANCELLED", "RECONCILING"}
        BY <1>1, <1>3 DEF Moved
      <3>2. \A j \in Jobs : status'[j] \in Seen
        BY <1>3 DEF Moved, AgentInv, JobKnown, Seen
      <3>3. QED
        BY <1>1, <1>3, <2>1, <3>1, <3>2 DEF JobKnown, Moved
    <2>3. QED
      BY <1>1, <1>2, <1>3, <2>1, <2>2, TakenQuiet DEF Histories
  <1>6. QED
    BY <1>2, <1>4, <1>5

-----------------------------------------------------------------------------
(***************************************************************************)
(* A tool is invoked: its row is authorized under the lease of its job,    *)
(* and the model has not been told of it yet.                              *)
(***************************************************************************)
LEMMA AuthorityFacts ==
    ASSUME AgentInv, NEW c \in Calls, AuthorityVerified(c)
    PROVE  /\ callStatus[c] = "APPROVED"
           /\ NodeToolRisk(call[c].name) # "R0" => c \in cleared
           /\ lease[JobOf(c)] = call[c].lease /\ ~LeaseLapsed(JobOf(c))
  <1>1. authTtl[c] > 0 /\ authTtl[c] \in Nat
    BY AuthorityAssumption DEF AuthorityVerified, AgentInv, PolicyInv, PolicyTypeOK
  <1>2. callStatus[c] = "APPROVED" /\ Decision(c) = "APPROVED"
    BY <1>1 DEF AgentInv, AuthorityHasRow, Decision
  <1>3. call[c].lease = lease[JobOf(c)] /\ authTtl[c] <= ttl[JobOf(c)]
    BY <1>2 DEF AgentInv, PolicyInv, AuthorityWithinLease
  <1>4. JobOf(c) \in Jobs
    BY <1>2 DEF AgentInv, PolicyInv, CallsKnown, CallContent, JobOf
  <1>5. ttl[JobOf(c)] \in Int
    BY <1>4, LeaseTicksAssumption DEF AgentInv, PolicyInv, PolicyTypeOK, TypeOK
  <1>6. ~LeaseLapsed(JobOf(c))
    BY <1>1, <1>3, <1>5 DEF LeaseLapsed
  <1>7. QED
    BY <1>2, <1>3, <1>6 DEF AgentInv, PolicyInv, OwnerClearedCall

LEMMA InvokeFine ==
    ASSUME AgentInv, InvokeTool
    PROVE  Kept /\ ToldTheTruth' /\ CallsUntold' /\ InvokedCleared'
  <1> DEFINE c == run.call.id
  <1>1. /\ run.at = "invoke" /\ HubStays /\ DiskStays /\ UNCHANGED <<unsaved, crashes, losses>>
        /\ run.job \in Jobs /\ run \in RunRow /\ Pending(run.job) /\ ckpt[run.job].call = run.call
        /\ c \in Calls
    BY DEF InvokeTool, At, AgentInv, LocalsTyped, JobKnown, DiskKnown, InHand, Places, ToolCall
  <1>2. Moved({}, {}) /\ status' = status /\ UNCHANGED <<callStatus, call, cleared>>
    BY <1>1, HubUnasked DEF HubStays, hubVars, allVars, policyVars
  <1>3. CASE GoTo("error") /\ UNCHANGED invoked
    <2>1. StepQuiet
      BY <1>1, <1>2, <1>3, RequestFails DEF Thrown, Sound, Saved, InHand, Places
    <2>2. QED
      BY <1>2, <1>3, <2>1, UntoldTruth DEF StepQuiet, AgentInv, InvokedCleared, OnlyClearedInvoked
  <1>4. CASE AuthorityVerified(c) /\ GoTo("observed") /\ invoked' = invoked \cup {c}
    <2>1. /\ callStatus[c] = "APPROVED"
          /\ NodeToolRisk(call[c].name) # "R0" => c \in cleared
      BY <1>1, <1>4, AuthorityFacts
    <2>2. InvokedCleared'
      BY <1>2, <1>4, <2>1 DEF AgentInv, InvokedCleared, OnlyClearedInvoked
    <2>3. /\ run' \in RunRow /\ run'.at = "observed" /\ run'.job = run.job /\ run'.call = run.call
          /\ run'.lease = run.lease /\ run'.exchanges = run.exchanges
      BY <1>1, <1>4 DEF GoTo, RunRow, Places
    <2>4. {"invoke", "observed"} \subseteq Saved \ Failing /\ {} \subseteq Seen \ {"ABSENT", "RECONCILING"}
      BY DEF Saved, Failing, InHand, Places
    <2>5. JobKnown'
      BY <1>1, <1>2, <2>3, <2>4, KnownInHand DEF AgentInv
    <2>6. LocalsTyped' /\ DiskKnown'
      <3>1. /\ invoked' \subseteq Calls /\ unsaved' \subseteq Calls
            /\ crashes' \in 0..MaxCrashes /\ losses' \in 0..MaxLosses
        BY <1>1, <1>4 DEF AgentInv, LocalsTyped
      <3>2. QED
        BY <1>1, <2>3, <2>4, <3>1, DiskAsItWas DEF AgentInv
    <2>7. ckpt' = ckpt /\ Histories' = Histories /\ unsaved' = unsaved
      BY <1>1, <2>3 DEF DiskStays, Histories
    <2>8. /\ ckpt[run.job].call.id = c
          /\ \A ex \in Histories : \A i \in DOMAIN ex : ex[i].call # c
          /\ \A k \in Jobs : Pending(k) /\ ckpt[k].call.id = c => k = run.job
      BY <1>1 DEF AgentInv, CallsUntold
    <2>9. ToldTheTruth'
      BY <1>4, <2>7, <2>8 DEF AgentInv, ToldTheTruth
    <2>10. ASSUME NEW j \in Jobs, Pending(j)
           PROVE  /\ run'.at = "observed" /\ run'.job = j => ckpt[j].call.id \in invoked'
                  /\ ckpt[j].call.id \in invoked' =>
                        (run'.at = "observed" /\ run'.job = j) \/ ckpt[j].call.id \in unsaved
      <3>1. ckpt[j].call.id \in invoked => ckpt[j].call.id \in unsaved
        BY <1>1, <2>10 DEF AgentInv, CallsUntold
      <3>2. ckpt[j].call.id = c <=> j = run.job
        BY <2>8, <2>10
      <3>3. QED
        BY <1>4, <2>3, <3>1, <3>2
    <2>11. CallsUntold'
      BY <2>7, <2>10 DEF AgentInv, CallsUntold, Pending
    <2>12. QED
      BY <1>2, <2>2, <2>5, <2>6, <2>9, <2>11 DEF Kept, Moved
  <1>5. QED
    BY <1>3, <1>4 DEF InvokeTool

LEMMA ObserveFine ==
    ASSUME AgentInv, Observe
    PROVE  StepTold
  <1>1. /\ run.at = "observed" /\ "observed" \in Saved /\ Sound /\ HubStays
        /\ Pending(run.job) /\ ckpt[run.job].call = run.call /\ "result" \in Said
        /\ PlanFrom(Told(ckpt[run.job].call.id, "result"))
        /\ {} \subseteq Seen \ {"ABSENT", "RECONCILING"}
    BY DEF Observe, At, AgentInv, DiskKnown, Saved, InHand, Places, Said
  <1>2. Moved({}, {})
    BY <1>1, HubUnasked
  <1>3. QED
    BY <1>1, <1>2, PlanTold

LEMMA NothingTold ==
    ASSUME AgentInv, UNCHANGED <<run, ckpt, invoked, unsaved>>
    PROVE  ToldTheTruth' /\ CallsUntold'
  <1>1. Histories' = Histories /\ \A j \in Jobs : Pending(j)' <=> Pending(j)
    BY DEF Histories, Pending
  <1>2. ToldTheTruth'
    BY <1>1, TruthStays DEF AgentInv
  <1>3. CallsUntold'
    BY <1>1 DEF AgentInv, CallsUntold
  <1>4. QED
    BY <1>2, <1>3

\* The process ends or a save fails: a result that was not saved is gone.
LEMMA CrashFine ==
    ASSUME AgentInv, CrashRunner \/ SaveFails
    PROVE  Kept /\ ToldTheTruth' /\ CallsUntold' /\ invoked' = invoked
  <1>1. /\ HubStays /\ DiskStays /\ invoked' = invoked /\ losses' = losses
        /\ crashes' = crashes + 1 /\ crashes < MaxCrashes
        /\ unsaved' = IF run.at = "observed" THEN unsaved \cup {run.call.id} ELSE unsaved
    BY DEF CrashRunner, SaveFails, At
  <1>2. Moved({}, {}) /\ {} \subseteq Seen
    BY <1>1, HubUnasked
  <1>3. /\ run' \in RunRow /\ run'.at \in {"off", "error"}
        /\ run'.exchanges = <<>> \/ run'.exchanges = run.exchanges
        /\ run'.at = "error" => run.at \in InHand \ {"reconcile"} /\ run'.job = run.job /\ run'.lease = run.lease
    <2>1. run \in RunRow
      BY DEF AgentInv, LocalsTyped
    <2>2. CASE CrashRunner
      BY <2>2, IdleTyped DEF CrashRunner, Off, Idle
    <2>3. CASE SaveFails
      <3>1. run' = [run EXCEPT !.at = "error", !.retry = "first"] /\ run.at \in {"observed", "first_save"}
        BY <2>3 DEF SaveFails, GoTo, At
      <3>2. "error" \in Places /\ "first" \in {"first", "again", "done"}
        BY DEF Places
      <3>3. QED
        BY <2>1, <3>1, <3>2 DEF RunRow, InHand, Places
    <2>4. QED
      BY <2>2, <2>3
  <1>4. /\ crashes' \in 0..MaxCrashes /\ losses' \in 0..MaxLosses /\ invoked' \subseteq Calls
        /\ unsaved' \subseteq Calls
    <2>1. run.at = "observed" => run.call.id \in Calls
      BY DEF AgentInv, JobKnown, DiskKnown, InHand, Places, ToolCall
    <2>2. QED
      BY <1>1, <2>1, FaultsAssumption DEF AgentInv, LocalsTyped
  <1>5. run'.at \notin Saved \ Failing
    BY <1>3 DEF Saved, Failing, InHand
  <1>6. JobKnown'
    <2>1. CASE run'.at = "off"
      BY <1>2, <2>1, KnownAtRest DEF AgentInv, InHand
    <2>2. CASE run'.at = "error"
      <3>1. run.job \in Jobs /\ run.lease \in 1..MaxLease /\ status[run.job] \notin {"ABSENT", "RECONCILING"}
        BY <1>3, <2>2 DEF AgentInv, JobKnown
      <3>2. hub' = "up" /\ status' = status
        BY <1>1, <1>2, HubUnasked DEF Moved
      <3>3. QED
        BY <1>3, <2>2, <3>1, <3>2 DEF AgentInv, JobKnown, At
    <2>3. QED
      BY <1>3, <2>1, <2>2
  <1>7. LocalsTyped' /\ DiskKnown'
    BY <1>1, <1>3, <1>4, <1>5, DiskAsItWas DEF AgentInv
  <1>8. /\ unsaved \subseteq unsaved' /\ ckpt' = ckpt
        /\ \A ex \in Histories' : ex \in Histories \/ ex = <<>>
    BY <1>1, <1>3 DEF DiskStays, Histories
  <1>9. ToldTheTruth'
    BY <1>1, <1>8, TruthStays DEF AgentInv
  <1>10. ASSUME NEW j \in Jobs, Pending(j)
         PROVE  /\ ckpt[j].call.id \in invoked => ckpt[j].call.id \in unsaved'
                /\ \A ex \in Histories' : \A i \in DOMAIN ex : ex[i].call # ckpt[j].call.id
    <2>1. run.at = "observed" /\ run.job = j => ckpt[j].call = run.call
      BY DEF AgentInv, DiskKnown
    <2>2. ckpt[j].call.id \in invoked =>
             (run.at = "observed" /\ run.job = j) \/ ckpt[j].call.id \in unsaved
      BY <1>10 DEF AgentInv, CallsUntold
    <2>3. ckpt[j].call.id \in invoked => ckpt[j].call.id \in unsaved'
      BY <1>1, <2>1, <2>2
    <2>4. QED
      BY <1>8, <1>10, <2>3 DEF AgentInv, CallsUntold
  <1>11. CallsUntold'
    BY <1>1, <1>3, <1>8, <1>10 DEF AgentInv, CallsUntold, Pending
  <1>12. QED
    BY <1>1, <1>2, <1>6, <1>7, <1>9, <1>11 DEF Kept, Moved

\* The Owner and the clock: nothing on the node changes.
LEMMA EnvironmentFine ==
    ASSUME AgentInv, Environment, UNCHANGED agentVars
    PROVE  Kept /\ ToldTheTruth' /\ CallsUntold' /\ invoked' = invoked
  <1>1. UNCHANGED <<run, ckpt, runtime, invoked, unsaved, crashes, losses>>
    BY DEF agentVars
  <1>2. /\ [PolicyNext]_allVars /\ hub' = "up"
        /\ \A j \in Jobs : \/ status'[j] = status[j]
                           \/ status[j] # "ABSENT" /\ status'[j] = "CANCELLED"
                           \/ status[j] = "WAIT_APPROVAL" /\ status'[j] = "DISPATCHED"
                           \/ Submitted(j)
    BY EnvironmentMoves DEF AgentInv
  <1>3. JobKnown'
    <2>1. \A j \in Jobs : status'[j] \in Seen
      BY <1>2 DEF AgentInv, JobKnown, Seen, Terminal, Submitted
    <2>2. {"prepare", "first_save", "start", "reconcile"} \subseteq InHand
      BY DEF InHand, Places
    <2>3. CASE run.at \in InHand
      <3> DEFINE j == run.job
      <3>1. j \in Jobs /\ status[j] # "ABSENT" /\ run.lease \in 1..MaxLease
        BY <2>3 DEF AgentInv, JobKnown
      <3>2. /\ status'[j] # "ABSENT"
            /\ status'[j] = status[j] \/ status'[j] = "CANCELLED"
               \/ (status[j] = "WAIT_APPROVAL" /\ status'[j] = "DISPATCHED")
        BY <1>2, <3>1 DEF Submitted
      <3> HIDE DEF j
      <3>3. QED
        BY <1>1, <1>2, <2>1, <3>1, <3>2 DEF AgentInv, JobKnown, At, j
    <2>4. CASE run.at \notin InHand
      BY <1>1, <1>2, <2>1, <2>2, <2>4 DEF AgentInv, JobKnown
    <2>5. QED
      BY <2>3, <2>4
  <1>4. LocalsTyped' /\ DiskKnown'
    BY <1>1 DEF AgentInv, LocalsTyped, DiskKnown, Pending, HasCheckpoint, At
  <1>5. ToldTheTruth' /\ CallsUntold'
    BY <1>1, NothingTold
  <1>6. QED
    BY <1>1, <1>2, <1>3, <1>4, <1>5 DEF Kept

-----------------------------------------------------------------------------
LEMMA RunnerStepFine ==
    ASSUME AgentInv, RunnerStep, ~InvokeTool
    PROVE  Kept /\ ToldTheTruth' /\ CallsUntold' /\ invoked' = invoked
  <1>1. \/ StepQuiet
        \/ StepTold
        \/ Kept /\ invoked' = invoked /\ ToldTheTruth' /\ CallsUntold'
    BY LoopFine, RecoverFine, PullFine, PrepareFine, FirstSaveFine, ReconcileFine, ReportsQuiet,
       AccessFine, PlanFine, PlanCallFine, AskFine, ObserveFine DEF RunnerStep
  <1>2. QED
    BY <1>1, UntoldTruth DEF StepQuiet, StepTold, Untold, AgentInv

LEMMA AgentStep ==
    ASSUME AgentInv, [AgentNext]_everything
    PROVE  AgentInv' /\ [PolicyNext]_allVars
  <1>1. CASE InvokeTool
    <2>1. Kept /\ ToldTheTruth' /\ CallsUntold' /\ InvokedCleared'
      BY <1>1, InvokeFine
    <2>2. PolicyInv' /\ RowsPersist
      BY <2>1, PolicyStepInv, EveryRowPersists DEF Kept, AgentInv
    <2>3. QED
      BY <2>1, <2>2 DEF Kept, AgentInv, RowsPersist, RowPersists, AuthorityHasRow
  <1>2. CASE UNCHANGED everything
    <2>1. UNCHANGED allVars /\ UNCHANGED <<run, ckpt, runtime, invoked, unsaved, crashes, losses>>
      BY <1>2 DEF everything, agentVars
    <2>2. PolicyInv' /\ RowsPersist
      BY <2>1, PolicyStepInv, EveryRowPersists DEF AgentInv
    <2>3. UNCHANGED <<status, hub, callStatus, call, authTtl, cleared>>
      BY <2>1 DEF allVars, vars, policyVars
    <2>4. LocalsTyped' /\ JobKnown' /\ DiskKnown'
      BY <2>1, <2>3 DEF AgentInv, LocalsTyped, JobKnown, DiskKnown, Pending, HasCheckpoint, At
    <2>5. ToldTheTruth' /\ CallsUntold'
      BY <2>1, NothingTold
    <2>6. AuthorityHasRow' /\ InvokedCleared'
      BY <2>1, <2>3 DEF AgentInv, AuthorityHasRow, InvokedCleared, OnlyClearedInvoked
    <2>7. QED
      BY <2>1, <2>2, <2>4, <2>5, <2>6 DEF AgentInv
  <1>3. CASE AgentNext /\ ~InvokeTool
    <2>1. Kept /\ ToldTheTruth' /\ CallsUntold' /\ invoked' = invoked
      BY <1>3, RunnerStepFine, CrashFine, EnvironmentFine DEF AgentNext, Environment
    <2>2. PolicyInv' /\ RowsPersist
      BY <2>1, PolicyStepInv, EveryRowPersists DEF Kept, AgentInv
    <2>3. AuthorityHasRow'
      BY <2>2 DEF RowsPersist, RowPersists, AuthorityHasRow
    <2>4. InvokedCleared'
      BY <2>1, <2>2 DEF AgentInv, LocalsTyped, InvokedCleared, OnlyClearedInvoked, RowsPersist, RowPersists
    <2>5. QED
      BY <2>1, <2>2, <2>3, <2>4 DEF Kept, AgentInv
  <1>4. QED
    BY <1>1, <1>2, <1>3

LEMMA AgentStart ==
    ASSUME AgentInit
    PROVE  AgentInv
  <1>1. PolicyInv
    BY PolicyInitInv DEF AgentInit
  <1>2. /\ run = Off /\ ckpt = [j \in Jobs |-> NoCheckpoint] /\ runtime = {} /\ invoked = {} /\ unsaved = {}
        /\ crashes = 0 /\ losses = 0 /\ hub = "up" /\ status = [j \in Jobs |-> "ABSENT"]
        /\ authTtl = [c \in Calls |-> 0]
    BY DEF AgentInit, PolicyInit, Init
  <1>3. run \in RunRow /\ run.at = "off" /\ run.exchanges = <<>>
    BY <1>2, IdleTyped DEF Off, Idle
  <1>4. LocalsTyped
    <2>1. 0 \in 0..MaxCrashes /\ 0 \in 0..MaxLosses
      BY FaultsAssumption
    <2>2. QED
      BY <1>2, <1>3, <2>1 DEF LocalsTyped
  <1>5. JobKnown
    BY <1>2, <1>3 DEF JobKnown, Seen, InHand
  <1>6. (\A j \in Jobs : ~Pending(j)) /\ \A ex \in Histories : ex = <<>>
    BY <1>2, <1>3 DEF Pending, Histories, NoCheckpoint
  <1>7. DiskKnown
    BY <1>3, <1>6 DEF DiskKnown, At, Saved, InHand
  <1>8. ToldTheTruth /\ CallsUntold
    <2>1. \A ex \in Histories : DOMAIN ex = {}
      BY <1>6
    <2>2. QED
      BY <1>6, <2>1 DEF ToldTheTruth, CallsUntold
  <1>9. AuthorityHasRow /\ InvokedCleared
    BY <1>2 DEF AuthorityHasRow, InvokedCleared, OnlyClearedInvoked
  <1>10. QED
    BY <1>1, <1>4, <1>5, <1>7, <1>8, <1>9 DEF AgentInv

-----------------------------------------------------------------------------
(***************************************************************************)
(* Hub, Runner and disk never leave their inductive invariant.             *)
(***************************************************************************)
THEOREM AgentInvariance == AgentSpec => []AgentInv
  BY AgentStart, AgentStep, PTL DEF AgentSpec

(***************************************************************************)
(* The Runner's requests, its retries and its restarts are all steps the   *)
(* policy was modelled for: what is proved of the policy, and through it   *)
(* of the registry, holds with this Runner.                                *)
(***************************************************************************)
THEOREM RunnerUsesPolicy == AgentSpec => ImplementsPolicy
  <1>1. AgentInit => PolicyInit
    BY DEF AgentInit
  <1>2. AgentInv /\ [AgentNext]_everything => [PolicyNext]_allVars
    BY AgentStep
  <1>3. QED
    BY <1>1, <1>2, AgentInvariance, PTL DEF AgentSpec, PolicySpec, ImplementsPolicy

(***************************************************************************)
(* What the Runner holds in memory and on its disk stays well formed.      *)
(***************************************************************************)
THEOREM AgentTypeCorrect == AgentSpec => []AgentTypeOK
  <1>1. AgentInv => AgentTypeOK
    BY DEF AgentInv, LocalsTyped, RunRow, AgentTypeOK
  <1>2. QED
    BY <1>1, AgentInvariance, PTL

(***************************************************************************)
(* Lost requests, replays and restarts let no tool that writes or restarts *)
(* be invoked without the Owner's clearance of that call.                  *)
(***************************************************************************)
THEOREM InvocationsAreCleared == AgentSpec => []OnlyClearedInvoked
  <1>1. AgentInv => OnlyClearedInvoked
    BY DEF AgentInv, InvokedCleared
  <1>2. QED
    BY <1>1, AgentInvariance, PTL

(***************************************************************************)
(* Through every restart the Runner tells the model of no result of a tool *)
(* that did not run, and calls "not executed" no tool that ran, but one     *)
(* whose result a process that ended had observed and not yet saved.       *)
(***************************************************************************)
THEOREM ModelIsToldTheTruth == AgentSpec => []ToldTheTruth
  <1>1. AgentInv => ToldTheTruth
    BY DEF AgentInv
  <1>2. QED
    BY <1>1, AgentInvariance, PTL

(***************************************************************************)
(* A tool is invoked under the lease its call was proposed for, and while  *)
(* that lease runs.                                                        *)
(***************************************************************************)
THEOREM InvocationsAreLeased == AgentSpec => InvokedUnderItsLease
  <1> DEFINE A == \A c \in invoked' \ invoked :
                     lease[JobOf(c)] = call[c].lease /\ ~LeaseLapsed(JobOf(c))
  <1>1. AgentInv /\ [AgentNext]_everything => [A]_everything
    <2> SUFFICES ASSUME AgentInv, AgentNext, NEW c \in invoked' \ invoked
                 PROVE  lease[JobOf(c)] = call[c].lease /\ ~LeaseLapsed(JobOf(c))
      OBVIOUS
    <2>1. InvokeTool
      BY RunnerStepFine, CrashFine, EnvironmentFine DEF AgentNext, Environment
    <2>2. c = run.call.id /\ AuthorityVerified(c)
      BY <2>1 DEF InvokeTool
    <2>3. c \in Calls
      BY <2>1 DEF InvokeTool, At, AgentInv, DiskKnown, JobKnown, InHand, Places, ToolCall
    <2>4. QED
      BY <2>2, <2>3, AuthorityFacts
  <1>2. QED
    BY <1>1, AgentInvariance, PTL DEF AgentSpec, InvokedUnderItsLease
-----------------------------------------------------------------------------
(***************************************************************************)
(* Recovery.  A checkpoint belongs to a job of this Runner that was not    *)
(* given up as interrupted, and was written under a lease the job had.     *)
(***************************************************************************)
RecoveryInv ==
    /\ \A j \in Jobs : status[j] # "ABSENT" => runner[j] = Me
    /\ \A j \in Jobs : HasCheckpoint(j) =>
          status[j] \notin {"ABSENT", "RECONCILING"} /\ ckpt[j].lease <= lease[j]
    /\ At("reconcile") => ~HasCheckpoint(run.job)
    /\ run.at \in InHand => run.lease <= lease[run.job]

\* The job was reported RUNNING under a later lease than that of its checkpoint.
Outlived(j) == HasCheckpoint(j) /\ status[j] = "RUNNING" /\ ckpt[j].lease < lease[j]

\* A request of the Runner creates no job, and interrupts at most the one it gives up.
RowLeft(j) ==
    /\ (status[j] = "ABSENT") <=> (status'[j] = "ABSENT")
    /\ status'[j] = "RECONCILING" =>
         status[j] = "RECONCILING" \/ (At("reconcile") /\ j = run.job /\ ckpt' = ckpt)

\* Checkpoints are written for the job in hand, under its lease.
DiskLeft(j) ==
    \/ ckpt'[j] = ckpt[j]
    \/ ckpt'[j] = NoCheckpoint
    \/ HasCheckpoint(j) /\ ckpt'[j].lease = ckpt[j].lease
    \/ j = run.job /\ run.at \in InHand \ {"reconcile"} /\ ckpt'[j].lease = run.lease

\* A job is taken in hand with its lease, and given up without a checkpoint.
HandLeft ==
    run'.at \in InHand =>
        /\ \/ run.at \in InHand /\ run'.job = run.job /\ run'.lease = run.lease
           \/ run'.job \in Jobs /\ run'.lease = lease'[run'.job]
        /\ run'.at = "reconcile" =>
             \/ run.at = "reconcile" /\ run'.job = run.job /\ ckpt' = ckpt
             \/ ckpt'[run'.job] = NoCheckpoint

LEMMA RowsStay ==
    ASSUME NEW from, NEW to, Moved(from, to), "ABSENT" \notin from,
           to \cap {"ABSENT", "RECONCILING"} = {}
    PROVE  \A j \in Jobs : RowLeft(j)
  BY DEF Moved, RowLeft

LEMMA PostLeavesRows ==
    ASSUME AgentInv, run.at \in {"start", "output", "succeed", "error", "fail"},
           NEW body \in {"NOTE", "RUNNING", "SUCCEEDED", "FAILED"},
           body = "RUNNING" => At("start"), Record(body) \/ HubStays
    PROVE  \A j \in Jobs : RowLeft(j)
  BY RecordMoves, HubUnasked, RowsStay DEF AgentInv

LEMMA ReportLeavesRows ==
    ASSUME AgentInv,
           ReportRunning \/ ReportOutput \/ ReportSuccess \/ ReportError \/ ReportFailure
    PROVE  \A j \in Jobs : RowLeft(j)
  <1>1. CASE ReportRunning
    BY <1>1, PostLeavesRows
    DEF ReportRunning, Post, Answered, AnswerLost, RequestLost, Refused, At
  <1>2. CASE ReportOutput
    BY <1>2, PostLeavesRows
    DEF ReportOutput, Post, Answered, AnswerLost, RequestLost, Refused, At
  <1>3. CASE ReportSuccess
    BY <1>3, PostLeavesRows
    DEF ReportSuccess, Post, Answered, AnswerLost, RequestLost, Refused, At
  <1>4. CASE ReportError
    BY <1>4, PostLeavesRows
    DEF ReportError, Post, Answered, AnswerLost, RequestLost, Refused, At
  <1>5. CASE ReportFailure
    BY <1>5, PostLeavesRows
    DEF ReportFailure, Post, Answered, AnswerLost, RequestLost, Refused, At
  <1>6. QED
    BY <1>1, <1>2, <1>3, <1>4, <1>5

LEMMA ReconcileLeavesRows ==
    ASSUME AgentInv, ReconcileJob
    PROVE  \A j \in Jobs : RowLeft(j)
  <1>1. At("reconcile") /\ ckpt' = ckpt
    BY DEF ReconcileJob, AnswerLost, RequestLost, Refused, DiskStays
  <1>2. CASE HubStays
    BY <1>2, HubUnasked, RowsStay DEF AgentInv
  <1>3. CASE Reconcile(run.job, Me, run.lease)
    <2>1. run.job \in Jobs
      BY <1>1 DEF At, AgentInv, JobKnown, InHand, Places
    <2>2. status' = [status EXCEPT ![run.job] = "RECONCILING"] /\ status[run.job] \in Reconcilable
      BY <1>3 DEF Reconcile, SetStatus
    <2>3. status \in [Jobs -> States \cup {"ABSENT"}]
      BY TypesOfHub DEF AgentInv
    <2>4. QED
      BY <1>1, <2>1, <2>2, <2>3 DEF RowLeft, Reconcilable
  <1>4. QED
    BY <1>2, <1>3 DEF ReconcileJob, Answered, AnswerLost, RequestLost, Refused

LEMMA AskLeavesRows ==
    ASSUME AgentInv, AskHub
    PROVE  \A j \in Jobs : RowLeft(j)
  <1>1. At("ask") /\ run.call.id \in Calls
    BY DEF AskHub, At, AgentInv, DiskKnown, JobKnown, InHand, Places, ToolCall
  <1>2. \/ HubStays
        \/ \E c \in {run.call.id} : Evaluate(c)
    BY DEF AskHub, Answered, AnswerLost, RequestLost, Refused
  <1>3. QED
    BY <1>1, <1>2, EvaluateMoves, HubUnasked, RowsStay DEF AgentInv

LEMMA RunnerLeavesRows ==
    ASSUME AgentInv, RunnerStep
    PROVE  \A j \in Jobs : RowLeft(j)
  <1>1. CASE HubStays
    BY <1>1, HubUnasked, RowsStay DEF AgentInv
  <1>2. ASSUME NEW j \in Jobs, RecoverCheckpoint(j), ~HubStays
        PROVE  \A k \in Jobs : RowLeft(k)
    <2>1. Recoverable(j) /\ Resume(j)
      BY <1>2 DEF RecoverCheckpoint, Answered, AnswerLost, RequestLost, Refused
    <2>2. QED
      BY <2>1, ResumeMoves, RowsStay DEF AgentInv
  <1>3. CASE PullJob /\ ~HubStays
    <2>1. PICK j \in Jobs : Hand(j)
      BY <1>3 DEF PullJob, Answered, AnswerLost, RequestLost, Refused
    <2>2. QED
      BY <2>1, HandMoves, RowsStay DEF AgentInv
  <1>4. CASE \/ StartRunner \/ Poll \/ Recovered \/ Prepare \/ FirstSave \/ RequestModelAccess
             \/ PlanFails \/ PlanAgain \/ PlanFinish \/ InvokeTool \/ Observe
             \/ \E c \in Calls, name \in Proposed : PlanCall(c, name)
    <2>1. HubStays
      BY <1>4 DEF StartRunner, Poll, Recovered, Prepare, FirstSave, RequestModelAccess, Answered,
           RequestLost, Refused, PlanFails, PlanAgain, PlanFinish, InvokeTool, Observe, PlanCall,
           Output
    <2>2. QED
      BY <1>1, <2>1
  <1>5. QED
    BY <1>1, <1>2, <1>3, <1>4, ReportLeavesRows, ReconcileLeavesRows, AskLeavesRows DEF RunnerStep

LEMMA SaveLeaves ==
    ASSUME AgentInv, run.at \in InHand \ {"reconcile"},
           NEW phase, NEW seq, NEW ex, NEW tc, Save(phase, seq, ex, tc)
    PROVE  \A j \in Jobs : DiskLeft(j)
  <1> DEFINE new == [phase |-> phase, lease |-> run.lease, seq |-> seq, exchanges |-> ex, call |-> tc]
  <1>1. ckpt' = [ckpt EXCEPT ![run.job] = new]
    BY DEF Save
  <1>2. new.lease = run.lease
    OBVIOUS
  <1> HIDE DEF new
  <1>3. ckpt \in [Jobs -> Checkpoint \cup {NoCheckpoint}]
    BY DEF AgentInv, LocalsTyped
  <1>4. QED
    BY <1>1, <1>2, <1>3 DEF DiskLeft

LEMMA DropLeaves ==
    ASSUME AgentInv, NEW j \in Jobs, DropCheckpoint(j)
    PROVE  \A k \in Jobs : DiskLeft(k)
  BY DEF AgentInv, LocalsTyped, DropCheckpoint, DiskLeft

LEMMA DiskStaysLeaves ==
    ASSUME ckpt' = ckpt
    PROVE  \A j \in Jobs : DiskLeft(j)
  BY DEF DiskLeft

LEMMA ResumeLeaves ==
    ASSUME AgentInv, At("recover"), NEW j \in Jobs, j \in run.jobs, AfterResume(j)
    PROVE  \A k \in Jobs : DiskLeft(k)
  <1>1. HasCheckpoint(j) /\ ckpt \in [Jobs -> Checkpoint \cup {NoCheckpoint}]
    BY DEF AgentInv, DiskKnown, LocalsTyped
  <1>2. CASE DropCheckpoint(j) \/ DiskStays
    BY <1>2, DropLeaves, DiskStaysLeaves DEF DiskStays
  <1>3. CASE ckpt' = [ckpt EXCEPT ![j].seq = lastSequence[j] + 1]
    <2> DEFINE n == lastSequence[j] + 1
               new == [ckpt[j] EXCEPT !.seq = n]
    <2>1. ckpt' = [ckpt EXCEPT ![j] = new]
      BY <1>3
    <2>2. new.lease = ckpt[j].lease
      BY <1>1 DEF Checkpoint, HasCheckpoint
    <2> HIDE DEF new
    <2>3. QED
      BY <1>1, <2>1, <2>2 DEF DiskLeft
  <1>4. QED
    BY <1>2, <1>3 DEF AfterResume

LEMMA RecoverLeavesDisk ==
    ASSUME AgentInv, NEW j \in Jobs, RecoverCheckpoint(j)
    PROVE  \A k \in Jobs : DiskLeft(k)
  <1>1. DiskStays \/ AfterResume(j)
    BY DEF RecoverCheckpoint, Answered, AnswerLost, RequestLost, Refused
  <1>2. At("recover") /\ j \in run.jobs
    BY DEF RecoverCheckpoint
  <1>3. QED
    BY <1>1, <1>2, ResumeLeaves, DiskStaysLeaves DEF DiskStays

LEMMA ReportLeavesDisk ==
    ASSUME AgentInv,
           ReportRunning \/ ReportOutput \/ ReportSuccess \/ ReportError \/ ReportFailure
    PROVE  \A j \in Jobs : DiskLeft(j)
  <1>1. CASE ReportRunning
    BY <1>1, DiskStaysLeaves
    DEF ReportRunning, Post, Answered, AnswerLost, RequestLost, Refused, DiskStays
  <1>2. CASE ReportOutput
    BY <1>2, DiskStaysLeaves
    DEF ReportOutput, Post, Answered, AnswerLost, RequestLost, Refused, DiskStays
  <1>3. CASE ReportSuccess \/ ReportFailure
    <2>1. run.job \in Jobs
      BY <1>3 DEF ReportSuccess, ReportFailure, At, AgentInv, JobKnown, InHand, Places
    <2>2. DiskStays \/ DropCheckpoint(run.job)
      BY <1>3 DEF ReportSuccess, ReportFailure, Post, Answered, AnswerLost, RequestLost, Refused
    <2>3. QED
      BY <2>1, <2>2, DropLeaves, DiskStaysLeaves DEF DiskStays
  <1>4. CASE ReportError
    BY <1>4, DiskStaysLeaves
    DEF ReportError, Post, Answered, AnswerLost, RequestLost, Refused, DiskStays
  <1>5. QED
    BY <1>1, <1>2, <1>3, <1>4

LEMMA AskLeavesDisk ==
    ASSUME AgentInv, AskHub
    PROVE  \A j \in Jobs : DiskLeft(j)
  <1>1. run.at \in InHand \ {"reconcile"}
    BY DEF AskHub, At, InHand, Places
  <1>2. PICK c \in {run.call.id} : DiskStays \/ Decided(c)
    BY DEF AskHub, Answered, AnswerLost, RequestLost, Refused
  <1>3. \/ DiskStays
        \/ Save("planning", run.seq, Told(c, "not executed"), NoTool)
    BY <1>2 DEF Decided, PlanFrom
  <1>4. QED
    BY <1>1, <1>3, SaveLeaves, DiskStaysLeaves DEF DiskStays

LEMMA PlanLeavesDisk ==
    ASSUME AgentInv,
           \/ FirstSave \/ RequestModelAccess \/ PlanAgain \/ Observe
           \/ \E c \in Calls, name \in Proposed : PlanCall(c, name)
    PROVE  \A j \in Jobs : DiskLeft(j)
  <1>1. run.at \in InHand \ {"reconcile"}
    BY DEF FirstSave, RequestModelAccess, PlanAgain, Observe, PlanCall, Output, At, InHand, Places
  <1>2. \/ DiskStays
        \/ \E phase \in {"planning", "tool_pending"}, seq \in {run.seq} :
             \E ex, tc : Save(phase, seq, ex, tc)
    <2>1. CASE FirstSave
      BY <2>1 DEF FirstSave
    <2>2. CASE RequestModelAccess
      BY <2>2 DEF RequestModelAccess, Answered, RequestLost, Refused, Granted, PlanFrom
    <2>3. CASE PlanAgain
      BY <2>3 DEF PlanAgain
    <2>4. CASE Observe
      BY <2>4 DEF Observe, PlanFrom
    <2>5. CASE \E c \in Calls, name \in Proposed : PlanCall(c, name)
      BY <2>5 DEF PlanCall
    <2>6. QED
      BY <2>1, <2>2, <2>3, <2>4, <2>5
  <1>3. QED
    BY <1>1, <1>2, SaveLeaves, DiskStaysLeaves DEF DiskStays

LEMMA RunnerLeavesDisk ==
    ASSUME AgentInv, RunnerStep
    PROVE  \A j \in Jobs : DiskLeft(j)
  <1>1. CASE \/ StartRunner \/ Poll \/ Recovered \/ PullJob \/ Prepare \/ ReconcileJob
             \/ PlanFails \/ PlanFinish \/ InvokeTool
    BY <1>1, DiskStaysLeaves
    DEF StartRunner, Poll, Recovered, PullJob, Prepare, ReconcileJob, Answered, AnswerLost,
        RequestLost, Refused, PlanFails, PlanFinish, InvokeTool, DiskStays
  <1>2. QED
    BY <1>1, RecoverLeavesDisk, ReportLeavesDisk, AskLeavesDisk, PlanLeavesDisk DEF RunnerStep

-----------------------------------------------------------------------------
\* Most steps end the round or go on with the job in hand.
SameHand ==
    run'.at \in InHand =>
        /\ run.at \in InHand /\ run'.job = run.job /\ run'.lease = run.lease
        /\ run'.at = "reconcile" => run.at = "reconcile" /\ ckpt' = ckpt

LEMMA RoundEnds ==
    ASSUME run' = Idle \/ run' = Off
    PROVE  SameHand
  BY DEF SameHand, Idle, Off, InHand, Places

LEMMA HandKept ==
    ASSUME AgentInv, NEW place, place # "reconcile", run.at \in InHand,
           \/ GoTo(place) \/ Onward(place)
           \/ \E ex : run' = [run EXCEPT !.at = place, !.retry = "first", !.exchanges = ex,
                                         !.call = NoTool]
           \/ \E tc : run' = [run EXCEPT !.at = place, !.retry = "first", !.call = tc]
           \/ \E n, tc : run' = [run EXCEPT !.at = place, !.steps = n, !.call = tc]
    PROVE  SameHand
  <1>1. run \in RunRow
    BY DEF AgentInv, LocalsTyped
  <1>2. run'.at = place /\ run'.job = run.job /\ run'.lease = run.lease
    BY <1>1 DEF RunRow, GoTo, Onward
  <1>3. QED
    BY <1>2 DEF SameHand

LEMMA HandRetried ==
    ASSUME AgentInv, Retried("again") \/ Retried("done"), run.at = "reconcile" => ckpt' = ckpt
    PROVE  SameHand
  <1>1. run \in RunRow
    BY DEF AgentInv, LocalsTyped
  <1>2. run'.at = run.at /\ run'.job = run.job /\ run'.lease = run.lease
    BY <1>1 DEF RunRow, Retried
  <1>3. QED
    BY <1>2 DEF SameHand

LEMMA PlaceLeft ==
    ASSUME AgentInv, run'.at \notin InHand
    PROVE  SameHand
  BY DEF SameHand

LEMMA BetweenJobs ==
    ASSUME AgentInv, StartRunner \/ CrashRunner \/ SaveFails \/ Poll \/ Recovered
    PROVE  SameHand
  <1>1. run \in RunRow
    BY DEF AgentInv, LocalsTyped
  <1>2. CASE StartRunner \/ CrashRunner
    BY <1>2, RoundEnds DEF StartRunner, CrashRunner
  <1>3. CASE Poll \/ Recovered
    <2>1. run'.at \in {"recover", "pull"}
      BY <1>1, <1>3 DEF Poll, Recovered, GoTo, Idle, RunRow
    <2>2. QED
      BY <2>1, PlaceLeft DEF InHand
  <1>4. CASE SaveFails
    <2>1. GoTo("error") /\ run.at \in InHand
      BY <1>4 DEF SaveFails, At, InHand, Places
    <2>2. QED
      BY <2>1, HandKept
  <1>5. QED
    BY <1>2, <1>3, <1>4

LEMMA RecoverHand ==
    ASSUME AgentInv, NEW j \in Jobs, RecoverCheckpoint(j)
    PROVE  SameHand
  <1>1. run \in RunRow /\ run.at = "recover"
    BY DEF AgentInv, LocalsTyped, RecoverCheckpoint, At
  <1>2. CASE AfterResume(j)
    <2>1. run'.at = "recover"
      BY <1>1, <1>2 DEF AfterResume, RunRow
    <2>2. QED
      BY <2>1, PlaceLeft DEF InHand
  <1>3. CASE GiveUp \/ Retried("done") \/ Retried("again")
    BY <1>1, <1>3, RoundEnds, HandRetried DEF GiveUp
  <1>4. QED
    BY <1>2, <1>3 DEF RecoverCheckpoint, Answered, AnswerLost, RequestLost, Refused, Retried

LEMMA ReportHand ==
    ASSUME AgentInv,
           ReportRunning \/ ReportOutput \/ ReportSuccess \/ ReportError \/ ReportFailure
    PROVE  SameHand
  <1>1. run.at \in InHand /\ run.at # "reconcile"
    BY DEF ReportRunning, ReportOutput, ReportSuccess, ReportError, ReportFailure, At, InHand, Places
  <1>2. \/ GiveUp \/ Retried("done") \/ Retried("again")
        \/ \E place \in {"grant", "error", "succeed", "fail"} : Onward(place)
    <2>1. CASE ReportRunning
      BY <2>1 DEF ReportRunning, Post, Answered, AnswerLost, RequestLost, Refused, Retried
    <2>2. CASE ReportOutput
      BY <2>2 DEF ReportOutput, Post, Answered, AnswerLost, RequestLost, Refused, Retried
    <2>3. CASE ReportSuccess
      BY <2>3 DEF ReportSuccess, Post, Answered, AnswerLost, RequestLost, Refused, Retried
    <2>4. CASE ReportError
      BY <2>4 DEF ReportError, Post, Answered, AnswerLost, RequestLost, Refused, Retried
    <2>5. CASE ReportFailure
      BY <2>5 DEF ReportFailure, Post, Answered, AnswerLost, RequestLost, Refused, Retried
    <2>6. QED
      BY <2>1, <2>2, <2>3, <2>4, <2>5
  <1>3. \A place \in {"grant", "error", "succeed", "fail"} : place # "reconcile"
    OBVIOUS
  <1>4. QED
    BY <1>1, <1>2, <1>3, RoundEnds, HandRetried, HandKept DEF GiveUp

LEMMA ReconcileHand ==
    ASSUME AgentInv, ReconcileJob
    PROVE  SameHand
  <1>1. ckpt' = ckpt
    BY DEF ReconcileJob, AnswerLost, RequestLost, Refused, DiskStays
  <1>2. GiveUp \/ Retried("done") \/ Retried("again")
    BY DEF ReconcileJob, Answered, AnswerLost, RequestLost, Refused, Retried
  <1>3. QED
    BY <1>1, <1>2, RoundEnds, HandRetried DEF GiveUp

LEMMA AskHand ==
    ASSUME AgentInv, AskHub
    PROVE  SameHand
  <1>1. run.at \in InHand /\ run.at # "reconcile"
    BY DEF AskHub, At, InHand, Places
  <1>2. PICK c \in {run.call.id} :
            GiveUp \/ Retried("done") \/ Retried("again") \/ GoTo("error") \/ Decided(c)
    BY DEF AskHub, Answered, AnswerLost, RequestLost, Refused, Retried
  <1>3. \/ GiveUp \/ Retried("done") \/ Retried("again")
        \/ GoTo("error") \/ GoTo("invoke") \/ PlanFrom(Told(c, "not executed"))
    BY <1>2 DEF Decided
  <1>4. QED
    BY <1>1, <1>3, RoundEnds, HandRetried, HandKept DEF GiveUp, PlanFrom

LEMMA AccessHand ==
    ASSUME AgentInv, RequestModelAccess
    PROVE  SameHand
  <1>1. run.at \in InHand /\ run.at # "reconcile"
    BY DEF RequestModelAccess, At, InHand, Places
  <1>2. Granted \/ GoTo("error") \/ Retried("again")
    BY DEF RequestModelAccess, Answered, RequestLost, Refused, Retried
  <1>3. Granted => \/ \E ex : PlanFrom(ex)
                   \/ \E tc : run' = [run EXCEPT !.at = "ask", !.retry = "first", !.call = tc]
    BY DEF Granted
  <1>4. QED
    BY <1>1, <1>2, <1>3, HandRetried, HandKept DEF PlanFrom

LEMMA PlanHand ==
    ASSUME AgentInv,
           \/ FirstSave \/ PlanFails \/ PlanAgain \/ PlanFinish \/ InvokeTool \/ Observe
           \/ \E c \in Calls, name \in Proposed : PlanCall(c, name)
    PROVE  SameHand
  <1>1. run.at \in InHand /\ run.at # "reconcile" /\ run \in RunRow
    BY DEF FirstSave, PlanFails, PlanAgain, PlanFinish, InvokeTool, Observe, PlanCall, Output, At,
           InHand, Places, AgentInv, LocalsTyped
  <1>2. CASE FirstSave \/ PlanFails \/ PlanFinish \/ InvokeTool
    BY <1>1, <1>2, HandKept DEF FirstSave, PlanFails, PlanFinish, InvokeTool
  <1>3. CASE PlanAgain
    BY <1>1, <1>3 DEF PlanAgain, RunRow, SameHand
  <1>4. CASE Observe
    BY <1>1, <1>4, HandKept DEF Observe, PlanFrom
  <1>5. CASE \E c \in Calls, name \in Proposed : PlanCall(c, name)
    BY <1>1, <1>5, HandKept DEF PlanCall
  <1>6. QED
    BY <1>2, <1>3, <1>4, <1>5

\* The two steps that are about another job, or about giving one up.
LEMMA PullHand ==
    ASSUME AgentInv, PullJob
    PROVE  HandLeft
  <1>1. run \in RunRow /\ run.at = "pull"
    BY DEF AgentInv, LocalsTyped, PullJob, At
  <1>2. CASE GiveUp \/ Retried("done") \/ Retried("again")
    <2>1. SameHand
      BY <1>1, <1>2, RoundEnds, HandRetried DEF GiveUp
    <2>2. QED
      BY <2>1 DEF SameHand, HandLeft
  <1>3. ASSUME NEW j \in Jobs, run' = [run EXCEPT !.at = "prepare", !.retry = "first",
                                                 !.job = j, !.lease = lease'[j]]
        PROVE  HandLeft
    <2>1. run'.at = "prepare" /\ run'.job = j /\ run'.lease = lease'[j]
      BY <1>1, <1>3 DEF RunRow
    <2>2. QED
      BY <2>1 DEF HandLeft
  <1>4. QED
    BY <1>2, <1>3 DEF PullJob, Answered, AnswerLost, RequestLost, Refused, Retried

LEMMA PrepareHand ==
    ASSUME AgentInv, Prepare
    PROVE  HandLeft
  <1>1. /\ run \in RunRow /\ run.at = "prepare" /\ run.at \in InHand /\ ckpt' = ckpt
        /\ \/ ~HasCheckpoint(run.job) /\ GoTo("reconcile")
           \/ run' = [run EXCEPT !.at = "first_save", !.seq = ckpt[run.job].seq,
                                 !.exchanges = ckpt[run.job].exchanges]
    BY DEF AgentInv, LocalsTyped, Prepare, At, InHand, Places
  <1>2. /\ run'.job = run.job /\ run'.lease = run.lease
        /\ run'.at = "reconcile" => ~HasCheckpoint(run.job)
    BY <1>1 DEF RunRow, GoTo
  <1>3. QED
    BY <1>1, <1>2 DEF HandLeft, HasCheckpoint

LEMMA RunnerLeavesHand ==
    ASSUME AgentInv, RunnerStep
    PROVE  HandLeft
  <1>1. SameHand => HandLeft
    BY DEF SameHand, HandLeft
  <1>2. QED
    BY <1>1, BetweenJobs, RecoverHand, ReportHand, ReconcileHand, AskHand, AccessHand, PlanHand,
       PullHand, PrepareHand DEF RunnerStep

-----------------------------------------------------------------------------
\* Only the Owner submits a job, and for this Runner.
LEMMA LeftByAll ==
    ASSUME AgentInv, AgentNext
    PROVE  /\ \A j \in Jobs : DiskLeft(j) /\ (RowLeft(j) \/ Submitted(j))
           /\ HandLeft
  <1>1. CASE RunnerStep
    BY <1>1, RunnerLeavesRows, RunnerLeavesDisk, RunnerLeavesHand
  <1>2. CASE CrashRunner \/ SaveFails
    <2>1. HubStays /\ ckpt' = ckpt
      BY <1>2 DEF CrashRunner, SaveFails, DiskStays
    <2>2. QED
      BY <1>2, <2>1, HubUnasked, RowsStay, DiskStaysLeaves, BetweenJobs
      DEF AgentInv, SameHand, HandLeft
  <1>3. CASE UNCHANGED agentVars /\ Environment
    <2>1. run' = run /\ ckpt' = ckpt
      BY <1>3 DEF agentVars
    <2>2. HandLeft
      BY <2>1 DEF HandLeft
    <2>3. \A j \in Jobs : RowLeft(j) \/ Submitted(j)
      BY <1>3, EnvironmentMoves DEF AgentInv, RowLeft
    <2>4. QED
      BY <2>1, <2>2, <2>3, DiskStaysLeaves
  <1>4. QED
    BY <1>1, <1>2, <1>3 DEF AgentNext, Environment

LEMMA RecoveryStep ==
    ASSUME AgentInv, RecoveryInv, [AgentNext]_everything
    PROVE  RecoveryInv'
  <1>1. CASE UNCHANGED everything
    <2>1. UNCHANGED <<run, ckpt, status, lease, runner>>
      BY <1>1 DEF everything, allVars, vars, agentVars
    <2>2. QED
      BY <2>1 DEF RecoveryInv, HasCheckpoint, At
  <1>2. CASE AgentNext
    <2>1. AgentInv' /\ [PolicyNext]_allVars
      BY AgentStep
    <2>2. /\ \A j \in Jobs : lease[j] \in Int /\ lease'[j] \in Int /\ lease[j] <= lease'[j]
          /\ \A j \in Jobs : status[j] # "ABSENT" => runner'[j] = runner[j]
      <3>1. \A j \in Jobs : lease[j] \in Int /\ lease'[j] \in Int
        BY <2>1, TypesOfHub DEF AgentInv, PolicyInv, PolicyTypeOK, TypeOK
      <3>2. CASE PolicyNext
        BY <3>1, <3>2, JobsMove DEF AgentInv, JobMoves
      <3>3. CASE UNCHANGED allVars
        BY <3>1, <3>3 DEF allVars, vars
      <3>4. QED
        BY <2>1, <3>2, <3>3
    <2>3. /\ \A j \in Jobs : DiskLeft(j) /\ (RowLeft(j) \/ Submitted(j))
          /\ HandLeft
      BY <1>2, LeftByAll
    <2>4. /\ run \in RunRow /\ run' \in RunRow
          /\ ckpt \in [Jobs -> Checkpoint \cup {NoCheckpoint}]
          /\ ckpt' \in [Jobs -> Checkpoint \cup {NoCheckpoint}]
      BY <2>1 DEF AgentInv, LocalsTyped
    <2>5. ASSUME NEW j \in Jobs, status'[j] # "ABSENT"
          PROVE  runner'[j] = Me
      BY <2>2, <2>3, <2>5 DEF RecoveryInv, RowLeft, Submitted
    <2>6. run'.at \in InHand => run'.lease <= lease'[run'.job]
      <3>1. CASE run.at \in InHand /\ run'.job = run.job /\ run'.lease = run.lease
        <4>1. run.job \in Jobs /\ run.lease <= lease[run.job] /\ run.lease \in Int
          BY <2>4, <3>1, BoundsAssumption DEF AgentInv, JobKnown, RecoveryInv, RunRow
        <4>2. QED
          BY <2>2, <3>1, <4>1
      <3>2. CASE run'.job \in Jobs /\ run'.lease = lease'[run'.job]
        BY <2>2, <3>2
      <3>3. QED
        BY <2>3, <3>1, <3>2 DEF HandLeft
    <2>7. At("reconcile")' => ~HasCheckpoint(run.job)'
      <3> SUFFICES ASSUME run'.at = "reconcile"
                   PROVE  ckpt'[run'.job] = NoCheckpoint
        BY DEF At, HasCheckpoint
      <3>1. run'.at \in InHand
        BY DEF InHand, Places
      <3>2. QED
        BY <2>3, <3>1 DEF HandLeft, RecoveryInv, At, HasCheckpoint
    <2>8. ASSUME NEW j \in Jobs, ckpt'[j] # NoCheckpoint
          PROVE  status'[j] \notin {"ABSENT", "RECONCILING"} /\ ckpt'[j].lease <= lease'[j]
      <3>1. CASE ckpt[j] # NoCheckpoint /\ ckpt'[j].lease = ckpt[j].lease
        <4>1. /\ status[j] \notin {"ABSENT", "RECONCILING"}
              /\ ckpt[j].lease <= lease[j] /\ ckpt[j].lease \in Int
          BY <2>4, <3>1, BoundsAssumption DEF RecoveryInv, HasCheckpoint, Checkpoint
        <4>2. ckpt'[j].lease <= lease'[j]
          BY <2>2, <3>1, <4>1
        <4>3. QED
          BY <2>3, <3>1, <4>1, <4>2 DEF RowLeft, Submitted, RecoveryInv, HasCheckpoint
      <3>2. CASE j = run.job /\ run.at \in InHand \ {"reconcile"} /\ ckpt'[j].lease = run.lease
        <4>1. /\ status[j] \notin {"ABSENT", "RECONCILING"}
              /\ run.lease <= lease[j] /\ run.lease \in Int
          BY <2>4, <3>2, BoundsAssumption DEF AgentInv, JobKnown, RecoveryInv, RunRow
        <4>2. QED
          BY <2>2, <2>3, <3>2, <4>1 DEF RowLeft, Submitted, At
      <3>3. QED
        BY <2>3, <2>8, <3>1, <3>2 DEF DiskLeft, HasCheckpoint
    <2>9. QED
      BY <2>5, <2>6, <2>7, <2>8 DEF RecoveryInv, HasCheckpoint
  <1>3. QED
    BY <1>1, <1>2

(***************************************************************************)
(* A checkpoint the Hub refuses is of one kind only: its job was reported  *)
(* RUNNING under a renewed lease before the checkpoint moved to it.  So    *)
(* without a renewal between the two, a Runner that polls can recover      *)
(* every checkpoint it kept, whatever was lost and whenever it ended.      *)
(***************************************************************************)
THEOREM OnlyOutlivedAreRefused ==
    AgentSpec => [](CheckpointsRecover \/ \E j \in Jobs : Outlived(j))
  <1>1. AgentInit => RecoveryInv
    <2> SUFFICES ASSUME AgentInit
                 PROVE  RecoveryInv
      OBVIOUS
    <2>1. /\ run = Off /\ ckpt = [j \in Jobs |-> NoCheckpoint]
          /\ status = [j \in Jobs |-> "ABSENT"]
      BY DEF AgentInit, PolicyInit, Init
    <2>2. run.at = "off"
      BY <2>1 DEF Off, Idle
    <2>3. QED
      BY <2>1, <2>2 DEF RecoveryInv, HasCheckpoint, At, InHand
  <1>2. AgentInv /\ RecoveryInv /\ [AgentNext]_everything => RecoveryInv'
    BY RecoveryStep
  <1>3. AgentInv /\ RecoveryInv => CheckpointsRecover \/ \E j \in Jobs : Outlived(j)
    <2> SUFFICES ASSUME AgentInv, RecoveryInv, NEW j \in Jobs, HasCheckpoint(j), ~Outlived(j)
                 PROVE  Recoverable(j)
      BY DEF CheckpointsRecover
    <2>1. status[j] \in Seen \ {"ABSENT", "RECONCILING"} /\ runner[j] = Me
      BY DEF AgentInv, JobKnown, RecoveryInv
    <2>2. ckpt[j].lease <= lease[j] /\ ckpt[j].lease \in Int /\ lease[j] \in Int
      BY TypesOfHub, BoundsAssumption
      DEF AgentInv, RecoveryInv, LocalsTyped, Checkpoint, HasCheckpoint
    <2>3. QED
      BY <2>1, <2>2 DEF Recoverable, Outlived, Seen
  <1>4. QED
    BY <1>1, <1>2, <1>3, AgentInvariance, PTL DEF AgentSpec
===============================================================================
