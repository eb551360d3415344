---------------------------- MODULE NodeToolPolicy ----------------------------
(***************************************************************************)
(* NodeToolPolicy (apps/fridayd/src/node-tool-policy.ts) on top of the job *)
(* registry: the Hub classifies every tool call a remote Agent proposes,   *)
(* authorizes reads at once, and holds the job until the Owner clears      *)
(* anything else.                                                          *)
(*                                                                         *)
(* The policy and the registry write through two SQLite connections, so    *)
(* evaluating and clearing a call take two commits, the call row first.    *)
(* Requests do not interleave with them (the code between is synchronous), *)
(* but a crash of the Hub does; open() repairs what such a crash left,     *)
(* row by row, and can crash itself.                                       *)
(*                                                                         *)
(* The Runner is the environment here: it does what runner.ts does to a    *)
(* job, in that order.                                                     *)
(***************************************************************************)
EXTENDS JobRegistry, SequencesExt

CONSTANTS
    Calls,          \* callId of the tool calls that may be proposed
    AuthorityTicks, \* TOOL_AUTHORITY_MS in ticks of the clock
    ToolLists       \* lists of unavailable tools a start may be configured with

\* One tool for each risk the Agent may propose.
ToolNames == {"system.snapshot", "file.write", "service.restart"}

ASSUME AuthorityAssumption == AuthorityTicks \in Nat \ {0}
ASSUME ToolListsAssumption == ToolLists \in SUBSET SUBSET ToolNames /\ ToolLists # {}

VARIABLES
    callStatus,     \* status of the node_tool_calls_v1 row
    call,           \* its content: job, lease and tool name
    authTtl,        \* ticks left on the row's authorization; 0: none or expired
    rowOrder,       \* the rows, by updated_at
    hub,            \* up, down, or opening: open() is at work
    todo,           \* rows open() has still to reconcile
    unavailable,    \* unavailableTools of this Hub process
    cleared         \* history: calls the Owner cleared

policyVars ==
    <<callStatus, call, authTtl, rowOrder, hub, todo, unavailable, cleared>>
allVars == <<vars, policyVars>>

-----------------------------------------------------------------------------
NodeToolRisk(name) ==
    CASE name = "system.snapshot" -> "R0"
      [] name = "file.write" -> "R1"
      [] OTHER -> "R2"

\* Faulty variant: the Owner is asked about R2 alone.
OnlyR2NeedsOwner(name) == NodeToolRisk(name) = "R2"

NeedsOwner(name) == NodeToolRisk(name) # "R0"

RowStates == {"WAIT_APPROVAL", "APPROVED", "DENIED"}
NoCall == [job |-> "NONE", lease |-> 0, name |-> "NONE"]
CallContent == [job : Jobs, lease : 1..MaxLease, name : ToolNames]

PolicyTypeOK ==
    /\ TypeOK
    /\ callStatus \in [Calls -> RowStates \cup {"NONE"}]
    /\ call \in [Calls -> CallContent \cup {NoCall}]
    /\ authTtl \in [Calls -> 0..AuthorityTicks]
    /\ rowOrder \in Seq(Calls)
    /\ hub \in {"up", "down", "opening"}
    /\ todo \in Seq(Calls)
    /\ unavailable \in SUBSET ToolNames
    /\ cleared \in SUBSET Calls

PolicyInit ==
    /\ Init
    /\ callStatus = [c \in Calls |-> "NONE"]
    /\ call = [c \in Calls |-> NoCall]
    /\ authTtl = [c \in Calls |-> 0]
    /\ rowOrder = <<>>
    /\ hub = "up"
    /\ todo = <<>>
    /\ unavailable \in ToolLists
    /\ cleared = {}

\* decisionFromRow: an expired authorization reads as a denial.
Decision(c) ==
    IF callStatus[c] = "APPROVED" /\ authTtl[c] = 0 THEN "DENIED" ELSE callStatus[c]

\* Faulty variant: an authorization that outlives the lease.
FullAuthority(j) == AuthorityTicks

\* #authorize: never longer than the lease.
AuthorityFor(j) == IF ttl[j] < AuthorityTicks THEN ttl[j] ELSE AuthorityTicks

\* The rows but that of c, if there is one.
OtherRows(c) ==
    IF Contains(rowOrder, c)
      THEN RemoveAt(rowOrder, CHOOSE i \in DOMAIN rowOrder : rowOrder[i] = c)
      ELSE rowOrder

\* The row of c is written, and so becomes the last by updated_at.
WriteRow(c, s) ==
    /\ callStatus' = [callStatus EXCEPT ![c] = s]
    /\ rowOrder' = Append(OtherRows(c), c)

Authorize(c, j) == authTtl' = [authTtl EXCEPT ![c] = AuthorityFor(j)]
NoAuthority(c) == authTtl' = [authTtl EXCEPT ![c] = 0]

JobOf(c) == call[c].job
BoundToCall(c) == tool[JobOf(c)] = "agent" /\ lease[JobOf(c)] = call[c].lease
HeldForCall(c) == BoundToCall(c) /\ status[JobOf(c)] = "WAIT_APPROVAL"

\* jobs.waitForToolApproval as called here: it holds the job, finds it held, or throws.
Hold(j, r, l) ==
    IF CanHold(j, r, l) THEN WaitForToolApproval(j, r, l) ELSE UNCHANGED vars

Redispatch(c) ==
    RedispatchAfterDeniedToolCall(JobOf(c), runner[JobOf(c)], call[c].lease)
Dispatch(c) ==
    DispatchAfterToolApproval(JobOf(c), runner[JobOf(c)], call[c].lease)

\* The process ends between the first commit and the second.
CrashBetween == hub' = "down" /\ todo' = <<>> /\ UNCHANGED vars

-----------------------------------------------------------------------------
(***************************************************************************)
(* The Runner works on a RUNNING job, and on a DISPATCHED one when the     *)
(* answer that would have paused it was lost and its retry, after the call *)
(* was decided, told it to go on.                                          *)
(***************************************************************************)
AtWork(j, l) ==
    \/ status[j] = "RUNNING"
    \/ /\ status[j] = "DISPATCHED"
       /\ \E d \in Calls : /\ call[d].job = j
                           /\ call[d].lease = l
                           /\ callStatus[d] \in {"APPROVED", "DENIED"}

\* evaluate, for a callId the Hub has not seen: the Agent proposes it under lease l.
Propose(c, j, l, name) ==
    /\ hub = "up"
    /\ callStatus[c] = "NONE"
    /\ AtWork(j, l)
    /\ tool[j] = "agent"
    /\ ActiveLease(j, runner[j], l)
    /\ call' = [call EXCEPT ![c] = [job |-> j, lease |-> l, name |-> name]]
    /\ UNCHANGED <<unavailable, cleared>>

ProposeUnavailable(c, j, l, name) ==
    /\ Propose(c, j, l, name)
    /\ name \in unavailable
    /\ WriteRow(c, "DENIED")
    /\ UNCHANGED <<vars, authTtl, hub, todo>>

ProposeRead(c, j, l, name) ==
    /\ Propose(c, j, l, name)
    /\ ~NeedsOwner(name)
    /\ name \notin unavailable
    /\ AuthorityFor(j) > 0
    /\ WriteRow(c, "APPROVED")
    /\ Authorize(c, j)
    /\ UNCHANGED <<vars, hub, todo>>

ProposeGuarded(c, j, l, name) ==
    /\ Propose(c, j, l, name)
    /\ NeedsOwner(name)
    /\ name \notin unavailable
    /\ WriteRow(c, "WAIT_APPROVAL")
    /\ UNCHANGED authTtl
    /\ \/ Hold(j, runner[j], l) /\ UNCHANGED <<hub, todo>>
       \/ CrashBetween

\* evaluate, for a call it has: a retry, or a checkpoint replaying its pending call.
Reevaluate(c) ==
    /\ hub = "up"
    /\ Decision(c) = "WAIT_APPROVAL"
    /\ BoundToCall(c)
    /\ ActiveLease(JobOf(c), runner[JobOf(c)], call[c].lease)
    /\ Hold(JobOf(c), runner[JobOf(c)], call[c].lease)
    /\ UNCHANGED policyVars

-----------------------------------------------------------------------------
\* Faulty variant: a call that was denied can be cleared after all.
AwaitingOrDenied(c) == callStatus[c] \in {"WAIT_APPROVAL", "DENIED"}

AwaitingClearance(c) == callStatus[c] = "WAIT_APPROVAL"

\* approve, while the lease runs: authorize exactly this call, then dispatch.
ClearCall(c) ==
    /\ hub = "up"
    /\ AwaitingClearance(c)
    /\ HeldForCall(c)
    /\ ~LeaseLapsed(JobOf(c))
    /\ WriteRow(c, "APPROVED")
    /\ Authorize(c, JobOf(c))
    /\ cleared' = cleared \cup {c}
    /\ \/ Dispatch(c) /\ UNCHANGED <<hub, todo>>
       \/ CrashBetween
    /\ UNCHANGED <<call, unavailable>>

\* approve, too late: the call is denied and the Agent re-plans under a new lease.
ClearCallTooLate(c) ==
    /\ hub = "up"
    /\ AwaitingClearance(c)
    /\ HeldForCall(c)
    /\ LeaseLapsed(JobOf(c))
    /\ WriteRow(c, "DENIED")
    /\ NoAuthority(c)
    /\ \/ Redispatch(c) /\ UNCHANGED <<hub, todo>>
       \/ CrashBetween
    /\ UNCHANGED <<call, unavailable, cleared>>

-----------------------------------------------------------------------------
Crash ==
    /\ hub # "down"
    /\ hub' = "down"
    /\ todo' = <<>>
    /\ UNCHANGED <<vars, callStatus, call, authTtl, rowOrder, unavailable, cleared>>

\* Faulty variant: a start trusts the rows as they are.
NothingToReconcile == <<>>

RowsToReconcile == rowOrder

Open ==
    /\ hub = "down"
    /\ hub' = "opening"
    /\ todo' = RowsToReconcile
    /\ unavailable' \in ToolLists
    /\ UNCHANGED <<vars, callStatus, call, authTtl, rowOrder, cleared>>

Reconciling(c) == hub = "opening" /\ todo # <<>> /\ c = Head(todo)
RowDone == todo' = Tail(todo) /\ UNCHANGED hub

StillHeldByLease(c) ==
    /\ BoundToCall(c)
    /\ status[JobOf(c)] \notin Terminal
    /\ ~LeaseLapsed(JobOf(c))

\* A pending call with a live lease holds its job (again); if the registry
\* refuses, open() throws and the process ends.
RestoreHold(c) ==
    /\ Reconciling(c)
    /\ callStatus[c] = "WAIT_APPROVAL"
    /\ StillHeldByLease(c)
    /\ IF CanHold(JobOf(c), runner[JobOf(c)], call[c].lease) \/ HeldForCall(c)
         THEN Hold(JobOf(c), runner[JobOf(c)], call[c].lease) /\ RowDone
         ELSE CrashBetween
    /\ UNCHANGED <<callStatus, call, authTtl, rowOrder, unavailable, cleared>>

\* An interrupted clearance is completed while its authorization lasts.
CompleteClearance(c) ==
    /\ Reconciling(c)
    /\ Decision(c) = "APPROVED"
    /\ HeldForCall(c)
    /\ Dispatch(c)
    /\ RowDone
    /\ UNCHANGED <<callStatus, call, authTtl, rowOrder, unavailable, cleared>>

\* Every other row whose job it may still hold is denied and the job released.
MustDeny(c) ==
    \/ callStatus[c] = "WAIT_APPROVAL" /\ ~StillHeldByLease(c)
    \/ Decision(c) = "DENIED" /\ HeldForCall(c)

DenyRow(c) ==
    /\ Reconciling(c)
    /\ MustDeny(c)
    /\ WriteRow(c, "DENIED")
    /\ NoAuthority(c)
    /\ IF HeldForCall(c)
         THEN (Redispatch(c) /\ RowDone) \/ CrashBetween
         ELSE UNCHANGED vars /\ RowDone
    /\ UNCHANGED <<call, unavailable, cleared>>

SkipRow(c) ==
    /\ Reconciling(c)
    /\ callStatus[c] # "WAIT_APPROVAL"
    /\ ~HeldForCall(c)
    /\ RowDone
    /\ UNCHANGED <<vars, callStatus, call, authTtl, rowOrder, unavailable, cleared>>

Opened ==
    /\ hub = "opening"
    /\ todo = <<>>
    /\ hub' = "up"
    /\ UNCHANGED <<vars, callStatus, call, authTtl, rowOrder, todo, unavailable, cleared>>

-----------------------------------------------------------------------------
\* The clock; open() takes its "now" once, before the first row.
PolicyTick ==
    /\ hub # "opening"
    /\ Tick
    /\ authTtl' = [c \in Calls |-> IF authTtl[c] > 0 THEN authTtl[c] - 1 ELSE 0]
    /\ UNCHANGED <<callStatus, call, rowOrder, hub, todo, unavailable, cleared>>

\* What runner.ts posts: RUNNING once it pulled the job, an outcome, and notes, the
\* last also about a job that was held or stopped behind its back.
RunnerReport(j, r, l, seq) ==
    \/ \E body \in Notes : AcceptEvent(j, r, l, seq, body)
    \/ status[j] = "DISPATCHED" /\ AcceptEvent(j, r, l, seq, "RUNNING")
    \/ /\ status[j] = "RUNNING"
       /\ \E body \in {"SUCCEEDED", "FAILED"} : AcceptEvent(j, r, l, seq, body)

JobStep(j) ==
    \/ Approve(j)
    \/ Cancel(j)
    \/ \E r \in Runners :
        \/ \E t \in Tools : Create(j, r, t)
        \/ Pull(r, j)
        \/ \E l \in 1..MaxLease :
            \/ RecoverAgent(j, r, l)
            \/ status[j] = "DISPATCHED" /\ Reconcile(j, r, l)
            \/ \E seq \in 0..MaxEvents : RunnerReport(j, r, l, seq)

CallStep(c) ==
    \/ Reevaluate(c)
    \/ ClearCall(c)
    \/ ClearCallTooLate(c)
    \/ \E j \in Jobs, l \in 1..MaxLease, name \in ToolNames :
        \/ ProposeUnavailable(c, j, l, name)
        \/ ProposeRead(c, j, l, name)
        \/ ProposeGuarded(c, j, l, name)

OpenStep(c) == RestoreHold(c) \/ CompleteClearance(c) \/ DenyRow(c) \/ SkipRow(c)

PolicyNext ==
    \/ PolicyTick
    \/ Crash
    \/ Open
    \/ Opened
    \/ hub = "up" /\ UNCHANGED policyVars /\ \E j \in Jobs : JobStep(j)
    \/ \E c \in Calls : CallStep(c) \/ OpenStep(c)

PolicySpec == PolicyInit /\ [][PolicyNext]_allVars

-----------------------------------------------------------------------------
(***************************************************************************)
(* An authorization that can still be executed belongs to the lease the    *)
(* job has now, never to one a renewal superseded, and ends with it.       *)
(***************************************************************************)
AuthorityWithinLease ==
    \A c \in Calls : Decision(c) = "APPROVED" =>
        /\ call[c].lease = lease[JobOf(c)]
        /\ authTtl[c] <= ttl[JobOf(c)]

(***************************************************************************)
(* What is not a read is authorized only if the Owner cleared that call,   *)
(* through crashes, restarts and replays of the call.                      *)
(***************************************************************************)
OwnerClearedCall ==
    \A c \in Calls :
        callStatus[c] = "APPROVED" /\ NodeToolRisk(call[c].name) # "R0" => c \in cleared

(***************************************************************************)
(* A call that was refused or ran out of its authority is never executable *)
(* again: the Agent re-plans, the old call is not revived.                 *)
(***************************************************************************)
DenialIsFinal ==
    [][\A c \in Calls : Decision(c) = "DENIED" => Decision(c)' = "DENIED"]_allVars

(***************************************************************************)
(* Once the Hub serves requests no Agent job is held without a pending     *)
(* call of its own lease, whose clearance releases it.                     *)
(***************************************************************************)
HeldJobIsReleasable ==
    hub = "up" => \A j \in Jobs :
        status[j] = "WAIT_APPROVAL" /\ tool[j] = "agent" =>
            \E c \in Calls : callStatus[c] = "WAIT_APPROVAL" /\ JobOf(c) = j
                             /\ call[c].lease = lease[j]

(***************************************************************************)
(* Once the Hub serves requests an open job with a pending call of its     *)
(* live lease is held, so the Runner is not handed it and the Owner's      *)
(* clearance finds it waiting.                                             *)
(***************************************************************************)
PendingCallHoldsJob ==
    hub = "up" => \A c \in Calls :
        callStatus[c] = "WAIT_APPROVAL" /\ StillHeldByLease(c) =>
            status[JobOf(c)] = "WAIT_APPROVAL"
=============================================================================
