----------------------------- MODULE JobRegistry -----------------------------
(***************************************************************************)
(* SqliteJobRegistry (apps/fridayd/src/job-registry.ts): the Hub's durable *)
(* record of every job, its signed spec with a lease, and the events its   *)
(* Runner reports.  Every method runs in one BEGIN IMMEDIATE transaction,  *)
(* so every method is one action; a method that throws, and a branch that  *)
(* only reads, changes nothing and is a stuttering step.                   *)
(*                                                                         *)
(* A job is named by its idempotency key (jobs_v2.idempotency_key is       *)
(* UNIQUE).  A lease is the number of specs signed for the job so far, so  *)
(* a freshly signed spec is the next number and 0 means spec_json is NULL. *)
(* Wall-clock time enters only as ttl, the time left on the current lease. *)
(***************************************************************************)
EXTENDS Integers, Sequences, FiniteSets

CONSTANTS
    Jobs,         \* idempotency keys, one row of jobs_v2 each
    Runners,      \* enrolled runners
    LeaseTicks,   \* LEASE_MS in ticks of the clock
    MaxLease,     \* bound: specs signed for a job
    MaxEvents     \* bound: events recorded for a job

ASSUME LeaseTicksAssumption == LeaseTicks \in Nat \ {0}
ASSUME BoundsAssumption == MaxLease \in Nat /\ MaxEvents \in Nat

VARIABLES
    rows,          \* jobs_v2 in the order of created_at
    status, tool, runner,
    lease,         \* the lease of spec_json; 0: NULL
    ttl,           \* ticks until leaseExpiresAt; 0: expires now; -1: expired
    lastSequence,  \* last_sequence
    events,        \* job_events_v2 of the job, by sequence
    approved       \* history: the Owner approved the job

vars == <<rows, status, tool, runner, lease, ttl, lastSequence, events, approved>>

-----------------------------------------------------------------------------
Terminal == {"SUCCEEDED", "FAILED", "CANCELLED"}
Active == {"NEW", "PLANNING", "WAIT_APPROVAL", "DISPATCHED", "RUNNING",
           "WAIT_USER", "UNKNOWN", "RECONCILING"}
States == Active \cup Terminal

\* Events that carry no state: output, artifact and error.
Notes == {"NOTE"}
Bodies == States \cup Notes

\* Remote Agent jobs (R0) and the professional executors (R1).
Tools == {"agent", "codex"}
Risk(t) == IF t = "agent" THEN "R0" ELSE "R1"

Event == [sequence : Nat, lease : Nat, body : Bodies]

TypeOK ==
    /\ rows \in Seq(Jobs)
    /\ status \in [Jobs -> States \cup {"ABSENT"}]
    /\ tool \in [Jobs -> Tools \cup {"ABSENT"}]
    /\ runner \in [Jobs -> Runners \cup {"ABSENT"}]
    /\ lease \in [Jobs -> 0..MaxLease]
    /\ ttl \in [Jobs -> -1..LeaseTicks]
    /\ lastSequence \in [Jobs -> Int]
    /\ events \in [Jobs -> Seq(Event)]
    /\ approved \in [Jobs -> BOOLEAN]

Init ==
    /\ rows = <<>>
    /\ status = [j \in Jobs |-> "ABSENT"]
    /\ tool = [j \in Jobs |-> "ABSENT"]
    /\ runner = [j \in Jobs |-> "ABSENT"]
    /\ lease = [j \in Jobs |-> 0]
    /\ ttl = [j \in Jobs |-> -1]
    /\ lastSequence = [j \in Jobs |-> -1]
    /\ events = [j \in Jobs |-> <<>>]
    /\ approved = [j \in Jobs |-> FALSE]

-----------------------------------------------------------------------------
(***************************************************************************)
(* Leases.  The registry compares leaseExpiresAt with the clock in two     *)
(* ways: holds and renewals call a lease expired from leaseExpiresAt on    *)
(* (<=), events and reconciliation only after it (<).                      *)
(***************************************************************************)
LeaseLapsed(j) == ttl[j] <= 0
LeaseHonoured(j) == ttl[j] >= 0

\* Faulty variant for the mutation runs: any lease ever signed will do.
BoundToAnyLease(j, r, l) == runner[j] = r /\ l > 0 /\ l <= lease[j]

\* job.runnerId === runnerId && job.spec?.leaseId === leaseId
Bound(j, r, l) == runner[j] = r /\ l > 0 /\ lease[j] = l

KeepLease == UNCHANGED <<lease, ttl>>

\* Faulty variants: a term twice as long; a new term on the old spec.
SignLongSpec(j) ==
    /\ lease[j] < MaxLease
    /\ lease' = [lease EXCEPT ![j] = @ + 1]
    /\ ttl' = [ttl EXCEPT ![j] = 2 * LeaseTicks]
ExtendTerm(j) ==
    /\ ttl' = [ttl EXCEPT ![j] = LeaseTicks]
    /\ UNCHANGED lease

SignSpec(j) ==
    /\ lease[j] < MaxLease
    /\ lease' = [lease EXCEPT ![j] = @ + 1]
    /\ ttl' = [ttl EXCEPT ![j] = LeaseTicks]

\* Faulty variant: every redispatch signs a new spec.
AlwaysRenew(j) == SignSpec(j)

\* A spec whose lease lapsed is signed again; a live one is reused.
RenewIfLapsed(j) == IF LeaseLapsed(j) THEN SignSpec(j) ELSE KeepLease

Tick ==
    /\ \E j \in Jobs : ttl[j] >= 0
    /\ ttl' = [j \in Jobs |-> IF ttl[j] >= 0 THEN ttl[j] - 1 ELSE -1]
    /\ UNCHANGED <<rows, status, tool, runner, lease, lastSequence, events, approved>>

-----------------------------------------------------------------------------
SetStatus(j, s) == status' = [status EXCEPT ![j] = s]
KeepRow == UNCHANGED <<rows, tool, runner>>
KeepLog == UNCHANGED <<lastSequence, events>>

\* Faulty variant: no job waits for the Owner.
AlwaysDispatched(t) == "DISPATCHED"

InitialStatus(t) == IF Risk(t) = "R0" THEN "DISPATCHED" ELSE "WAIT_APPROVAL"

Create(j, r, t) ==
    /\ status[j] = "ABSENT"
    /\ rows' = Append(rows, j)
    /\ SetStatus(j, InitialStatus(t))
    /\ tool' = [tool EXCEPT ![j] = t]
    /\ runner' = [runner EXCEPT ![j] = r]
    /\ IF InitialStatus(t) = "DISPATCHED" THEN SignSpec(j) ELSE KeepLease
    /\ KeepLog
    /\ UNCHANGED approved

Approve(j) ==
    /\ status[j] = "WAIT_APPROVAL"
    /\ Risk(tool[j]) = "R1"
    /\ SignSpec(j)
    /\ SetStatus(j, "DISPATCHED")
    /\ approved' = [approved EXCEPT ![j] = TRUE]
    /\ KeepRow
    /\ KeepLog

\* DISPATCHED is accepted to repair a hold that a Hub crash lost.
CanHold(j, r, l) ==
    /\ Bound(j, r, l)
    /\ tool[j] = "agent"
    /\ ~LeaseLapsed(j)
    /\ status[j] \in {"RUNNING", "DISPATCHED"}

WaitForToolApproval(j, r, l) ==
    /\ CanHold(j, r, l)
    /\ SetStatus(j, "WAIT_APPROVAL")
    /\ KeepLease
    /\ KeepRow
    /\ KeepLog
    /\ UNCHANGED approved

HeldForTool(j, r, l) ==
    /\ Bound(j, r, l)
    /\ status[j] = "WAIT_APPROVAL"
    /\ tool[j] = "agent"

DispatchAfterToolApproval(j, r, l) ==
    /\ HeldForTool(j, r, l)
    /\ ~LeaseLapsed(j)
    /\ SetStatus(j, "DISPATCHED")
    /\ KeepLease
    /\ KeepRow
    /\ KeepLog
    /\ UNCHANGED approved

RedispatchAfterDeniedToolCall(j, r, l) ==
    /\ HeldForTool(j, r, l)
    /\ RenewIfLapsed(j)
    /\ SetStatus(j, "DISPATCHED")
    /\ KeepRow
    /\ KeepLog
    /\ UNCHANGED approved

-----------------------------------------------------------------------------
Dispatched(r, j) == status[j] = "DISPATCHED" /\ runner[j] = r

\* The row "ORDER BY created_at LIMIT 1" selects.
IsOldestDispatched(r, j) ==
    \E i \in DOMAIN rows :
        /\ rows[i] = j
        /\ Dispatched(r, j)
        /\ \A k \in 1..(i - 1) : ~Dispatched(r, rows[k])

\* Pulling leaves the job DISPATCHED; with a live lease it changes nothing.
Pull(r, j) ==
    /\ IsOldestDispatched(r, j)
    /\ lease[j] > 0
    /\ LeaseLapsed(j)
    /\ SignSpec(j)
    /\ KeepRow
    /\ KeepLog
    /\ UNCHANGED <<status, approved>>

\* A Runner that restarts with a checkpoint; only the RUNNING branch writes.
RecoverAgent(j, r, l) ==
    /\ Bound(j, r, l)
    /\ tool[j] = "agent"
    /\ status[j] = "RUNNING"
    /\ RenewIfLapsed(j)
    /\ SetStatus(j, "DISPATCHED")
    /\ KeepRow
    /\ KeepLog
    /\ UNCHANGED approved

-----------------------------------------------------------------------------
Transitions ==
    [NEW           |-> {"PLANNING", "CANCELLED"},
     PLANNING      |-> {"WAIT_APPROVAL", "DISPATCHED", "FAILED", "CANCELLED"},
     WAIT_APPROVAL |-> {"DISPATCHED", "RUNNING", "CANCELLED"},
     DISPATCHED    |-> {"RUNNING", "UNKNOWN", "CANCELLED"},
     RUNNING       |-> {"WAIT_APPROVAL", "WAIT_USER", "SUCCEEDED", "FAILED",
                        "CANCELLED", "UNKNOWN", "RECONCILING"},
     WAIT_USER     |-> {"RUNNING", "CANCELLED", "UNKNOWN"},
     UNKNOWN       |-> {"RECONCILING", "CANCELLED"},
     RECONCILING   |-> {"RUNNING", "SUCCEEDED", "FAILED", "CANCELLED", "UNKNOWN"},
     SUCCEEDED     |-> {},
     FAILED        |-> {},
     CANCELLED     |-> {}]

\* Faulty variant: a gap is let through.
AnyLaterSequence(j, seq) == seq > lastSequence[j]

NextInSequence(j, seq) == seq = lastSequence[j] + 1

(***************************************************************************)
(* A replayed sequence number is answered from the log (duplicate) or      *)
(* refused (conflict), a gap is refused: only the next number is recorded. *)
(* An event without state is recorded whatever the status of the job.      *)
(***************************************************************************)
AcceptEvent(j, r, l, seq, body) ==
    /\ Bound(j, r, l)
    /\ LeaseHonoured(j)
    /\ NextInSequence(j, seq)
    /\ Len(events[j]) < MaxEvents
    /\ events' = [events EXCEPT ![j] =
                    Append(@, [sequence |-> seq, lease |-> l, body |-> body])]
    /\ lastSequence' = [lastSequence EXCEPT ![j] = seq]
    /\ \/ /\ body \in Notes
          /\ UNCHANGED status
       \/ /\ body \in Transitions[status[j]]
          /\ SetStatus(j, body)
    /\ KeepLease
    /\ KeepRow
    /\ UNCHANGED approved

\* assertActiveLease: artifact uploads, tool calls and model access ask for it.
ActiveLease(j, r, l) ==
    /\ Bound(j, r, l)
    /\ LeaseHonoured(j)
    /\ status[j] \notin Terminal

\* Faulty variant: a terminal job is reconciled too.
AnyState == States

Reconcilable == {"RUNNING", "DISPATCHED"}

Reconcile(j, r, l) ==
    /\ Bound(j, r, l)
    /\ LeaseHonoured(j)
    /\ status[j] \in Reconcilable
    /\ SetStatus(j, "RECONCILING")
    /\ KeepLease
    /\ KeepRow
    /\ KeepLog
    /\ UNCHANGED approved

\* Faulty variant: a terminal job can be stopped.
StoppableAnyState == States

Stoppable == Active

Cancel(j) ==
    /\ status[j] \in Stoppable
    /\ SetStatus(j, "CANCELLED")
    /\ KeepLease
    /\ KeepRow
    /\ KeepLog
    /\ UNCHANGED approved

-----------------------------------------------------------------------------
Leased(j, r, l) ==
    \/ WaitForToolApproval(j, r, l)
    \/ DispatchAfterToolApproval(j, r, l)
    \/ RedispatchAfterDeniedToolCall(j, r, l)
    \/ RecoverAgent(j, r, l)
    \/ Reconcile(j, r, l)
    \/ \E seq \in 0..MaxEvents, body \in Bodies : AcceptEvent(j, r, l, seq, body)

Next ==
    \/ Tick
    \/ \E j \in Jobs :
        \/ Approve(j)
        \/ Cancel(j)
        \/ \E r \in Runners :
            \/ \E t \in Tools : Create(j, r, t)
            \/ Pull(r, j)
            \/ \E l \in 1..MaxLease : Leased(j, r, l)

Spec == Init /\ [][Next]_vars

-----------------------------------------------------------------------------
(***************************************************************************)
(* Only a job waiting for its first approval, or cancelled while it did,   *)
(* is without a signed spec (pull relies on it: "Dispatched job has no     *)
(* signed spec").                                                          *)
(***************************************************************************)
SignedBeforeWork ==
    \A j \in Jobs :
        status[j] \in States \ {"WAIT_APPROVAL", "CANCELLED"} => lease[j] > 0

(***************************************************************************)
(* No spec is signed, and so nothing is ever reported, for an R1 job the   *)
(* Owner has not approved.                                                 *)
(***************************************************************************)
OwnerGate ==
    \A j \in Jobs :
        lease[j] > 0 \/ events[j] # <<>> => tool[j] = "agent" \/ approved[j]

(***************************************************************************)
(* Success and failure are what the Runner reported last, and an outcome   *)
(* in the log is the outcome of the job whatever the Hub, the Owner or the *)
(* Runner does later.                                                      *)
(***************************************************************************)
OutcomeIsEvidenced ==
    \A j \in Jobs :
        /\ status[j] \in {"SUCCEEDED", "FAILED"} =>
             \E i \in DOMAIN events[j] :
                /\ events[j][i].body = status[j]
                /\ \A k \in DOMAIN events[j] : k > i => events[j][k].body \in Notes
        /\ \A i \in DOMAIN events[j] :
             events[j][i].body \in Terminal => status[j] = events[j][i].body

(***************************************************************************)
(* A terminal job stays as it ended: no operation moves its status or      *)
(* signs it another spec.                                                  *)
(***************************************************************************)
TerminalIsFinal ==
    [][\A j \in Jobs : status[j] \in Terminal =>
            status'[j] = status[j] /\ lease'[j] = lease[j]]_vars

(***************************************************************************)
(* A lease that still runs is not replaced behind the Runner holding it:   *)
(* except where the Owner approves a professional job again, a new spec is *)
(* signed only once the old lease reached its expiry.                      *)
(***************************************************************************)
NoLiveLeaseReplaced ==
    [][\A j \in Jobs : lease[j] > 0 /\ lease'[j] # lease[j] =>
            \/ LeaseLapsed(j)
            \/ Risk(tool[j]) = "R1" /\ status[j] = "WAIT_APPROVAL"]_vars

(***************************************************************************)
(* The registry implements the leased log: status, hold and renewal are    *)
(* the detail, leases, reports and closing are what the Hub promises.      *)
(***************************************************************************)
Lifecycle == INSTANCE LeasedLog WITH
    epoch <- lease, log <- events,
    closed <- [j \in Jobs |-> status[j] \in Terminal],
    Progress <- Active, Outcomes <- Terminal

ImplementsLeasedLog == Lifecycle!Spec

(***************************************************************************)
(* No report of a superseded lease is recorded after one of its successor. *)
(***************************************************************************)
Fenced == Lifecycle!Fenced
=============================================================================
