------------------------------ MODULE HubState ------------------------------
(***************************************************************************)
(* The Hub's event log and the state it is replayed into: SqliteEventStore *)
(* (sqlite-event-store.ts), FridayState (state.ts) and the routes of       *)
(* server.ts that append to the log under the mutation barrier.  A request *)
(* is checked against the state in memory, its event is committed, then    *)
(* applied; the process may end in between, and the client sends the       *)
(* request again.                                                          *)
(*                                                                         *)
(* A request stands for a message or a Runner envelope that its route's    *)
(* schema let pass, and so would the parsers of apply: its id, what it is  *)
(* ("message", "register", "heartbeat"), whose it is and when it was sent, *)
(* which is all the log and the state tell apart.  The events other routes *)
(* append carry a type only.                                               *)
(***************************************************************************)
EXTENDS Naturals, Sequences, SequencesExt

CONSTANTS
    Requests,       \* what clients may send, each any number of times: [id, what, from, sent]
    AuditTypes,     \* types of the events that routes append beside the requests
    Legacy,         \* the events of the JSONL store of an earlier version
    Pids,           \* process ids
    MaxEvents, MaxHubFaults

\* What apply lets pass besides the requests (state.ts l.166-174).
SupportedAudits ==
    {"channel.inbound", "runner.enrollment.requested", "runner.enrollment.issued",
     "runner.install-command.issued", "runner.revocation.requested", "runner.revocation.rejected",
     "runner.revoked"}
Replayed == {"message", "register", "heartbeat"} \cup SupportedAudits

\* An event as the store keeps it; a request is stored as it came.
Events == [id : Nat, what : Replayed \cup AuditTypes, from : Nat, sent : Nat]

ASSUME HubAssumption ==
    /\ MaxEvents \in Nat /\ MaxHubFaults \in Nat
    /\ Requests \subseteq Events /\ AuditTypes \cap {"message", "register", "heartbeat"} = {}
    /\ 0 \notin Pids /\ Legacy \in Seq(Events) /\ Len(Legacy) < MaxEvents

VARIABLES
    phase,      \* "down", "locked", "opened" or "up"
    hubPid,     \* process id of the running Hub, 0 when there is none
    lockRow,    \* pid in instance_lock, 0 when there is no row
    disk,       \* table events
    memory,     \* FridayState
    applying,   \* the last event is committed and not yet applied
    unhealthy,  \* #unhealthyReason
    refusal,    \* why the last start failed
    hubFaults

hubVars == <<phase, hubPid, lockRow, disk, memory, applying, unhealthy, refusal, hubFaults>>

EmptyState == [valid |-> TRUE, known |-> {}, sentAt |-> [r \in {} |-> 0]]
Invalid == [EmptyState EXCEPT !.valid = FALSE]

Registered(state, r) == r \in DOMAIN state.sentAt
SetSentAt(state, q) ==
    [state EXCEPT !.known = @ \cup {q},
                  !.sentAt = [r \in DOMAIN @ \cup {q.from} |-> IF r = q.from THEN q.sent ELSE @[r]]]
\* Messages and envelopes have their ids in two maps.
SameId(state, q) == {k \in state.known : k.id = q.id /\ (k.what = "message" <=> q.what = "message")}

\* FridayState.apply; an exception makes the state invalid.
ApplyMessage(state, q) ==
    IF SameId(state, q) # {} THEN Invalid ELSE [state EXCEPT !.known = @ \cup {q}]

ApplyEnvelope(state, q) ==
    IF SameId(state, q) # {} THEN (IF q \in state.known THEN state ELSE Invalid)
    ELSE IF q.what = "register" THEN SetSentAt(state, q)
    ELSE IF Registered(state, q.from) /\ q.sent >= state.sentAt[q.from] THEN SetSentAt(state, q)
    ELSE Invalid

ApplyEvent(state, e) ==
    IF ~state.valid THEN Invalid
    ELSE IF e.what = "message" THEN ApplyMessage(state, e)
    ELSE IF e.what \in {"register", "heartbeat"} THEN ApplyEnvelope(state, e)
    ELSE IF e.what \in SupportedAudits THEN state ELSE Invalid

Rehydrate(events) ==
    LET state[n \in 0..Len(events)] == IF n = 0 THEN EmptyState ELSE ApplyEvent(state[n - 1], events[n])
    IN state[Len(events)]

\* What the log would replay to if apply let every type it does not know pass.
AuditEvent(type) == [id |-> 0, what |-> type, from |-> 0, sent |-> 0]
UnknownPassed(events) ==
    [i \in DOMAIN events |-> IF events[i].what \in Replayed THEN events[i] ELSE AuditEvent("channel.inbound")]
ReadableState(events) == Rehydrate(UnknownPassed(events))

HubTypeOK ==
    /\ phase \in {"down", "locked", "opened", "up"} /\ hubPid \in Pids \cup {0}
    /\ lockRow \in Pids \cup {0} /\ applying \in BOOLEAN /\ unhealthy \in BOOLEAN
    /\ Len(disk) <= MaxEvents /\ refusal \in {"none", "locked", "invalid"}
    /\ hubPid = 0 <=> phase = "down"

HubInit ==
    /\ phase = "down" /\ hubPid = 0 /\ lockRow = 0 /\ disk = <<>> /\ memory = EmptyState
    /\ applying = FALSE /\ unhealthy = FALSE /\ refusal = "none" /\ hubFaults = 0

HubFault == hubFaults < MaxHubFaults /\ hubFaults' = hubFaults + 1

\* process.kill(pid, 0) in #acquireInstanceLock finds any process with the id of the row: another
\* one that got the id since, or the starting one itself.
PidLives(pid, alive) == pid \in alive

StartHub(self, alive) ==
    /\ phase = "down" /\ self \in alive
    /\ IF lockRow # 0 /\ PidLives(lockRow, alive)
       THEN refusal' = "locked" /\ UNCHANGED <<phase, hubPid, lockRow>>
       ELSE /\ phase' = "locked" /\ hubPid' = self /\ lockRow' = self
            /\ refusal' = "none"
    /\ unhealthy' = FALSE
    /\ UNCHANGED <<disk, memory, applying, hubFaults>>

\* The events of the JSONL store are taken over, once, in one transaction.
MigrateLegacy ==
    /\ phase = "locked"
    /\ phase' = "opened" /\ disk' = IF disk = <<>> THEN Legacy ELSE disk
    /\ UNCHANGED <<hubPid, lockRow, memory, applying, unhealthy, refusal, hubFaults>>

\* state.rehydrate(store.list()); a failure closes the store and ends the process.
RehydrateState ==
    /\ phase = "opened"
    /\ IF Rehydrate(disk).valid
       THEN memory' = Rehydrate(disk) /\ phase' = "up" /\ UNCHANGED <<hubPid, lockRow, refusal>>
       ELSE /\ phase' = "down" /\ hubPid' = 0 /\ lockRow' = 0 /\ refusal' = "invalid"
            /\ UNCHANGED memory
    /\ UNCHANGED <<disk, applying, unhealthy, hubFaults>>

Ready == phase = "up" /\ ~applying /\ ~unhealthy /\ Len(disk) < MaxEvents

\* The transaction commits, or it fails and the store takes no event any more.
Commit(e, onward) ==
    \/ disk' = Append(disk, e) /\ applying' = onward /\ UNCHANGED <<unhealthy, hubFaults>>
    \/ unhealthy' = TRUE /\ HubFault /\ UNCHANGED <<disk, applying>>

\* The barrier and the rest of the three routes: a known id is answered as duplicate or
\* conflict, and a new request is committed.
AppendRequest(q) ==
    /\ Ready /\ SameId(memory, q) = {}
    /\ Commit(q, TRUE)
    /\ UNCHANGED <<phase, hubPid, lockRow, memory, refusal>>

AcceptMessage(q) == q.what = "message" /\ AppendRequest(q)
AcceptRegistration(q) == q.what = "register" /\ AppendRequest(q)

\* Faulty variant: a heartbeat older than the last one is taken.
HeartbeatAnySentAt(q) == Registered(memory, q.from)

\* A heartbeat needs a registration and may not be older than what was accepted last.
HeartbeatAcceptable(q) == Registered(memory, q.from) /\ q.sent >= memory.sentAt[q.from]
AcceptHeartbeat(q) == q.what = "heartbeat" /\ HeartbeatAcceptable(q) /\ AppendRequest(q)

ApplyLive ==
    /\ phase = "up" /\ applying
    /\ memory' = ApplyEvent(memory, Last(disk)) /\ applying' = FALSE
    /\ UNCHANGED <<phase, hubPid, lockRow, disk, unhealthy, refusal, hubFaults>>

\* The other routes append their event and keep nothing of it in memory.
AppendAudit(type) ==
    /\ Ready
    /\ Commit(AuditEvent(type), FALSE)
    /\ UNCHANGED <<phase, hubPid, lockRow, memory, refusal>>

Ended == phase' = "down" /\ hubPid' = 0 /\ memory' = EmptyState /\ applying' = FALSE

CrashHub ==
    /\ phase # "down" /\ HubFault /\ Ended
    /\ UNCHANGED <<lockRow, disk, unhealthy, refusal>>

StopHub ==
    /\ phase = "up" /\ ~applying /\ Ended
    /\ lockRow' = 0
    /\ UNCHANGED <<disk, unhealthy, refusal, hubFaults>>

HubNext ==
    \/ \E self \in Pids, alive \in SUBSET Pids : StartHub(self, alive)
    \/ MigrateLegacy \/ RehydrateState \/ ApplyLive \/ CrashHub \/ StopHub
    \/ \E q \in Requests : AcceptMessage(q) \/ AcceptRegistration(q) \/ AcceptHeartbeat(q)
    \/ \E type \in AuditTypes : AppendAudit(type)

HubSpec == HubInit /\ [][HubNext]_hubVars

\* The running Hub has in memory, and has told its clients, what its log replays to, from the
\* events of an earlier version on; and the log stays readable but for events of a type apply
\* does not know, so that nothing else keeps a Hub that has read the earlier version's log
\* from reading its own (server.ts l.629, l.2326-2480).
LogReplays ==
    /\ phase = "up" => memory = ReadableState(IF applying THEN Front(disk) ELSE disk)
    /\ disk # <<>> => IsPrefix(Legacy, disk)
    /\ ReadableState(Legacy).valid =>
         /\ ReadableState(disk).valid
         /\ refusal = "invalid" => \E i \in DOMAIN disk : disk[i].what \notin Replayed

\* The Hub reads its events back after a restart (docs/architecture.md l.312); an event of a
\* type that apply does not know ends the start (state.ts l.175).
LogIsReadable == refusal # "invalid"
=============================================================================
