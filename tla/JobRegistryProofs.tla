-------------------------- MODULE JobRegistryProofs --------------------------
(***************************************************************************)
(* What JobRegistry guarantees for any set of jobs and runners, any lease  *)
(* term and any bounds.                                                    *)
(***************************************************************************)
EXTENDS JobRegistry, SequenceTheorems, TLAPS

\* The table of transition(): every target is a state, a terminal row is empty.
LEMMA TransitionTable ==
    ASSUME NEW s \in States
    PROVE  /\ Transitions[s] \subseteq States
           /\ s \in Terminal => Transitions[s] = {}
  BY DEF Transitions, States, Active, Terminal

\* An appended log: its type, length and entries.
LEMMA AppendFacts ==
    ASSUME NEW S, NEW s \in Seq(S), NEW e \in S
    PROVE  /\ Append(s, e) \in Seq(S)
           /\ Len(s) \in Nat
           /\ DOMAIN s = 1..Len(s)
           /\ Len(Append(s, e)) = Len(s) + 1
           /\ DOMAIN Append(s, e) = 1..(Len(s) + 1)
           /\ \A i \in 1..Len(s) : Append(s, e)[i] = s[i]
           /\ Append(s, e)[Len(s) + 1] = e
  BY AppendProperties, LenProperties

(***************************************************************************)
(* Signing and renewing keep the types of lease and ttl.                   *)
(***************************************************************************)
LEMMA SignSpecType ==
    ASSUME TypeOK, NEW j \in Jobs, SignSpec(j)
    PROVE  /\ lease' \in [Jobs -> 0..MaxLease]
           /\ ttl' \in [Jobs -> -1..LeaseTicks]
  BY LeaseTicksAssumption, BoundsAssumption DEF TypeOK, SignSpec

LEMMA KeepLeaseType ==
    ASSUME TypeOK, KeepLease
    PROVE  /\ lease' \in [Jobs -> 0..MaxLease]
           /\ ttl' \in [Jobs -> -1..LeaseTicks]
  BY DEF TypeOK, KeepLease

-----------------------------------------------------------------------------
(***************************************************************************)
(* Type correctness: every operation of the registry, on any row, leaves   *)
(* the tables well formed.                                                 *)
(***************************************************************************)
LEMMA InitType == Init => TypeOK
  BY LeaseTicksAssumption, BoundsAssumption DEF Init, TypeOK

LEMMA AcceptEventType ==
    ASSUME TypeOK, NEW j \in Jobs, NEW r \in Runners, NEW l \in 1..MaxLease,
           NEW seq \in 0..MaxEvents, NEW body \in Bodies, status[j] # "ABSENT",
           AcceptEvent(j, r, l, seq, body)
    PROVE  TypeOK'
  <1> DEFINE e == [sequence |-> seq, lease |-> l, body |-> body]
  <1>1. e \in Event
    BY BoundsAssumption DEF Event
  <1>2. events[j] \in Seq(Event)
    BY DEF TypeOK
  <1>3. Append(events[j], e) \in Seq(Event)
    BY <1>1, <1>2, AppendFacts
  <1>4. events' \in [Jobs -> Seq(Event)]
    BY <1>3 DEF TypeOK, AcceptEvent
  <1>5. lastSequence' \in [Jobs -> Int]
    BY BoundsAssumption DEF TypeOK, AcceptEvent
  <1>6. status' \in [Jobs -> States \cup {"ABSENT"}]
    BY TransitionTable DEF TypeOK, AcceptEvent, SetStatus
  <1>7. lease' \in [Jobs -> 0..MaxLease] /\ ttl' \in [Jobs -> -1..LeaseTicks]
    BY KeepLeaseType DEF AcceptEvent
  <1>8. QED
    BY <1>4, <1>5, <1>6, <1>7 DEF TypeOK, AcceptEvent, KeepRow

-----------------------------------------------------------------------------
(***************************************************************************)
(* The inductive invariant.  Types alone are not inductive: that an event  *)
(* leads to a state of the table needs the job to have a row, which its    *)
(* lease implies.  Outcomes and fencing need the log to be as long as      *)
(* lastSequence says.                                                      *)
(***************************************************************************)
RowInv(j) ==
    /\ status[j] = "ABSENT" => tool[j] = "ABSENT" /\ lease[j] = 0
    /\ lease[j] = 0 => events[j] = <<>>
    /\ tool[j] = "agent" => lease[j] > 0
    /\ lastSequence[j] = Len(events[j]) - 1

RowsInv == \A j \in Jobs : RowInv(j)

Gates == SignedBeforeWork /\ OwnerGate

IInv == TypeOK /\ RowsInv /\ Gates /\ OutcomeIsEvidenced /\ Fenced

(***************************************************************************)
(* What any operation but AcceptEvent may do to a job: nothing to its log, *)
(* at most one new lease, and a new status only if it was not terminal.    *)
(***************************************************************************)
Quiet(j) ==
    /\ events'[j] = events[j]
    /\ lastSequence'[j] = lastSequence[j]
    /\ lease'[j] \in {lease[j], lease[j] + 1}
    /\ \/ status'[j] = status[j] /\ (status[j] \in Terminal => lease'[j] = lease[j])
       \/ /\ status[j] \notin Terminal
          /\ status'[j] \in {"WAIT_APPROVAL", "DISPATCHED", "RECONCILING", "CANCELLED"}
          /\ status'[j] = "CANCELLED" => lease'[j] = lease[j]

QuietStep == TypeOK' /\ RowsInv' /\ Gates' /\ \A j \in Jobs : Quiet(j)

LEMMA TickQuiet ==
    ASSUME TypeOK, RowsInv, Gates, Tick
    PROVE  QuietStep
  BY LeaseTicksAssumption
  DEF TypeOK, RowsInv, RowInv, Gates, SignedBeforeWork, OwnerGate, Tick, QuietStep, Quiet

LEMMA CreateQuiet ==
    ASSUME TypeOK, RowsInv, Gates, NEW j \in Jobs, NEW r \in Runners, NEW t \in Tools,
           Create(j, r, t)
    PROVE  QuietStep
  <1>1. TypeOK'
    <2>1. rows' \in Seq(Jobs)
      BY AppendFacts DEF TypeOK, Create
    <2>2. lease' \in [Jobs -> 0..MaxLease] /\ ttl' \in [Jobs -> -1..LeaseTicks]
      BY SignSpecType, KeepLeaseType DEF Create
    <2>3. QED
      BY <2>1, <2>2
      DEF TypeOK, Create, SetStatus, InitialStatus, States, Active, Tools, KeepLog
  <1>2. RowsInv' /\ Gates'
    BY BoundsAssumption
    DEF TypeOK, RowsInv, RowInv, Gates, SignedBeforeWork, OwnerGate, Create, SetStatus,
        SignSpec, KeepLease, KeepLog, InitialStatus, Risk, States, Tools
  <1>3. \A k \in Jobs : Quiet(k)
    <2>1. \A k \in Jobs : k # j => status'[k] = status[k] /\ lease'[k] = lease[k]
      BY DEF TypeOK, Create, SetStatus, SignSpec, KeepLease
    <2>2. status[j] = "ABSENT" /\ status'[j] \in {"DISPATCHED", "WAIT_APPROVAL"}
      BY DEF TypeOK, Create, SetStatus, InitialStatus
    <2>3. lease'[j] \in {lease[j], lease[j] + 1}
      BY DEF TypeOK, Create, SignSpec, KeepLease
    <2>4. events' = events /\ lastSequence' = lastSequence
      BY DEF Create, KeepLog
    <2>5. QED
      BY <2>1, <2>2, <2>3, <2>4 DEF Quiet, Terminal
  <1>4. QED
    BY <1>1, <1>2, <1>3 DEF QuietStep

LEMMA ApproveQuiet ==
    ASSUME TypeOK, RowsInv, Gates, NEW j \in Jobs, Approve(j)
    PROVE  QuietStep
  <1>1. TypeOK'
    BY SignSpecType DEF TypeOK, Approve, SetStatus, States, Active, KeepRow, KeepLog
  <1>2. RowsInv' /\ Gates'
    BY BoundsAssumption
    DEF TypeOK, RowsInv, RowInv, Gates, SignedBeforeWork, OwnerGate, Approve, SetStatus,
        SignSpec, KeepRow, KeepLog, States
  <1>3. \A k \in Jobs : Quiet(k)
    BY DEF TypeOK, Approve, SetStatus, SignSpec, KeepRow, KeepLog, Terminal, Quiet
  <1>4. QED
    BY <1>1, <1>2, <1>3 DEF QuietStep

(***************************************************************************)
(* The operations that move a row with a spec and keep or renew its lease. *)
(***************************************************************************)
LEMMA MoveQuiet ==
    ASSUME TypeOK, RowsInv, Gates, NEW j \in Jobs,
           NEW s \in {"WAIT_APPROVAL", "DISPATCHED", "RECONCILING", "CANCELLED"},
           SetStatus(j, s), KeepLease \/ SignSpec(j), KeepRow, KeepLog, UNCHANGED approved,
           status[j] \in Active, s # "CANCELLED" => lease[j] > 0,
           s = "CANCELLED" => KeepLease
    PROVE  QuietStep
  <1>1. TypeOK'
    BY SignSpecType, KeepLeaseType
    DEF TypeOK, SetStatus, States, Active, Terminal, KeepRow, KeepLog
  <1>2. RowsInv' /\ Gates'
    <2>1. \A k \in Jobs : lease'[k] \in Nat /\ (lease[k] > 0 => lease'[k] > 0)
      BY BoundsAssumption DEF TypeOK, KeepLease, SignSpec
    <2>2. \A k \in Jobs : k # j => lease'[k] = lease[k] /\ status'[k] = status[k]
      BY DEF TypeOK, KeepLease, SignSpec, SetStatus
    <2>3. status'[j] = s
      BY DEF TypeOK, SetStatus
    <2>4. s = "CANCELLED" => lease'[j] = lease[j]
      BY DEF KeepLease
    <2>5. lease[j] \in Nat /\ \A k \in Jobs : lease[k] \in Nat
      BY BoundsAssumption DEF TypeOK
    <2>6. RowsInv'
      BY <2>1, <2>2, <2>3, <2>4, <2>5 DEF RowsInv, RowInv, KeepRow, KeepLog, Active
    <2>7. SignedBeforeWork'
      BY <2>1, <2>2, <2>3, <2>5 DEF Gates, SignedBeforeWork
    <2>8. OwnerGate'
      BY <2>1, <2>2, <2>4, <2>5 DEF Gates, OwnerGate, KeepRow, KeepLog
    <2>9. QED
      BY <2>6, <2>7, <2>8 DEF Gates
  <1>3. \A k \in Jobs : Quiet(k)
    BY DEF TypeOK, SetStatus, SignSpec, KeepLease, KeepRow, KeepLog, Active, Terminal, Quiet
  <1>4. QED
    BY <1>1, <1>2, <1>3 DEF QuietStep

LEMMA PullQuiet ==
    ASSUME TypeOK, RowsInv, Gates, NEW j \in Jobs, NEW r \in Runners, Pull(r, j)
    PROVE  QuietStep
  <1>1. TypeOK'
    BY SignSpecType DEF TypeOK, Pull, KeepRow, KeepLog
  <1>2. RowsInv' /\ Gates'
    BY BoundsAssumption
    DEF TypeOK, RowsInv, RowInv, Gates, SignedBeforeWork, OwnerGate, Pull,
        SignSpec, KeepRow, KeepLog
  <1>3. \A k \in Jobs : Quiet(k)
    BY DEF TypeOK, Pull, IsOldestDispatched, Dispatched, SignSpec, KeepLog, Terminal, Quiet
  <1>4. QED
    BY <1>1, <1>2, <1>3 DEF QuietStep

LEMMA CancelQuiet ==
    ASSUME TypeOK, RowsInv, Gates, NEW j \in Jobs, Cancel(j)
    PROVE  QuietStep
  BY MoveQuiet DEF Cancel, Stoppable

LEMMA LeasedQuiet ==
    ASSUME TypeOK, RowsInv, Gates, NEW j \in Jobs, NEW r \in Runners, NEW l \in 1..MaxLease,
           \/ WaitForToolApproval(j, r, l)
           \/ DispatchAfterToolApproval(j, r, l)
           \/ RedispatchAfterDeniedToolCall(j, r, l)
           \/ RecoverAgent(j, r, l)
           \/ Reconcile(j, r, l)
    PROVE  QuietStep
  <1>1. lease[j] > 0
    BY DEF WaitForToolApproval, CanHold, DispatchAfterToolApproval,
           RedispatchAfterDeniedToolCall, HeldForTool, RecoverAgent, Reconcile, Bound
  <1>2. status[j] \in Active
    BY DEF WaitForToolApproval, CanHold, DispatchAfterToolApproval,
           RedispatchAfterDeniedToolCall, HeldForTool, RecoverAgent, Reconcile,
           Reconcilable, Active
  <1>3. KeepLease \/ SignSpec(j)
    BY DEF WaitForToolApproval, DispatchAfterToolApproval,
           RedispatchAfterDeniedToolCall, RecoverAgent, RenewIfLapsed, Reconcile
  <1>4. KeepRow /\ KeepLog /\ UNCHANGED approved
    BY DEF WaitForToolApproval, DispatchAfterToolApproval,
           RedispatchAfterDeniedToolCall, RecoverAgent, Reconcile
  <1>5. \E s \in {"WAIT_APPROVAL", "DISPATCHED", "RECONCILING"} : SetStatus(j, s)
    BY DEF WaitForToolApproval, DispatchAfterToolApproval,
           RedispatchAfterDeniedToolCall, RecoverAgent, Reconcile
  <1>6. PICK s \in {"WAIT_APPROVAL", "DISPATCHED", "RECONCILING"} : SetStatus(j, s)
    BY <1>5
  <1>7. QED
    BY <1>1, <1>2, <1>3, <1>4, <1>6, MoveQuiet

(***************************************************************************)
(* A quiet step keeps what the log says of the outcome and of the leases.  *)
(***************************************************************************)
LEMMA QuietKeepsLog ==
    ASSUME IInv, QuietStep
    PROVE  OutcomeIsEvidenced' /\ Fenced'
  <1>1. \A k \in Jobs : Quiet(k)
    BY DEF QuietStep
  <1>2. OutcomeIsEvidenced'
    BY <1>1 DEF IInv, OutcomeIsEvidenced, Quiet, Terminal
  <1>3. \A k \in Jobs : lease[k] \in Nat /\ lease'[k] \in Nat /\ lease[k] <= lease'[k]
    <2>1. \A k \in Jobs : lease[k] \in Nat
      BY BoundsAssumption DEF IInv, TypeOK
    <2>2. \A k \in Jobs : lease'[k] = lease[k] \/ lease'[k] = lease[k] + 1
      BY <1>1 DEF Quiet
    <2>3. QED
      BY <2>1, <2>2
  <1>4. Fenced'
    BY <1>1, <1>3 DEF IInv, Fenced, Lifecycle!Fenced, Quiet
  <1>5. QED
    BY <1>2, <1>4

-----------------------------------------------------------------------------
(***************************************************************************)
(* The one operation that writes the log.                                  *)
(***************************************************************************)
LEMMA AcceptEventInv ==
    ASSUME IInv, NEW j \in Jobs, NEW r \in Runners, NEW l \in 1..MaxLease,
           NEW seq \in 0..MaxEvents, NEW body \in Bodies,
           AcceptEvent(j, r, l, seq, body)
    PROVE  IInv'
  <1> DEFINE e == [sequence |-> seq, lease |-> l, body |-> body]
             s == events[j]
  <1>1. lease[j] = l /\ l > 0 /\ l \in Nat
    BY BoundsAssumption DEF AcceptEvent, Bound
  <1>2. status[j] \in States
    BY <1>1 DEF IInv, RowsInv, RowInv, TypeOK
  <1>3. TypeOK'
    BY <1>2, AcceptEventType DEF IInv, States, Active, Terminal
  <1>4. e \in Event /\ s \in Seq(Event)
    <2>1. seq \in Nat
      BY BoundsAssumption
    <2>2. e \in Event
      BY <2>1, <1>1 DEF Event
    <2>3. s \in Seq(Event)
      BY DEF IInv, TypeOK
    <2>4. QED
      BY <2>2, <2>3
  <1>5. /\ events'[j] = Append(s, e)
        /\ \A k \in Jobs : k # j => events'[k] = events[k]
    BY DEF IInv, TypeOK, AcceptEvent
  <1>6. /\ Len(s) \in Nat
        /\ DOMAIN s = 1..Len(s)
        /\ Len(events'[j]) = Len(s) + 1
        /\ DOMAIN events'[j] = 1..(Len(s) + 1)
        /\ \A i \in 1..Len(s) : events'[j][i] = s[i]
        /\ events'[j][Len(s) + 1] = e
    BY <1>4, <1>5, AppendFacts
  <1>7. \/ body \in Notes /\ status' = status
        \/ /\ body \in States
           /\ status[j] \notin Terminal
           /\ status' = [status EXCEPT ![j] = body]
    BY <1>2, TransitionTable DEF AcceptEvent, SetStatus
  <1>8. lease' = lease /\ tool' = tool /\ approved' = approved
    BY DEF AcceptEvent, KeepLease, KeepRow
  <1>9. RowsInv'
    <2>1. lastSequence'[j] = Len(events'[j]) - 1
      BY <1>6 DEF IInv, RowsInv, RowInv, TypeOK, AcceptEvent, NextInSequence
    <2>2. \A k \in Jobs : k # j => lastSequence'[k] = lastSequence[k]
      BY DEF IInv, TypeOK, AcceptEvent
    <2>3. \A k \in Jobs : status'[k] = "ABSENT" => status[k] = "ABSENT"
      BY <1>7, <1>2 DEF IInv, TypeOK, States, Active, Terminal
    <2>4. QED
      BY <1>1, <1>5, <1>8, <2>1, <2>2, <2>3 DEF IInv, RowsInv, RowInv
  <1>10. Gates'
    BY <1>1, <1>5, <1>7, <1>8 DEF IInv, Gates, SignedBeforeWork, OwnerGate, TypeOK
  <1>11. OutcomeIsEvidenced'
    <2>1. \A k \in Jobs : k # j => status'[k] = status[k]
      BY <1>7 DEF IInv, TypeOK
    <2>2. status'[j] \in {"SUCCEEDED", "FAILED"} =>
             \E i \in DOMAIN events'[j] :
                /\ events'[j][i].body = status'[j]
                /\ \A k \in DOMAIN events'[j] : k > i => events'[j][k].body \in Notes
      <3>1. CASE body \in Notes /\ status' = status
        <4>1. SUFFICES ASSUME status[j] \in {"SUCCEEDED", "FAILED"}
                       PROVE  \E i \in DOMAIN events'[j] :
                                /\ events'[j][i].body = status[j]
                                /\ \A k \in DOMAIN events'[j] :
                                     k > i => events'[j][k].body \in Notes
          BY <3>1
        <4>2. PICK i \in 1..Len(s) :
                /\ s[i].body = status[j]
                /\ \A k \in 1..Len(s) : k > i => s[k].body \in Notes
          BY <4>1, <1>6 DEF IInv, OutcomeIsEvidenced
        <4>3. \A k \in 1..(Len(s) + 1) : k \in 1..Len(s) \/ k = Len(s) + 1
          BY <1>6
        <4>4. e.body \in Notes
          BY <3>1
        <4>5. \A k \in 1..(Len(s) + 1) : k > i => events'[j][k].body \in Notes
          BY <4>2, <4>3, <4>4, <1>6
        <4>6. i \in 1..(Len(s) + 1) /\ events'[j][i].body = status[j]
          BY <4>2, <1>6
        <4>7. QED
          BY <4>5, <4>6, <1>6
      <3>2. CASE /\ body \in States
                 /\ status[j] \notin Terminal
                 /\ status' = [status EXCEPT ![j] = body]
        <4>1. events'[j][Len(s) + 1].body = status'[j]
          BY <3>2, <1>6 DEF IInv, TypeOK
        <4>2. \A k \in DOMAIN events'[j] : ~(k > Len(s) + 1)
          BY <1>6
        <4>3. Len(s) + 1 \in DOMAIN events'[j]
          BY <1>6
        <4>4. QED
          BY <4>1, <4>2, <4>3
      <3>3. QED
        BY <3>1, <3>2, <1>7
    <2>3. \A i \in DOMAIN events'[j] :
             events'[j][i].body \in Terminal => status'[j] = events'[j][i].body
      <3>1. \A i \in 1..Len(s) : s[i].body \in Terminal => status[j] = s[i].body
        BY <1>6 DEF IInv, OutcomeIsEvidenced
      <3>2. \A i \in 1..Len(s) : s[i].body \in Terminal => status'[j] = s[i].body
        BY <3>1, <1>7
      <3>3. e.body \in Terminal => status'[j] = e.body
        BY <1>7 DEF IInv, TypeOK, Notes, Terminal
      <3>4. QED
        BY <3>2, <3>3, <1>6
    <2>4. ASSUME NEW m \in Jobs, m # j
          PROVE  /\ status'[m] \in {"SUCCEEDED", "FAILED"} =>
                      \E i \in DOMAIN events'[m] :
                        /\ events'[m][i].body = status'[m]
                        /\ \A k \in DOMAIN events'[m] :
                             k > i => events'[m][k].body \in Notes
                 /\ \A i \in DOMAIN events'[m] :
                      events'[m][i].body \in Terminal => status'[m] = events'[m][i].body
      <3>1. status'[m] = status[m] /\ events'[m] = events[m]
        BY <2>1, <2>4, <1>5
      <3>2. QED
        BY <3>1 DEF IInv, OutcomeIsEvidenced
    <2>5. QED
      BY <2>2, <2>3, <2>4 DEF OutcomeIsEvidenced
  <1>12. Fenced'
    <2>1. /\ \A i \in 1..Len(s) : s[i].lease \in 1..lease[j]
          /\ \A i, k \in 1..Len(s) : i < k => s[i].lease <= s[k].lease
      BY <1>6 DEF IInv, Fenced, Lifecycle!Fenced
    <2>2. e.lease = lease[j]
      BY <1>1
    <2>3. ASSUME NEW i \in DOMAIN events'[j]
          PROVE  events'[j][i].lease \in 1..lease[j]
      <3>1. CASE i \in 1..Len(s)
        BY <3>1, <2>1, <1>6
      <3>2. CASE i = Len(s) + 1
        BY <3>2, <2>2, <1>1, <1>6
      <3>3. QED
        BY <3>1, <3>2, <1>6
    <2>4. ASSUME NEW i \in DOMAIN events'[j], NEW k \in DOMAIN events'[j], i < k
          PROVE  events'[j][i].lease <= events'[j][k].lease
      <3>1. i \in 1..Len(s) /\ events'[j][i] = s[i]
        BY <2>4, <1>6
      <3>2. CASE k \in 1..Len(s)
        BY <3>1, <3>2, <2>1, <2>4, <1>6
      <3>3. CASE k = Len(s) + 1
        <4>1. s[i].lease \in 1..lease[j]
          BY <3>1, <2>1
        <4>2. events'[j][k].lease = lease[j]
          BY <3>3, <2>2, <1>6
        <4>3. QED
          BY <3>1, <4>1, <4>2, <1>1
      <3>4. QED
        BY <3>2, <3>3, <1>6
    <2>5. QED
      BY <2>3, <2>4, <1>5, <1>8 DEF IInv, Fenced, Lifecycle!Fenced
  <1>13. QED
    BY <1>3, <1>9, <1>10, <1>11, <1>12 DEF IInv

-----------------------------------------------------------------------------
(***************************************************************************)
(* Every step is an accepted event, a quiet operation or a stutter.        *)
(***************************************************************************)
EventStep ==
    \E j \in Jobs, r \in Runners, l \in 1..MaxLease, seq \in 0..MaxEvents, body \in Bodies :
        AcceptEvent(j, r, l, seq, body)

LEMMA StepKinds ==
    ASSUME TypeOK, RowsInv, Gates, Next
    PROVE  EventStep \/ QuietStep
  <1>1. CASE Tick
    BY <1>1, TickQuiet
  <1>2. ASSUME NEW j \in Jobs, Approve(j)
        PROVE  QuietStep
    BY <1>2, ApproveQuiet
  <1>3. ASSUME NEW j \in Jobs, Cancel(j)
        PROVE  QuietStep
    BY <1>3, CancelQuiet
  <1>4. ASSUME NEW j \in Jobs, NEW r \in Runners, NEW t \in Tools, Create(j, r, t)
        PROVE  QuietStep
    BY <1>4, CreateQuiet
  <1>5. ASSUME NEW j \in Jobs, NEW r \in Runners, Pull(r, j)
        PROVE  QuietStep
    BY <1>5, PullQuiet
  <1>6. ASSUME NEW j \in Jobs, NEW r \in Runners, NEW l \in 1..MaxLease, Leased(j, r, l)
        PROVE  EventStep \/ QuietStep
    <2>1. CASE \E seq \in 0..MaxEvents, body \in Bodies : AcceptEvent(j, r, l, seq, body)
      BY <2>1 DEF EventStep
    <2>2. CASE \/ WaitForToolApproval(j, r, l)
               \/ DispatchAfterToolApproval(j, r, l)
               \/ RedispatchAfterDeniedToolCall(j, r, l)
               \/ RecoverAgent(j, r, l)
               \/ Reconcile(j, r, l)
      BY <2>2, LeasedQuiet
    <2>3. QED
      BY <1>6, <2>1, <2>2 DEF Leased
  <1>7. QED
    BY <1>1, <1>2, <1>3, <1>4, <1>5, <1>6 DEF Next

LEMMA InitInv == Init => IInv
  BY InitType
  DEF Init, IInv, TypeOK, RowsInv, RowInv, Gates, SignedBeforeWork, OwnerGate,
      OutcomeIsEvidenced, Fenced, Lifecycle!Fenced, States, Active, Terminal

LEMMA StepInv == IInv /\ [Next]_vars => IInv'
  <1> SUFFICES ASSUME IInv, [Next]_vars
               PROVE  IInv'
    OBVIOUS
  <1>1. CASE EventStep
    BY <1>1, AcceptEventInv DEF EventStep
  <1>2. CASE QuietStep
    BY <1>2, QuietKeepsLog DEF QuietStep, IInv
  <1>3. CASE UNCHANGED vars
    BY <1>3
    DEF vars, IInv, TypeOK, RowsInv, RowInv, Gates, SignedBeforeWork, OwnerGate,
        OutcomeIsEvidenced, Fenced, Lifecycle!Fenced
  <1>4. QED
    BY <1>1, <1>2, <1>3, StepKinds DEF IInv

(***************************************************************************)
(* The registry never leaves its inductive invariant.                      *)
(***************************************************************************)
THEOREM Invariance == Spec => []IInv
  BY InitInv, StepInv, PTL DEF Spec

(***************************************************************************)
(* The tables stay well formed.                                            *)
(***************************************************************************)
THEOREM TypeCorrect == Spec => []TypeOK
  <1>1. IInv => TypeOK
    BY DEF IInv
  <1>2. QED
    BY <1>1, Invariance, PTL

(***************************************************************************)
(* No job works without a signed spec, no R1 job has one without the Owner *)
(* having approved it.                                                     *)
(***************************************************************************)
THEOREM GatesHold == Spec => [](SignedBeforeWork /\ OwnerGate)
  <1>1. IInv => SignedBeforeWork /\ OwnerGate
    BY DEF IInv, Gates
  <1>2. QED
    BY <1>1, Invariance, PTL

(***************************************************************************)
(* The status of a finished job is the outcome its Runner reported last.   *)
(***************************************************************************)
THEOREM OutcomesAreEvidenced == Spec => []OutcomeIsEvidenced
  <1>1. IInv => OutcomeIsEvidenced
    BY DEF IInv
  <1>2. QED
    BY <1>1, Invariance, PTL

(***************************************************************************)
(* Reports of superseded leases never follow reports of their successors.  *)
(***************************************************************************)
THEOREM LogIsFenced == Spec => []Fenced
  <1>1. IInv => Fenced
    BY DEF IInv
  <1>2. QED
    BY <1>1, Invariance, PTL

-----------------------------------------------------------------------------
\* What the body of an accepted event does to the status.
Takes(j, body) ==
    \/ body \in Notes /\ status' = status
    \/ /\ body \in States
       /\ status[j] \notin Terminal
       /\ status' = [status EXCEPT ![j] = body]

(***************************************************************************)
(* An accepted event is appended to the log of its job alone, under the    *)
(* job's lease and the next sequence number; it closes an open job exactly *)
(* when it is an outcome, and a closed job takes only notes.               *)
(***************************************************************************)
LEMMA EventFacts ==
    ASSUME IInv, NEW j \in Jobs, NEW r \in Runners, NEW l \in 1..MaxLease,
           NEW seq \in 0..MaxEvents, NEW body \in Bodies,
           AcceptEvent(j, r, l, seq, body)
    PROVE  /\ lease[j] > 0
           /\ lease' = lease
           /\ events' = [events EXCEPT ![j] =
                Append(@, [sequence |-> Len(@), lease |-> lease[j], body |-> body])]
           /\ Takes(j, body)
  <1>1. lease[j] = l /\ l > 0
    BY DEF AcceptEvent, Bound
  <1>2. status[j] \in States
    BY <1>1, BoundsAssumption DEF IInv, RowsInv, RowInv, TypeOK
  <1>3. events[j] \in Seq(Event)
    BY DEF IInv, TypeOK
  <1>4. seq = Len(events[j])
    <2>1. Len(events[j]) \in Nat
      BY <1>3, LenProperties
    <2>2. lastSequence[j] = Len(events[j]) - 1
      BY DEF IInv, RowsInv, RowInv
    <2>3. QED
      BY <2>1, <2>2 DEF AcceptEvent, NextInSequence
  <1>5. events' = [events EXCEPT ![j] =
                Append(@, [sequence |-> Len(@), lease |-> lease[j], body |-> body])]
    BY <1>1, <1>4 DEF AcceptEvent
  <1>6. Takes(j, body)
    BY <1>2, TransitionTable DEF Takes, AcceptEvent, SetStatus
  <1>7. QED
    BY <1>1, <1>5, <1>6 DEF AcceptEvent, KeepLease

-----------------------------------------------------------------------------
\* No step moves a terminal job or signs it another spec.
LEMMA TerminalStep ==
    ASSUME IInv, [Next]_vars
    PROVE  \A j \in Jobs : status[j] \in Terminal =>
                status'[j] = status[j] /\ lease'[j] = lease[j]
  <1>1. CASE EventStep
    <2> PICK j \in Jobs, r \in Runners, l \in 1..MaxLease,
             seq \in 0..MaxEvents, body \in Bodies : AcceptEvent(j, r, l, seq, body)
      BY <1>1 DEF EventStep
    <2>1. lease' = lease
      BY EventFacts
    <2>2. Takes(j, body)
      BY EventFacts
    <2>3. QED
      BY <2>1, <2>2 DEF Takes, IInv, TypeOK
  <1>2. CASE QuietStep
    BY <1>2 DEF QuietStep, Quiet
  <1>3. CASE UNCHANGED vars
    BY <1>3 DEF vars
  <1>4. QED
    BY <1>1, <1>2, <1>3, StepKinds DEF IInv

(***************************************************************************)
(* A terminal job keeps its status and its spec.                           *)
(***************************************************************************)
THEOREM TerminalStaysFinal == Spec => TerminalIsFinal
  <1> DEFINE Final == \A j \in Jobs : status[j] \in Terminal =>
                          status'[j] = status[j] /\ lease'[j] = lease[j]
  <1>1. IInv /\ [Next]_vars => [Final]_vars
    BY TerminalStep
  <1>2. QED
    BY <1>1, Invariance, PTL DEF Spec, TerminalIsFinal

(***************************************************************************)
(* Leases are replaced only at their expiry, or by a second approval of a  *)
(* professional job.                                                       *)
(***************************************************************************)
THEOREM LiveLeasesAreKept == Spec => NoLiveLeaseReplaced
  <1> DEFINE Kept == \A j \in Jobs : lease[j] > 0 /\ lease'[j] # lease[j] =>
                         \/ LeaseLapsed(j)
                         \/ Risk(tool[j]) = "R1" /\ status[j] = "WAIT_APPROVAL"
  <1>1. IInv /\ [Next]_vars => [Kept]_vars
    <2> SUFFICES ASSUME IInv, Next
                 PROVE  Kept
      OBVIOUS
    <2>1. lease \in [Jobs -> 0..MaxLease]
      BY DEF IInv, TypeOK
    <2>2. CASE Tick
      BY <2>2 DEF Tick
    <2>3. ASSUME NEW j \in Jobs, Approve(j)
          PROVE  Kept
      BY <2>1, <2>3 DEF Approve, SignSpec
    <2>4. ASSUME NEW j \in Jobs, Cancel(j)
          PROVE  Kept
      BY <2>4 DEF Cancel, KeepLease
    <2>5. ASSUME NEW j \in Jobs, NEW r \in Runners, NEW t \in Tools, Create(j, r, t)
          PROVE  Kept
      <3>1. lease[j] = 0
        BY <2>5 DEF IInv, RowsInv, RowInv, Create
      <3>2. \A k \in Jobs : k # j => lease'[k] = lease[k]
        BY <2>1, <2>5 DEF Create, SignSpec, KeepLease
      <3>3. QED
        BY <3>1, <3>2
    <2>6. ASSUME NEW j \in Jobs, NEW r \in Runners, Pull(r, j)
          PROVE  Kept
      BY <2>1, <2>6 DEF Pull, SignSpec
    <2>7. ASSUME NEW j \in Jobs, NEW r \in Runners, NEW l \in 1..MaxLease, Leased(j, r, l)
          PROVE  Kept
      <3>1. lease' = lease \/ (LeaseLapsed(j) /\ SignSpec(j))
        BY <2>7
        DEF Leased, WaitForToolApproval, DispatchAfterToolApproval,
            RedispatchAfterDeniedToolCall, RecoverAgent, RenewIfLapsed, Reconcile,
            AcceptEvent, KeepLease
      <3>2. QED
        BY <2>1, <3>1 DEF SignSpec
    <2>8. QED
      BY <2>2, <2>3, <2>4, <2>5, <2>6, <2>7 DEF Next
  <1>2. QED
    BY <1>1, Invariance, PTL DEF Spec, NoLiveLeaseReplaced

-----------------------------------------------------------------------------
(***************************************************************************)
(* The refinement, one lemma for each way a row changes.                   *)
(***************************************************************************)
Closed == [j \in Jobs |-> status[j] \in Terminal]

\* A spec is signed while the job stays open: the abstract lease is issued.
LEMMA SignRefines ==
    ASSUME TypeOK, NEW j \in Jobs, SignSpec(j), events' = events,
           status[j] \notin Terminal, status'[j] \notin Terminal,
           \A k \in Jobs : k # j => status'[k] = status[k]
    PROVE  Lifecycle!Issue(j)
  <1>1. lease' = [lease EXCEPT ![j] = @ + 1]
    BY DEF SignSpec
  <1>2. Closed' = Closed
    BY DEF Closed
  <1>3. ~Closed[j]
    BY DEF Closed
  <1>4. QED
    BY <1>1, <1>2, <1>3 DEF Lifecycle!Issue, Closed

\* Nothing the abstract job can see changes.
LEMMA HiddenRefines ==
    ASSUME lease' = lease, events' = events,
           \A k \in Jobs : (status'[k] \in Terminal) = (status[k] \in Terminal)
    PROVE  UNCHANGED Lifecycle!vars
  BY DEF Lifecycle!vars

\* A row keeps or renews its lease and stays open.
LEMMA MoveRefines ==
    ASSUME TypeOK, NEW j \in Jobs, NEW s \in States \ Terminal, SetStatus(j, s),
           KeepLease \/ SignSpec(j), KeepLog, status[j] \notin Terminal
    PROVE  [Lifecycle!Next]_Lifecycle!vars
  <1>1. /\ status'[j] \notin Terminal
        /\ \A k \in Jobs : k # j => status'[k] = status[k]
    BY DEF TypeOK, SetStatus
  <1>2. CASE KeepLease
    BY <1>1, <1>2, HiddenRefines DEF KeepLease, KeepLog
  <1>3. CASE SignSpec(j)
    BY <1>1, <1>3, SignRefines DEF KeepLog, Lifecycle!Next
  <1>4. QED
    BY <1>2, <1>3

LEMMA EventRefines ==
    ASSUME IInv, EventStep
    PROVE  Lifecycle!Next
  <1> PICK j \in Jobs, r \in Runners, l \in 1..MaxLease,
           seq \in 0..MaxEvents, body \in Bodies : AcceptEvent(j, r, l, seq, body)
    BY DEF EventStep
  <1>1. lease[j] > 0 /\ lease' = lease
    BY EventFacts
  <1>2. Lifecycle!AppendReport(j, body)
    BY EventFacts DEF Lifecycle!AppendReport
  <1>3. CASE body \in Notes /\ status' = status
    <2>1. Lifecycle!ReportNote(j, body)
      BY <1>1, <1>2, <1>3 DEF Lifecycle!ReportNote
    <2>2. QED
      BY <2>1, <1>3 DEF Lifecycle!Next
  <1>4. CASE /\ body \in States
             /\ status[j] \notin Terminal
             /\ status' = [status EXCEPT ![j] = body]
    <2>1. status'[j] = body /\ \A k \in Jobs : k # j => status'[k] = status[k]
      BY <1>4 DEF IInv, TypeOK
    <2>2. CASE body \in Terminal
      <3>1. Closed' = [Closed EXCEPT ![j] = TRUE]
        BY <2>1, <2>2 DEF Closed
      <3>2. Lifecycle!ReportOutcome(j, body)
        BY <1>1, <1>2, <1>4, <2>2, <3>1 DEF Lifecycle!ReportOutcome, Closed
      <3>3. QED
        BY <3>2, <2>2 DEF Lifecycle!Next
    <2>3. CASE body \in Active
      <3>1. Closed' = Closed
        BY <2>1, <2>3, <1>4 DEF Closed, Active, Terminal
      <3>2. Lifecycle!ReportProgress(j, body)
        BY <1>1, <1>2, <1>4, <2>3, <3>1 DEF Lifecycle!ReportProgress, Closed
      <3>3. QED
        BY <3>2, <2>3 DEF Lifecycle!Next
    <2>4. QED
      BY <1>4, <2>2, <2>3 DEF States
  <1>5. Takes(j, body)
    BY EventFacts
  <1>6. QED
    BY <1>3, <1>4, <1>5 DEF Takes

(***************************************************************************)
(* Every step of the registry is a step of the leased log or invisible     *)
(* to it.                                                                  *)
(***************************************************************************)
LEMMA CreateRefines ==
    ASSUME IInv, NEW j \in Jobs, NEW r \in Runners, NEW t \in Tools, Create(j, r, t)
    PROVE  [Lifecycle!Next]_Lifecycle!vars
  <1>1. status[j] \notin Terminal /\ status'[j] \notin Terminal
    BY DEF IInv, TypeOK, Create, SetStatus, InitialStatus, Terminal
  <1>2. \A k \in Jobs : k # j => status'[k] = status[k]
    BY DEF IInv, TypeOK, Create, SetStatus
  <1>3. CASE SignSpec(j)
    BY <1>1, <1>2, <1>3, SignRefines DEF IInv, Create, KeepLog, Lifecycle!Next
  <1>4. CASE KeepLease
    BY <1>1, <1>2, <1>4, HiddenRefines DEF Create, KeepLog, KeepLease
  <1>5. QED
    BY <1>3, <1>4 DEF Create

LEMMA CancelRefines ==
    ASSUME IInv, NEW j \in Jobs, Cancel(j)
    PROVE  Lifecycle!Next
  <1>1. status'[j] = "CANCELLED" /\ \A k \in Jobs : k # j => status'[k] = status[k]
    BY DEF IInv, TypeOK, Cancel, SetStatus
  <1>2. Closed' = [Closed EXCEPT ![j] = TRUE]
    BY <1>1 DEF Closed, Terminal
  <1>3. ~Closed[j]
    BY DEF Closed, Cancel, Stoppable, Active, Terminal
  <1>4. Lifecycle!Withdraw(j)
    BY <1>2, <1>3 DEF Lifecycle!Withdraw, Closed, Cancel, KeepLease, KeepLog
  <1>5. QED
    BY <1>4 DEF Lifecycle!Next

LEMMA StepRefines ==
    ASSUME IInv, Next
    PROVE  [Lifecycle!Next]_Lifecycle!vars
  <1>1. CASE Tick
    BY <1>1, HiddenRefines DEF Tick
  <1>2. ASSUME NEW j \in Jobs, Approve(j)
        PROVE  [Lifecycle!Next]_Lifecycle!vars
    BY <1>2, MoveRefines DEF IInv, Approve, States, Active, Terminal
  <1>3. ASSUME NEW j \in Jobs, NEW r \in Runners, Pull(r, j)
        PROVE  [Lifecycle!Next]_Lifecycle!vars
    <2>1. status[j] \notin Terminal /\ status' = status /\ events' = events
      BY <1>3 DEF Pull, IsOldestDispatched, Dispatched, Terminal, KeepLog
    <2>2. QED
      BY <1>3, <2>1, SignRefines DEF IInv, Pull, Lifecycle!Next
  <1>4. ASSUME NEW j \in Jobs, NEW r \in Runners, NEW l \in 1..MaxLease,
               \/ WaitForToolApproval(j, r, l)
               \/ DispatchAfterToolApproval(j, r, l)
               \/ RedispatchAfterDeniedToolCall(j, r, l)
               \/ RecoverAgent(j, r, l)
               \/ Reconcile(j, r, l)
        PROVE  [Lifecycle!Next]_Lifecycle!vars
    <2>1. status[j] \notin Terminal
      BY <1>4
      DEF WaitForToolApproval, CanHold, DispatchAfterToolApproval,
          RedispatchAfterDeniedToolCall, HeldForTool, RecoverAgent, Reconcile,
          Reconcilable, Terminal
    <2>2. KeepLog /\ (KeepLease \/ SignSpec(j))
      BY <1>4
      DEF WaitForToolApproval, DispatchAfterToolApproval,
          RedispatchAfterDeniedToolCall, RecoverAgent, RenewIfLapsed, Reconcile
    <2>3. PICK s \in {"WAIT_APPROVAL", "DISPATCHED", "RECONCILING"} : SetStatus(j, s)
      BY <1>4
      DEF WaitForToolApproval, DispatchAfterToolApproval,
          RedispatchAfterDeniedToolCall, RecoverAgent, Reconcile
    <2>4. s \in States \ Terminal
      BY DEF States, Active, Terminal
    <2>5. QED
      BY <2>1, <2>2, <2>3, <2>4, MoveRefines DEF IInv
  <1>5. ASSUME NEW j \in Jobs, NEW r \in Runners, NEW l \in 1..MaxLease, Leased(j, r, l)
        PROVE  [Lifecycle!Next]_Lifecycle!vars
    BY <1>4, <1>5, EventRefines DEF Leased, EventStep
  <1>6. QED
    BY <1>1, <1>2, <1>3, <1>5, CreateRefines, CancelRefines DEF Next

LEMMA InitRefines == Init => Lifecycle!Init
  <1> SUFFICES ASSUME Init
               PROVE  Lifecycle!Init
    OBVIOUS
  <1>1. \A j \in Jobs : (status[j] \in Terminal) = FALSE
    BY DEF Init, Terminal
  <1>2. Closed = [j \in Jobs |-> FALSE]
    BY <1>1, Zenon DEF Closed
  <1>3. QED
    BY <1>2 DEF Init, Lifecycle!Init, Closed

(***************************************************************************)
(* The job registry implements the leased log.                             *)
(***************************************************************************)
THEOREM Refinement == Spec => ImplementsLeasedLog
  <1>1. IInv /\ [Next]_vars => [Lifecycle!Next]_Lifecycle!vars
    <2>1. ASSUME UNCHANGED vars
          PROVE  UNCHANGED Lifecycle!vars
      BY <2>1 DEF vars, Lifecycle!vars
    <2>2. QED
      BY <2>1, StepRefines
  <1>2. QED
    BY <1>1, Invariance, InitRefines, PTL DEF Spec, ImplementsLeasedLog, Lifecycle!Spec
=============================================================================
