------------------------- MODULE NodeToolPolicyProofs -------------------------
(***************************************************************************)
(* What the Hub guarantees about the calls of remote Agents, for any jobs, *)
(* Runners, calls, lease terms and lists of unavailable tools, through any *)
(* number of crashes and starts.                                           *)
(***************************************************************************)
EXTENDS NodeToolPolicy, JobRegistryProofs

\* The entries of a list with one taken out.
LEMMA RemoveAtEntries ==
    ASSUME NEW S, NEW s \in Seq(S), NEW i \in DOMAIN s
    PROVE  /\ RemoveAt(s, i) \in Seq(S) /\ Len(RemoveAt(s, i)) = Len(s) - 1
           /\ \A k \in 1..(i - 1) : RemoveAt(s, i)[k] = s[k]
           /\ \A k \in i..(Len(s) - 1) : RemoveAt(s, i)[k] = s[k + 1]
  <1> DEFINE a == SubSeq(s, 1, i - 1)
             b == SubSeq(s, i + 1, Len(s))
             r == a \o b
  <1>1. i \in 1..Len(s) /\ Len(s) \in Nat /\ \A k \in 1..Len(s) : s[k] \in S
    BY LenProperties, ElementOfSeq
  <1>2. a \in Seq(S) /\ Len(a) = i - 1 /\ \A k \in 1..(i - 1) : a[k] = s[k]
    BY <1>1, SubSeqProperties
  <1>3. b \in Seq(S) /\ Len(b) = Len(s) - i /\ \A k \in 1..(Len(s) - i) : b[k] = s[i + k]
    BY <1>1, SubSeqProperties
  <1>4. /\ r \in Seq(S) /\ Len(r) = Len(s) - 1
        /\ \A k \in 1..(i - 1) : r[k] = s[k]
        /\ \A k \in i..(Len(s) - 1) : r[k] = s[k + 1]
    <2> HIDE DEF a, b
    <2>1. r \in Seq(S) /\ Len(r) = Len(a) + Len(b)
      BY <1>2, <1>3, ConcatProperties
    <2>2. \A k \in 1..Len(r) : r[k] = IF k <= Len(a) THEN a[k] ELSE b[k - Len(a)]
      BY <1>2, <1>3, ConcatProperties
    <2>3. ASSUME NEW k \in 1..(i - 1)
          PROVE  r[k] = s[k]
      <3>1. k \in 1..Len(r) /\ k <= Len(a)
        BY <2>1, <1>1, <1>2, <1>3
      <3>2. r[k] = a[k]
        BY <3>1, <2>2
      <3>3. QED
        BY <3>2, <1>2
    <2>4. ASSUME NEW k \in i..(Len(s) - 1)
          PROVE  r[k] = s[k + 1]
      <3> HIDE DEF r
      <3>0. Len(r) = Len(s) - 1 /\ i \in Int /\ k \in Int
        BY <1>1, <1>2, <1>3, <2>1
      <3>1. k - Len(a) \in 1..(Len(s) - i) /\ k \in 1..Len(r) /\ ~(k <= Len(a))
        BY <3>0, <1>1, <1>2
      <3>2. r[k] = b[k - Len(a)] /\ b[k - Len(a)] = s[i + (k - Len(a))]
        BY <3>1, <2>2, <1>3
      <3>3. i + (k - Len(a)) = k + 1
        BY <1>1, <1>2
      <3>4. QED
        BY <3>2, <3>3
    <2>5. Len(r) = Len(s) - 1
      BY <2>1, <1>1, <1>2, <1>3
    <2>6. QED
      BY <2>1, <2>3, <2>4, <2>5
  <1>5. RemoveAt(s, i) = r
    BY DEF RemoveAt
  <1>6. QED
    BY <1>4, <1>5

(***************************************************************************)
(* Writing a row keeps every other one listed and lists the row written.   *)
(***************************************************************************)
LEMMA RemoveAtFacts ==
    ASSUME NEW S, NEW s \in Seq(S), NEW i \in DOMAIN s
    PROVE  /\ RemoveAt(s, i) \in Seq(S)
           /\ \A k \in DOMAIN s : k # i => s[k] \in ToSet(RemoveAt(s, i))
  <1> DEFINE r == RemoveAt(s, i)
  <1>1. i \in 1..Len(s) /\ Len(s) \in Nat
    BY LenProperties
  <1>2. /\ r \in Seq(S) /\ Len(r) = Len(s) - 1
        /\ \A k \in 1..(i - 1) : r[k] = s[k]
        /\ \A k \in i..(Len(s) - 1) : r[k] = s[k + 1]
    BY RemoveAtEntries
  <1> HIDE DEF r
  <1>3. ASSUME NEW k \in DOMAIN s, k # i
        PROVE  s[k] \in ToSet(r)
    <2>1. DOMAIN r = 1..(Len(s) - 1)
      BY <1>2, LenProperties
    <2>2. CASE k < i
      BY <2>1, <2>2, <1>1, <1>2 DEF ToSet
    <2>3. CASE k > i
      <3>1. k - 1 \in i..(Len(s) - 1) /\ k - 1 \in 1..(Len(s) - 1) /\ (k - 1) + 1 = k
        BY <2>3, <1>1
      <3>2. r[k - 1] = s[k]
        BY <3>1, <1>2
      <3>3. QED
        BY <2>1, <3>1, <3>2 DEF ToSet
    <2>4. QED
      BY <2>2, <2>3, <1>1, <1>3
  <1>4. QED
    BY <1>2, <1>3 DEF r

LEMMA WriteRowFacts ==
    ASSUME PolicyTypeOK, NEW c \in Calls, NEW s \in RowStates, WriteRow(c, s)
    PROVE  /\ callStatus' \in [Calls -> RowStates \cup {"NONE"}]
           /\ callStatus'[c] = s
           /\ \A d \in Calls : d # c => callStatus'[d] = callStatus[d]
           /\ rowOrder' \in Seq(Calls)
           /\ c \in ToSet(rowOrder')
           /\ \A d \in ToSet(rowOrder) : d \in ToSet(rowOrder')
  <1>1. /\ callStatus' \in [Calls -> RowStates \cup {"NONE"}]
        /\ callStatus'[c] = s
        /\ \A d \in Calls : d # c => callStatus'[d] = callStatus[d]
    BY DEF PolicyTypeOK, WriteRow
  <1>2. rowOrder \in Seq(Calls)
    BY DEF PolicyTypeOK
  <1>3. /\ OtherRows(c) \in Seq(Calls)
        /\ \A d \in ToSet(rowOrder) : d # c => d \in ToSet(OtherRows(c))
    <2>1. CASE ~Contains(rowOrder, c)
      BY <2>1, <1>2 DEF OtherRows
    <2>2. CASE Contains(rowOrder, c)
      <3> DEFINE i == CHOOSE i \in DOMAIN rowOrder : rowOrder[i] = c
      <3>1. i \in DOMAIN rowOrder /\ rowOrder[i] = c
        BY <2>2, <1>2, LenProperties DEF Contains
      <3>2. OtherRows(c) = RemoveAt(rowOrder, i)
        BY <2>2 DEF OtherRows
      <3> HIDE DEF i
      <3>3. QED
        BY <3>1, <3>2, <1>2, RemoveAtFacts DEF ToSet
    <2>3. QED
      BY <2>1, <2>2
  <1> DEFINE r == OtherRows(c)
  <1>4. rowOrder' = Append(r, c)
    BY DEF WriteRow
  <1>5. /\ Append(r, c) \in Seq(Calls)
        /\ Len(r) \in Nat
        /\ DOMAIN r = 1..Len(r)
        /\ DOMAIN Append(r, c) = 1..(Len(r) + 1)
        /\ \A i \in 1..Len(r) : Append(r, c)[i] = r[i]
        /\ Append(r, c)[Len(r) + 1] = c
    BY <1>3, AppendFacts
  <1>6. c \in ToSet(Append(r, c)) /\ \A d \in ToSet(r) : d \in ToSet(Append(r, c))
    <2> HIDE DEF r
    <2>1. Len(r) + 1 \in 1..(Len(r) + 1) /\ \A i \in 1..Len(r) : i \in 1..(Len(r) + 1)
      BY <1>5
    <2>2. QED
      BY <2>1, <1>5 DEF ToSet
  <1>7. QED
    BY <1>1, <1>3, <1>4, <1>5, <1>6

-----------------------------------------------------------------------------
(***************************************************************************)
(* The inductive invariant, part by part.                                  *)
(***************************************************************************)

\* A row names the Runner it was made for.
RunnersKnown == \A j \in Jobs : status[j] # "ABSENT" => runner[j] \in Runners

\* A call was proposed for an Agent job, under a lease signed for it.
CallsKnown ==
    \A c \in Calls : callStatus[c] # "NONE" =>
        /\ call[c] \in CallContent
        /\ tool[JobOf(c)] = "agent"
        /\ call[c].lease <= lease[JobOf(c)]

\* A start reads every row.
CallsListed == \A c \in Calls : callStatus[c] # "NONE" => c \in ToSet(rowOrder)

\* A held Agent job has a call of its lease; it is pending, unless the second commit of
\* its decision is missing, and then the start that is at work, or the next, meets it.
Explains(c, j) ==
    /\ callStatus[c] # "NONE"
    /\ JobOf(c) = j
    /\ call[c].lease = lease[j]
    /\ \/ callStatus[c] = "WAIT_APPROVAL"
       \/ hub = "opening" /\ c \in ToSet(todo)
       \/ hub = "down"

HeldAgent(j) == status[j] = "WAIT_APPROVAL" /\ tool[j] = "agent"

HoldsExplained == \A j \in Jobs : HeldAgent(j) => \E c \in Calls : Explains(c, j)

PolicyInv ==
    /\ PolicyTypeOK /\ IInv
    /\ RunnersKnown /\ CallsKnown /\ CallsListed
    /\ AuthorityWithinLease /\ OwnerClearedCall /\ HoldsExplained

-----------------------------------------------------------------------------
(***************************************************************************)
(* What an operation of the registry, the clock aside, does to the columns *)
(* the calls depend on: an Agent job gets a new lease only when its old    *)
(* one lapsed, and only waitForToolApproval holds one.                     *)
(***************************************************************************)
RowEffect(j) ==
    /\ tool[j] # "ABSENT" => tool'[j] = tool[j]
    /\ status'[j] # "ABSENT" => runner'[j] \in Runners
    /\ status[j] # "ABSENT" => runner'[j] = runner[j]
    /\ \/ lease'[j] = lease[j] /\ ttl'[j] = ttl[j]
       \/ /\ lease'[j] = lease[j] + 1
          /\ tool[j] = "agent" => LeaseLapsed(j) /\ ~HeldAgent(j)'

KeepsHold(j) == HeldAgent(j)' => HeldAgent(j) /\ lease'[j] = lease[j]

Effect == \A j \in Jobs : RowEffect(j)
QuietEffect == Effect /\ \A j \in Jobs : KeepsHold(j)

LEMMA CreateEffect ==
    ASSUME TypeOK, RowsInv, RunnersKnown,
           NEW j \in Jobs, NEW r \in Runners, NEW t \in Tools, Create(j, r, t)
    PROVE  QuietEffect
  BY DEF TypeOK, RowsInv, RowInv, RunnersKnown, Create, SetStatus, InitialStatus, Risk, Tools,
         SignSpec, KeepLease, QuietEffect, Effect, RowEffect, KeepsHold, HeldAgent

LEMMA ApproveEffect ==
    ASSUME TypeOK, RunnersKnown, NEW j \in Jobs, Approve(j)
    PROVE  QuietEffect
  BY DEF TypeOK, RunnersKnown, Approve, SetStatus, Risk, SignSpec, KeepRow,
         QuietEffect, Effect, RowEffect, KeepsHold, HeldAgent

LEMMA CancelEffect ==
    ASSUME TypeOK, RunnersKnown, NEW j \in Jobs, Cancel(j)
    PROVE  QuietEffect
  BY DEF TypeOK, RunnersKnown, Cancel, Stoppable, Active, SetStatus, KeepLease, KeepRow,
         QuietEffect, Effect, RowEffect, KeepsHold, HeldAgent

LEMMA PullEffect ==
    ASSUME TypeOK, RunnersKnown, NEW j \in Jobs, NEW r \in Runners, Pull(r, j)
    PROVE  QuietEffect
  BY DEF TypeOK, RunnersKnown, Pull, IsOldestDispatched, Dispatched, SignSpec, KeepRow,
         QuietEffect, Effect, RowEffect, KeepsHold, HeldAgent

\* The leased operations but for the one that holds a job.
LEMMA ReleaseEffect ==
    ASSUME TypeOK, RunnersKnown, NEW j \in Jobs, NEW r, NEW l,
           \/ RecoverAgent(j, r, l)
           \/ DispatchAfterToolApproval(j, r, l)
           \/ RedispatchAfterDeniedToolCall(j, r, l)
    PROVE  QuietEffect /\ ~HeldAgent(j)'
  <1>1. /\ status[j] # "ABSENT" /\ status' = [status EXCEPT ![j] = "DISPATCHED"]
        /\ UNCHANGED <<tool, runner>>
    BY DEF RecoverAgent, DispatchAfterToolApproval, RedispatchAfterDeniedToolCall, HeldForTool,
           SetStatus, KeepRow
  <1>2. KeepLease \/ (LeaseLapsed(j) /\ SignSpec(j))
    BY DEF RecoverAgent, DispatchAfterToolApproval, RedispatchAfterDeniedToolCall, RenewIfLapsed
  <1>3. QED
    BY <1>1, <1>2 DEF TypeOK, RunnersKnown, KeepLease, SignSpec,
         QuietEffect, Effect, RowEffect, KeepsHold, HeldAgent

LEMMA ReconcileEffect ==
    ASSUME TypeOK, RunnersKnown, NEW j \in Jobs, NEW r, NEW l, Reconcile(j, r, l)
    PROVE  QuietEffect
  BY DEF TypeOK, RunnersKnown, Reconcile, Reconcilable, SetStatus, KeepLease, KeepRow,
         QuietEffect, Effect, RowEffect, KeepsHold, HeldAgent

LEMMA HoldEffect ==
    ASSUME TypeOK, RunnersKnown, NEW j \in Jobs, NEW r, NEW l, WaitForToolApproval(j, r, l)
    PROVE  /\ Effect
           /\ \A k \in Jobs : k # j => KeepsHold(k)
           /\ lease' = lease /\ lease[j] = l
  BY DEF TypeOK, RunnersKnown, WaitForToolApproval, CanHold, Bound, SetStatus, KeepLease, KeepRow,
         Effect, RowEffect, KeepsHold, HeldAgent

\* What the Runner reports is an outcome, RUNNING or a note.
LEMMA ReportEffect ==
    ASSUME TypeOK, RowsInv, RunnersKnown, NEW j \in Jobs, NEW r, NEW l, NEW seq,
           RunnerReport(j, r, l, seq)
    PROVE  QuietEffect
  <1>1. PICK body \in Notes \cup {"RUNNING", "SUCCEEDED", "FAILED"} : AcceptEvent(j, r, l, seq, body)
    BY DEF RunnerReport
  <1>2. status[j] # "ABSENT"
    BY <1>1 DEF AcceptEvent, Bound, RowsInv, RowInv
  <1>3. UNCHANGED <<tool, runner, lease, ttl>>
    BY <1>1 DEF AcceptEvent, KeepLease, KeepRow
  <1>4. \/ status' = status
        \/ status' = [status EXCEPT ![j] = body] /\ body # "WAIT_APPROVAL"
    <2>1. body \in Notes \/ body \in {"RUNNING", "SUCCEEDED", "FAILED"}
      OBVIOUS
    <2>2. \A n \in Notes : n # "WAIT_APPROVAL"
      BY DEF Notes
    <2>3. QED
      BY <1>1, <2>1, <2>2 DEF AcceptEvent, SetStatus
  <1>5. QED
    BY <1>2, <1>3, <1>4 DEF TypeOK, RunnersKnown, QuietEffect, Effect, RowEffect, KeepsHold, HeldAgent

\* Everything the Owner and the Runner do to a job, none of it about a call.
LEMMA JobStepEffect ==
    ASSUME TypeOK, RowsInv, RunnersKnown, NEW j \in Jobs, JobStep(j)
    PROVE  QuietEffect /\ Next
  <1>1. CASE Approve(j)
    BY <1>1, ApproveEffect DEF Next
  <1>2. CASE Cancel(j)
    BY <1>2, CancelEffect DEF Next
  <1>3. ASSUME NEW r \in Runners, NEW t \in Tools, Create(j, r, t)
        PROVE  QuietEffect /\ Next
    BY <1>3, CreateEffect DEF Next
  <1>4. ASSUME NEW r \in Runners, Pull(r, j)
        PROVE  QuietEffect /\ Next
    BY <1>4, PullEffect DEF Next
  <1>5. ASSUME NEW r \in Runners, NEW l \in 1..MaxLease, RecoverAgent(j, r, l)
        PROVE  QuietEffect /\ Next
    BY <1>5, ReleaseEffect DEF Next, Leased
  <1>6. ASSUME NEW r \in Runners, NEW l \in 1..MaxLease, Reconcile(j, r, l)
        PROVE  QuietEffect /\ Next
    BY <1>6, ReconcileEffect DEF Next, Leased
  <1>7. ASSUME NEW r \in Runners, NEW l \in 1..MaxLease, NEW seq \in 0..MaxEvents,
               RunnerReport(j, r, l, seq)
        PROVE  QuietEffect /\ Next
    <2>1. QuietEffect
      BY <1>7, ReportEffect
    <2>2. \E body \in Bodies : AcceptEvent(j, r, l, seq, body)
      BY <1>7 DEF RunnerReport, Bodies, States, Active, Terminal
    <2>3. Next
      BY <2>2 DEF Next, Leased
    <2>4. QED
      BY <2>1, <2>3
  <1>8. QED
    BY <1>1, <1>2, <1>3, <1>4, <1>5, <1>6, <1>7 DEF JobStep

-----------------------------------------------------------------------------
(***************************************************************************)
(* The policy uses the registry as it is: every step of the Hub is one     *)
(* operation of the registry or leaves it alone.                           *)
(***************************************************************************)
LEMMA CallNamesJob ==
    ASSUME PolicyTypeOK, RunnersKnown, CallsKnown, NEW c \in Calls, callStatus[c] # "NONE",
           BoundToCall(c)
    PROVE  /\ JobOf(c) \in Jobs
           /\ call[c].lease \in 1..MaxLease
           /\ runner[JobOf(c)] \in Runners \/ status[JobOf(c)] = "ABSENT"
  BY DEF RunnersKnown, CallsKnown, CallContent, JobOf

LEMMA HoldIsNext ==
    ASSUME NEW j \in Jobs, NEW l \in 1..MaxLease,
           status[j] # "ABSENT" => runner[j] \in Runners, Hold(j, runner[j], l)
    PROVE  Next \/ UNCHANGED vars
  <1>1. CASE WaitForToolApproval(j, runner[j], l)
    <2>1. runner[j] \in Runners
      BY <1>1 DEF WaitForToolApproval, CanHold
    <2>2. QED
      BY <1>1, <2>1 DEF Next, Leased
  <1>2. QED
    BY <1>1 DEF Hold

LEMMA DecisionIsNext ==
    ASSUME PolicyTypeOK, RunnersKnown, CallsKnown, NEW c \in Calls, callStatus[c] # "NONE",
           Dispatch(c) \/ Redispatch(c)
    PROVE  Next
  <1>1. HeldForTool(JobOf(c), runner[JobOf(c)], call[c].lease)
    BY DEF Dispatch, Redispatch, DispatchAfterToolApproval, RedispatchAfterDeniedToolCall
  <1>2. BoundToCall(c) /\ status[JobOf(c)] # "ABSENT"
    BY <1>1 DEF HeldForTool, Bound, BoundToCall
  <1>3. JobOf(c) \in Jobs /\ call[c].lease \in 1..MaxLease /\ runner[JobOf(c)] \in Runners
    BY <1>2, CallNamesJob
  <1>4. Leased(JobOf(c), runner[JobOf(c)], call[c].lease)
    BY DEF Dispatch, Redispatch, Leased
  <1>5. QED
    BY <1>3, <1>4 DEF Next

LEMMA StepSimulation ==
    ASSUME PolicyInv, [PolicyNext]_allVars
    PROVE  [Next]_vars
  <1> USE DEF PolicyInv
  <1>1. CASE PolicyTick
    BY <1>1 DEF PolicyTick, Next
  <1>2. CASE Crash \/ Open \/ Opened
    BY <1>2 DEF Crash, Open, Opened
  <1>3. ASSUME NEW j \in Jobs, JobStep(j)
        PROVE  Next
    BY <1>3, JobStepEffect DEF IInv
  <1>4. ASSUME NEW c \in Calls, CallStep(c)
        PROVE  [Next]_vars
    <2>1. CASE Reevaluate(c)
      <3>1. callStatus[c] # "NONE" /\ BoundToCall(c)
        BY <2>1 DEF Reevaluate, Decision
      <3>2. QED
        BY <2>1, <3>1, CallNamesJob, HoldIsNext DEF Reevaluate
    <2>2. CASE ClearCall(c) \/ ClearCallTooLate(c)
      <3>1. callStatus[c] # "NONE"
        BY <2>2 DEF ClearCall, ClearCallTooLate, AwaitingClearance
      <3>2. QED
        BY <2>2, <3>1, DecisionIsNext DEF ClearCall, ClearCallTooLate, CrashBetween
    <2>3. ASSUME NEW j \in Jobs, NEW l \in 1..MaxLease, NEW name \in ToolNames,
                 ProposeGuarded(c, j, l, name)
          PROVE  [Next]_vars
      BY <2>3, HoldIsNext DEF ProposeGuarded, CrashBetween, RunnersKnown
    <2>4. ASSUME NEW j \in Jobs, NEW l \in 1..MaxLease, NEW name \in ToolNames,
                 ProposeRead(c, j, l, name) \/ ProposeUnavailable(c, j, l, name)
          PROVE  [Next]_vars
      BY <2>4 DEF ProposeRead, ProposeUnavailable
    <2>5. QED
      BY <1>4, <2>1, <2>2, <2>3, <2>4 DEF CallStep
  <1>5. ASSUME NEW c \in Calls, OpenStep(c)
        PROVE  [Next]_vars
    <2>1. CASE RestoreHold(c)
      <3>1. callStatus[c] # "NONE" /\ BoundToCall(c)
        BY <2>1 DEF RestoreHold, StillHeldByLease
      <3>2. QED
        BY <2>1, <3>1, CallNamesJob, HoldIsNext DEF RestoreHold, CrashBetween
    <2>2. CASE CompleteClearance(c)
      BY <2>2, DecisionIsNext DEF CompleteClearance, Decision
    <2>3. CASE DenyRow(c)
      BY <2>3, DecisionIsNext DEF DenyRow, MustDeny, Decision, CrashBetween
    <2>4. CASE SkipRow(c)
      BY <2>4 DEF SkipRow
    <2>5. QED
      BY <1>5, <2>1, <2>2, <2>3, <2>4 DEF OpenStep
  <1>6. CASE UNCHANGED allVars
    BY <1>6 DEF allVars
  <1>7. QED
    BY <1>1, <1>2, <1>3, <1>4, <1>5, <1>6 DEF PolicyNext

-----------------------------------------------------------------------------
(***************************************************************************)
(* What a step about call c does to the rows: it writes no other, and what *)
(* it authorizes is within the lease and cleared, or a read.               *)
(***************************************************************************)
OnlyRow(c) ==
    /\ \A d \in Calls : d # c =>
          /\ callStatus'[d] = callStatus[d] /\ call'[d] = call[d] /\ authTtl'[d] = authTtl[d]
    /\ cleared \subseteq cleared'

RowContent(c) ==
    IF callStatus[c] = "NONE"
      THEN /\ call'[c] \in CallContent
           /\ tool[call'[c].job] = "agent"
           /\ call'[c].lease = lease[call'[c].job]
      ELSE call'[c] = call[c]

Authorized(c) ==
    /\ call'[c].lease = lease'[call'[c].job]
    /\ authTtl'[c] <= ttl'[call'[c].job]
    /\ NodeToolRisk(call'[c].name) = "R0" \/ c \in cleared'

RowStep(c) ==
    /\ PolicyTypeOK'
    /\ OnlyRow(c)
    /\ callStatus'[c] # "NONE" => RowContent(c) /\ c \in ToSet(rowOrder')
    /\ ToSet(rowOrder) \subseteq ToSet(rowOrder')
    /\ \/ callStatus'[c] = callStatus[c] /\ authTtl'[c] = authTtl[c]
       \/ callStatus'[c] \in {"DENIED", "WAIT_APPROVAL"}
       \/ callStatus'[c] = "APPROVED" /\ Authorized(c)

RowsKept ==
    /\ RunnersKnown' /\ CallsKnown' /\ CallsListed'
    /\ AuthorityWithinLease' /\ OwnerClearedCall'

\* A call outside its own steps: its job keeps the lease while an authorization lasts.
LEMMA CallKept ==
    ASSUME PolicyInv, Effect, NEW d \in Calls,
           callStatus'[d] = callStatus[d], call'[d] = call[d], authTtl'[d] = authTtl[d],
           callStatus[d] # "NONE"
    PROVE  /\ call'[d] \in CallContent
           /\ tool'[JobOf(d)] = "agent"
           /\ call'[d].lease <= lease'[JobOf(d)]
           /\ Decision(d)' = "APPROVED" =>
                /\ Decision(d) = "APPROVED"
                /\ call[d].lease = lease'[JobOf(d)]
                /\ authTtl[d] <= ttl'[JobOf(d)]
  <1> DEFINE j == JobOf(d)
  <1>1. /\ call[d] \in CallContent /\ j \in Jobs /\ tool[j] = "agent"
        /\ call[d].lease <= lease[j] /\ call[d].lease \in Nat
    BY BoundsAssumption DEF PolicyInv, CallsKnown, CallContent, JobOf
  <1>2. /\ lease[j] \in Nat /\ ttl[j] \in Int /\ authTtl[d] \in Nat
    BY <1>1, BoundsAssumption, LeaseTicksAssumption, AuthorityAssumption
    DEF PolicyInv, PolicyTypeOK, TypeOK
  <1>3. RowEffect(j)
    BY <1>1 DEF Effect
  <1>4. tool'[j] = "agent" /\ call[d].lease <= lease'[j]
    BY <1>1, <1>2, <1>3 DEF RowEffect
  <1>5. ASSUME Decision(d)' = "APPROVED"
        PROVE  /\ Decision(d) = "APPROVED"
               /\ call[d].lease = lease'[j] /\ authTtl[d] <= ttl'[j]
    <2>1. Decision(d) = "APPROVED" /\ authTtl[d] > 0
      BY <1>5, <1>2 DEF Decision
    <2>2. call[d].lease = lease[j] /\ authTtl[d] <= ttl[j]
      BY <2>1 DEF PolicyInv, AuthorityWithinLease
    <2>3. ~LeaseLapsed(j)
      BY <2>1, <2>2, <1>2 DEF LeaseLapsed
    <2>4. lease'[j] = lease[j] /\ ttl'[j] = ttl[j]
      BY <2>3, <1>1, <1>3 DEF RowEffect
    <2>5. QED
      BY <2>1, <2>2, <2>4
  <1>6. QED
    BY <1>1, <1>4, <1>5

LEMMA RunnersKept ==
    ASSUME Effect
    PROVE  RunnersKnown'
  BY DEF Effect, RowEffect, RunnersKnown

LEMMA RowStepKeeps ==
    ASSUME PolicyInv, Effect, NEW c \in Calls, RowStep(c)
    PROVE  RowsKept
  <1>1. ASSUME NEW d \in Calls, callStatus'[d] # "NONE"
        PROVE  /\ call'[d] \in CallContent
               /\ tool'[JobOf(d)'] = "agent"
               /\ call'[d].lease <= lease'[JobOf(d)']
               /\ d \in ToSet(rowOrder')
               /\ Decision(d)' = "APPROVED" =>
                    /\ call'[d].lease = lease'[JobOf(d)']
                    /\ authTtl'[d] <= ttl'[JobOf(d)']
               /\ callStatus'[d] = "APPROVED" /\ NodeToolRisk(call'[d].name) # "R0" =>
                    d \in cleared'
    <2>1. CASE callStatus'[d] = callStatus[d] /\ call'[d] = call[d] /\ authTtl'[d] = authTtl[d]
      <3>1. JobOf(d)' = JobOf(d)
        BY <2>1 DEF JobOf
      <3>2. callStatus[d] # "NONE"
        BY <1>1, <2>1
      <3>3. d \in ToSet(rowOrder')
        BY <3>2 DEF PolicyInv, CallsListed, RowStep
      <3>4. callStatus[d] = "APPROVED" /\ NodeToolRisk(call[d].name) # "R0" => d \in cleared'
        BY DEF PolicyInv, OwnerClearedCall, RowStep, OnlyRow
      <3>5. QED
        BY <2>1, <3>1, <3>2, <3>3, <3>4, CallKept
    <2>2. CASE d = c /\ ~(callStatus'[c] = callStatus[c] /\ authTtl'[c] = authTtl[c])
      <3>1. RowContent(c) /\ c \in ToSet(rowOrder')
        BY <1>1, <2>2 DEF RowStep
      <3> DEFINE j == call'[c].job
      <3>2. JobOf(c)' = j
        BY DEF JobOf
      <3>3. /\ call'[c] \in CallContent /\ j \in Jobs
            /\ tool[j] = "agent" /\ call'[c].lease <= lease[j]
        <4>1. CASE callStatus[c] = "NONE"
          <5>1. /\ call'[c] \in CallContent /\ tool[j] = "agent"
                /\ call'[c].lease = lease[j]
            BY <3>1, <4>1 DEF RowContent
          <5>2. j \in Jobs /\ call'[c].lease \in Int
            BY <5>1 DEF CallContent
          <5>3. QED
            BY <5>1, <5>2
        <4>2. CASE callStatus[c] # "NONE"
          BY <3>1, <4>2 DEF RowContent, PolicyInv, CallsKnown, CallContent, JobOf
        <4>3. QED
          BY <4>1, <4>2
      <3>4. /\ tool'[j] = "agent" /\ lease'[j] >= lease[j] /\ lease[j] \in Nat
            /\ lease'[j] \in Nat /\ call'[c].lease \in Nat
        <4> PICK k \in Jobs : k = j
          BY <3>3
        <4>1. RowEffect(k)
          BY DEF Effect
        <4>2. lease[j] \in Nat
          BY <3>3, BoundsAssumption DEF PolicyInv, PolicyTypeOK, TypeOK
        <4>3. call'[c].lease \in Nat
          BY <3>3 DEF CallContent
        <4> HIDE DEF j
        <4>4. lease'[j] = lease[j] \/ lease'[j] = lease[j] + 1
          BY <4>1 DEF RowEffect
        <4>5. QED
          BY <3>3, <4>1, <4>2, <4>3, <4>4 DEF RowEffect
      <3>5. \/ callStatus'[c] \in {"DENIED", "WAIT_APPROVAL"}
            \/ callStatus'[c] = "APPROVED" /\ Authorized(c)
        BY <2>2 DEF RowStep
      <3>6. Decision(c)' = "APPROVED" => callStatus'[c] = "APPROVED"
        BY DEF Decision
      <3>7. call'[c].lease <= lease'[j]
        BY <3>3, <3>4
      <3>8. callStatus'[c] = "APPROVED" =>
              /\ call'[c].lease = lease'[j]
              /\ authTtl'[c] <= ttl'[j]
              /\ NodeToolRisk(call'[c].name) = "R0" \/ c \in cleared'
        BY <3>5 DEF Authorized
      <3>9. QED
        BY <2>2, <3>1, <3>2, <3>3, <3>4, <3>6, <3>7, <3>8
    <2>3. d # c => callStatus'[d] = callStatus[d] /\ call'[d] = call[d] /\ authTtl'[d] = authTtl[d]
      BY DEF RowStep, OnlyRow
    <2>4. CASE d = c /\ callStatus'[c] = callStatus[c] /\ authTtl'[c] = authTtl[c]
      <3>1. call'[c] = call[c]
        BY <1>1, <2>4 DEF RowStep, RowContent
      <3>2. QED
        BY <2>1, <2>4, <3>1
    <2>5. QED
      BY <2>1, <2>2, <2>3, <2>4
  <1>2. CallsKnown' /\ CallsListed' /\ OwnerClearedCall'
    BY <1>1 DEF CallsKnown, CallsListed, OwnerClearedCall
  <1>3. AuthorityWithinLease'
    <2>1. \A d \in Calls : Decision(d)' = "APPROVED" => callStatus'[d] # "NONE"
      BY DEF Decision
    <2>2. QED
      BY <1>1, <2>1 DEF AuthorityWithinLease
  <1>4. QED
    BY <1>2, <1>3, RunnersKept DEF RowsKept

-----------------------------------------------------------------------------
(***************************************************************************)
(* The explanation of a held job survives a step about another call, and a *)
(* crash leaves it to the next start.                                      *)
(***************************************************************************)
LEMMA HoldsKept ==
    ASSUME PolicyInv, NEW c \in Calls, OnlyRow(c),
           \/ hub' = hub /\ \A d \in ToSet(todo) : d # c => d \in ToSet(todo')
           \/ hub' = "down",
           \A j \in Jobs : HeldAgent(j)' =>
             \/ Explains(c, j)'
             \/ HeldAgent(j) /\ lease'[j] = lease[j] /\ ~Explains(c, j)
    PROVE  HoldsExplained'
  <1> SUFFICES ASSUME NEW j \in Jobs, HeldAgent(j)', ~Explains(c, j)'
               PROVE  \E d \in Calls : Explains(d, j)'
    BY DEF HoldsExplained
  <1>1. HeldAgent(j) /\ lease'[j] = lease[j] /\ ~Explains(c, j)
    OBVIOUS
  <1>2. PICK d \in Calls : Explains(d, j)
    BY <1>1 DEF PolicyInv, HoldsExplained
  <1>3. d # c
    BY <1>1, <1>2
  <1>4. Explains(d, j)'
    BY <1>1, <1>2, <1>3 DEF OnlyRow, Explains, JobOf
  <1>5. QED
    BY <1>4

LEMMA CrashKeepsHolds ==
    ASSUME PolicyInv, UNCHANGED vars, hub' = "down",
           \A d \in Calls : callStatus[d] # "NONE" => callStatus'[d] # "NONE" /\ call'[d] = call[d]
    PROVE  HoldsExplained'
  <1> SUFFICES ASSUME NEW j \in Jobs, HeldAgent(j)'
               PROVE  \E d \in Calls : Explains(d, j)'
    BY DEF HoldsExplained
  <1>1. HeldAgent(j) /\ lease'[j] = lease[j]
    BY DEF vars, HeldAgent
  <1>2. PICK d \in Calls : Explains(d, j)
    BY <1>1 DEF PolicyInv, HoldsExplained
  <1>3. Explains(d, j)'
    BY <1>1, <1>2 DEF Explains, JobOf
  <1>4. QED
    BY <1>3

LEMMA HubEffect ==
    ASSUME PolicyInv, UNCHANGED vars
    PROVE  QuietEffect
  BY DEF PolicyInv, RunnersKnown, vars, QuietEffect, Effect, RowEffect, KeepsHold, HeldAgent

\* Holding a job, or finding it held, touches no other and keeps every lease.
LEMMA HoldFacts ==
    ASSUME PolicyInv, NEW j \in Jobs, NEW r, NEW l, Hold(j, r, l)
    PROVE  Effect /\ (\A k \in Jobs : k # j => KeepsHold(k)) /\ lease' = lease
  <1>1. CASE WaitForToolApproval(j, r, l)
    BY <1>1, HoldEffect DEF PolicyInv, PolicyTypeOK
  <1>2. CASE UNCHANGED vars
    BY <1>2, HubEffect DEF QuietEffect, vars
  <1>3. QED
    BY <1>1, <1>2 DEF Hold

\* Deciding a call releases its job and holds no other.
LEMMA DecisionFacts ==
    ASSUME PolicyInv, NEW c \in Calls, NEW j \in Jobs, j = JobOf(c), Dispatch(c) \/ Redispatch(c)
    PROVE  QuietEffect /\ ~HeldAgent(j)'
  <1>1. \/ DispatchAfterToolApproval(j, runner[j], call[c].lease)
        \/ RedispatchAfterDeniedToolCall(j, runner[j], call[c].lease)
    BY DEF Dispatch, Redispatch
  <1>2. TypeOK /\ RunnersKnown
    BY DEF PolicyInv, PolicyTypeOK
  <1>3. QED
    BY <1>1, <1>2, ReleaseEffect

LEMMA RowDoneFacts ==
    ASSUME PolicyTypeOK, todo # <<>>, RowDone
    PROVE  /\ todo' \in Seq(Calls) /\ hub' = hub
           /\ \A d \in ToSet(todo) : d # Head(todo) => d \in ToSet(todo')
  <1>1. todo \in Seq(Calls) /\ todo' = Tail(todo) /\ hub' = hub
    BY DEF PolicyTypeOK, RowDone
  <1>2. /\ Tail(todo) \in Seq(Calls) /\ Len(Tail(todo)) = Len(todo) - 1
        /\ \A i \in 1..Len(Tail(todo)) : Tail(todo)[i] = todo[i + 1]
    BY <1>1, HeadTailProperties
  <1>3. Len(todo) \in Nat /\ DOMAIN todo = 1..Len(todo) /\ DOMAIN Tail(todo) = 1..Len(Tail(todo))
    BY <1>1, <1>2, LenProperties
  <1>4. Head(todo) = todo[1]
    BY <1>1
  <1>5. ASSUME NEW i \in DOMAIN todo, todo[i] # Head(todo)
        PROVE  todo[i] \in ToSet(Tail(todo))
    <2>1. i - 1 \in DOMAIN Tail(todo) /\ (i - 1) + 1 = i
      BY <1>2, <1>3, <1>4, <1>5
    <2>2. QED
      BY <2>1, <1>2, <1>3 DEF ToSet
  <1>6. QED
    BY <1>1, <1>2, <1>5 DEF ToSet

-----------------------------------------------------------------------------
(***************************************************************************)
(* Every action about a call, and every row of a start, is such a step.    *)
(***************************************************************************)
CallEffect(c) == Effect /\ RowStep(c) /\ HoldsExplained'

\* What Propose says: the row is new, and names the lease its job has.
LEMMA ProposeFacts ==
    ASSUME PolicyInv, NEW c \in Calls, NEW j \in Jobs, NEW l \in 1..MaxLease,
           NEW name \in ToolNames, Propose(c, j, l, name)
    PROVE  /\ callStatus[c] = "NONE" /\ lease[j] = l /\ ttl[j] >= 0
           /\ call' \in [Calls -> CallContent \cup {NoCall}]
           /\ call'[c] = [job |-> j, lease |-> l, name |-> name]
           /\ \A d \in Calls : d # c => call'[d] = call[d]
           /\ RowContent(c)
           /\ cleared' = cleared /\ unavailable' = unavailable
  <1>1. [job |-> j, lease |-> l, name |-> name] \in CallContent
    BY DEF CallContent
  <1>2. lease[j] = l /\ tool[j] = "agent" /\ ttl[j] >= 0
    BY DEF Propose, ActiveLease, Bound, LeaseHonoured
  <1>3. call' = [call EXCEPT ![c] = [job |-> j, lease |-> l, name |-> name]]
    BY DEF Propose
  <1>4. call' \in [Calls -> CallContent \cup {NoCall}]
    BY <1>1, <1>3 DEF PolicyInv, PolicyTypeOK
  <1>5. /\ call'[c] = [job |-> j, lease |-> l, name |-> name]
        /\ \A d \in Calls : d # c => call'[d] = call[d]
    BY <1>3 DEF PolicyInv, PolicyTypeOK
  <1>6. RowContent(c)
    BY <1>1, <1>2, <1>5 DEF RowContent, Propose
  <1>7. QED
    BY <1>2, <1>4, <1>5, <1>6 DEF Propose

LEMMA WriteRowStep ==
    ASSUME PolicyInv, TypeOK', NEW c \in Calls, NEW s \in RowStates, WriteRow(c, s),
           call' \in [Calls -> CallContent \cup {NoCall}], RowContent(c),
           \A d \in Calls : d # c => call'[d] = call[d],
           authTtl' \in [Calls -> 0..AuthorityTicks],
           \A d \in Calls : d # c => authTtl'[d] = authTtl[d],
           hub' \in {"up", "down", "opening"}, todo' \in Seq(Calls),
           unavailable' \in SUBSET ToolNames, cleared' \in SUBSET Calls, cleared \subseteq cleared',
           s = "APPROVED" => Authorized(c)
    PROVE  /\ RowStep(c) /\ callStatus'[c] = s
           /\ \A d \in Calls : d # c => callStatus'[d] = callStatus[d]
  <1>1. /\ callStatus' \in [Calls -> RowStates \cup {"NONE"}]
        /\ callStatus'[c] = s
        /\ \A d \in Calls : d # c => callStatus'[d] = callStatus[d]
        /\ rowOrder' \in Seq(Calls)
        /\ c \in ToSet(rowOrder')
        /\ \A d \in ToSet(rowOrder) : d \in ToSet(rowOrder')
    BY WriteRowFacts DEF PolicyInv
  <1>2. PolicyTypeOK'
    BY <1>1 DEF PolicyTypeOK
  <1>3. OnlyRow(c)
    BY <1>1 DEF OnlyRow
  <1>4. s \in {"DENIED", "WAIT_APPROVAL"} \/ s = "APPROVED"
    BY DEF RowStates
  <1>5. QED
    BY <1>1, <1>2, <1>3, <1>4 DEF RowStep

LEMMA ProposeUnavailableEffect ==
    ASSUME PolicyInv, TypeOK', NEW c \in Calls, NEW j \in Jobs, NEW l \in 1..MaxLease,
           NEW name \in ToolNames, ProposeUnavailable(c, j, l, name)
    PROVE  CallEffect(c)
  <1>1. Propose(c, j, l, name) /\ WriteRow(c, "DENIED") /\ UNCHANGED <<vars, authTtl, hub, todo>>
    BY DEF ProposeUnavailable
  <1>2. QuietEffect
    BY <1>1, HubEffect
  <1>3. RowStep(c)
    BY <1>1, WriteRowStep, ProposeFacts DEF RowStates, PolicyInv, PolicyTypeOK
  <1>4. HoldsExplained'
    BY <1>1, <1>2, <1>3, HoldsKept, ProposeFacts DEF RowStep, QuietEffect, KeepsHold, Explains
  <1>5. QED
    BY <1>2, <1>3, <1>4 DEF QuietEffect, CallEffect

LEMMA AuthorizeFacts ==
    ASSUME PolicyInv, NEW c \in Calls, NEW j \in Jobs, ttl[j] >= 0, Authorize(c, j)
    PROVE  /\ authTtl' \in [Calls -> 0..AuthorityTicks]
           /\ authTtl'[c] <= ttl[j]
           /\ \A d \in Calls : d # c => authTtl'[d] = authTtl[d]
  <1>1. ttl[j] \in Nat /\ AuthorityTicks \in Nat
    BY LeaseTicksAssumption, AuthorityAssumption DEF PolicyInv, PolicyTypeOK, TypeOK
  <1>2. AuthorityFor(j) \in 0..AuthorityTicks /\ AuthorityFor(j) <= ttl[j]
    BY <1>1 DEF AuthorityFor
  <1>3. authTtl \in [Calls -> 0..AuthorityTicks]
    BY DEF PolicyInv, PolicyTypeOK
  <1>4. QED
    BY <1>2, <1>3 DEF Authorize

LEMMA ProposeReadEffect ==
    ASSUME PolicyInv, TypeOK', NEW c \in Calls, NEW j \in Jobs, NEW l \in 1..MaxLease,
           NEW name \in ToolNames, ProposeRead(c, j, l, name)
    PROVE  CallEffect(c)
  <1>1. /\ Propose(c, j, l, name) /\ WriteRow(c, "APPROVED") /\ Authorize(c, j)
        /\ UNCHANGED <<vars, hub, todo>> /\ NodeToolRisk(name) = "R0"
    BY DEF ProposeRead, NeedsOwner
  <1>2. QuietEffect
    BY <1>1, HubEffect
  <1>3. /\ lease[j] = l /\ callStatus[c] = "NONE"
        /\ call'[c] = [job |-> j, lease |-> l, name |-> name]
        /\ authTtl' \in [Calls -> 0..AuthorityTicks]
        /\ authTtl'[c] <= ttl[j]
        /\ \A d \in Calls : d # c => authTtl'[d] = authTtl[d]
    BY <1>1, ProposeFacts, AuthorizeFacts
  <1>4. Authorized(c)
    BY <1>1, <1>3 DEF Authorized, vars
  <1>5. RowStep(c)
    BY <1>1, <1>3, <1>4, WriteRowStep, ProposeFacts DEF RowStates, PolicyInv, PolicyTypeOK
  <1>6. HoldsExplained'
    BY <1>1, <1>2, <1>3, <1>5, HoldsKept DEF RowStep, QuietEffect, KeepsHold, Explains
  <1>7. QED
    BY <1>2, <1>5, <1>6 DEF QuietEffect, CallEffect

LEMMA CrashBetweenType ==
    ASSUME CrashBetween
    PROVE  hub' = "down" /\ todo' \in Seq(Calls)
  BY EmptySeq DEF CrashBetween

LEMMA ProposeGuardedEffect ==
    ASSUME PolicyInv, TypeOK', NEW c \in Calls, NEW j \in Jobs, NEW l \in 1..MaxLease,
           NEW name \in ToolNames, ProposeGuarded(c, j, l, name)
    PROVE  CallEffect(c)
  <1>1. /\ Propose(c, j, l, name) /\ WriteRow(c, "WAIT_APPROVAL") /\ UNCHANGED authTtl
        /\ \/ Hold(j, runner[j], l) /\ UNCHANGED <<hub, todo>>
           \/ CrashBetween
    BY DEF ProposeGuarded
  <1>2. hub' \in {"up", "down", "opening"} /\ todo' \in Seq(Calls)
    BY <1>1, CrashBetweenType DEF PolicyInv, PolicyTypeOK
  <1>3. /\ RowStep(c) /\ callStatus'[c] = "WAIT_APPROVAL"
        /\ \A d \in Calls : d # c => callStatus'[d] = callStatus[d]
    BY <1>1, <1>2, WriteRowStep, ProposeFacts DEF RowStates, PolicyInv, PolicyTypeOK
  <1>4. /\ callStatus[c] = "NONE" /\ lease[j] = l
        /\ call'[c] = [job |-> j, lease |-> l, name |-> name]
        /\ \A d \in Calls : d # c => call'[d] = call[d]
    BY <1>1, ProposeFacts
  <1>5. CASE Hold(j, runner[j], l) /\ UNCHANGED <<hub, todo>>
    <2>1. Effect /\ (\A k \in Jobs : k # j => KeepsHold(k)) /\ lease' = lease
      BY <1>5, HoldFacts
    <2>2. Explains(c, j)'
      BY <2>1, <1>3, <1>4 DEF Explains, JobOf
    <2>3. HoldsExplained'
      BY <1>3, <1>4, <1>5, <2>1, <2>2, HoldsKept DEF RowStep, KeepsHold, Explains
    <2>4. QED
      BY <1>3, <2>1, <2>3 DEF CallEffect
  <1>6. CASE CrashBetween
    BY <1>3, <1>4, <1>6, HubEffect, CrashKeepsHolds DEF CrashBetween, QuietEffect, CallEffect
  <1>7. QED
    BY <1>1, <1>5, <1>6

LEMMA ReevaluateEffect ==
    ASSUME PolicyInv, TypeOK', NEW c \in Calls, Reevaluate(c)
    PROVE  CallEffect(c)
  <1> DEFINE j == JobOf(c)
             l == call[c].lease
  <1>1. /\ UNCHANGED policyVars /\ callStatus[c] = "WAIT_APPROVAL"
        /\ BoundToCall(c) /\ Hold(j, runner[j], l)
    BY DEF Reevaluate, Decision
  <1>2. j \in Jobs /\ lease[j] = l
    BY <1>1, CallNamesJob DEF PolicyInv, BoundToCall
  <1>3. RowStep(c)
    BY <1>1 DEF PolicyInv, PolicyTypeOK, CallsListed, policyVars, RowStep, OnlyRow, RowContent
  <1>4. Effect /\ (\A k \in Jobs : k # j => KeepsHold(k)) /\ lease' = lease
    BY <1>1, <1>2, HoldFacts
  <1>5. Explains(c, j) /\ UNCHANGED <<callStatus, call, hub, todo>>
    BY <1>1, <1>2 DEF Explains, policyVars
  <1>6. HoldsExplained'
    <2>1. \A k \in Jobs : k = j => Explains(c, k)'
      BY <1>1, <1>4, <1>5 DEF Explains, JobOf
    <2>2. \A k \in Jobs : k # j => ~Explains(c, k)
      BY DEF Explains
    <2>3. QED
      BY <1>3, <1>4, <1>5, <2>1, <2>2, HoldsKept DEF RowStep, KeepsHold
  <1>7. QED
    BY <1>3, <1>4, <1>6 DEF CallEffect

\* The Owner's decision: the job is released, or the process ends before it is.
LEMMA DecidedHolds ==
    ASSUME PolicyInv, NEW c \in Calls, NEW j \in Jobs, j = JobOf(c), callStatus[c] # "NONE",
           RowStep(c), callStatus'[c] # "NONE",
           \/ /\ Dispatch(c) \/ Redispatch(c)
              /\ hub' = hub /\ \A d \in ToSet(todo) : d # c => d \in ToSet(todo')
           \/ CrashBetween
    PROVE  Effect /\ HoldsExplained'
  <1>1. CASE /\ Dispatch(c) \/ Redispatch(c)
             /\ hub' = hub /\ \A d \in ToSet(todo) : d # c => d \in ToSet(todo')
    <2>1. QuietEffect /\ ~HeldAgent(j)'
      BY <1>1, DecisionFacts
    <2>2. \A k \in Jobs : k # j => ~Explains(c, k)
      BY DEF Explains
    <2>3. HoldsExplained'
      BY <1>1, <2>1, <2>2, HoldsKept DEF QuietEffect, KeepsHold, RowStep
    <2>4. QED
      BY <2>1, <2>3 DEF QuietEffect
  <1>2. CASE CrashBetween
    <2>1. \A d \in Calls : callStatus[d] # "NONE" => callStatus'[d] # "NONE" /\ call'[d] = call[d]
      BY DEF RowStep, OnlyRow, RowContent
    <2>2. QED
      BY <1>2, <2>1, HubEffect, CrashKeepsHolds DEF CrashBetween, QuietEffect
  <1>3. QED
    BY <1>1, <1>2

LEMMA ClearCallEffect ==
    ASSUME PolicyInv, TypeOK', NEW c \in Calls, ClearCall(c)
    PROVE  CallEffect(c)
  <1> DEFINE j == JobOf(c)
  <1>1. /\ callStatus[c] = "WAIT_APPROVAL" /\ BoundToCall(c) /\ ~LeaseLapsed(j)
        /\ WriteRow(c, "APPROVED") /\ Authorize(c, j) /\ cleared' = cleared \cup {c}
        /\ UNCHANGED <<call, unavailable>>
        /\ (Dispatch(c) /\ UNCHANGED <<hub, todo>>) \/ CrashBetween
    BY DEF ClearCall, AwaitingClearance, HeldForCall
  <1>2. j \in Jobs /\ lease[j] = call[c].lease
    BY <1>1, CallNamesJob DEF PolicyInv, BoundToCall
  <1>3. ttl[j] >= 0
    BY <1>1, <1>2 DEF LeaseLapsed, PolicyInv, PolicyTypeOK, TypeOK
  <1>4. UNCHANGED <<lease, ttl>>
    BY <1>1 DEF Dispatch, DispatchAfterToolApproval, KeepLease, CrashBetween, vars
  <1>5. /\ authTtl' \in [Calls -> 0..AuthorityTicks] /\ authTtl'[c] <= ttl[j]
        /\ \A d \in Calls : d # c => authTtl'[d] = authTtl[d]
    BY <1>1, <1>2, <1>3, AuthorizeFacts
  <1>6. Authorized(c) /\ RowContent(c)
    BY <1>1, <1>2, <1>4, <1>5 DEF Authorized, RowContent, JobOf
  <1>7. hub' \in {"up", "down", "opening"} /\ todo' \in Seq(Calls)
    BY <1>1, CrashBetweenType DEF PolicyInv, PolicyTypeOK
  <1>8. RowStep(c) /\ callStatus'[c] = "APPROVED"
    BY <1>1, <1>5, <1>6, <1>7, WriteRowStep DEF RowStates, PolicyInv, PolicyTypeOK
  <1>9. Effect /\ HoldsExplained'
    BY <1>1, <1>2, <1>8, DecidedHolds
  <1>10. QED
    BY <1>8, <1>9 DEF CallEffect

LEMMA NoAuthorityFacts ==
    ASSUME PolicyInv, NEW c \in Calls, NoAuthority(c)
    PROVE  /\ authTtl' \in [Calls -> 0..AuthorityTicks]
           /\ \A d \in Calls : d # c => authTtl'[d] = authTtl[d]
  BY AuthorityAssumption DEF PolicyInv, PolicyTypeOK, NoAuthority

LEMMA ClearCallTooLateEffect ==
    ASSUME PolicyInv, TypeOK', NEW c \in Calls, ClearCallTooLate(c)
    PROVE  CallEffect(c)
  <1> DEFINE j == JobOf(c)
  <1>1. /\ callStatus[c] = "WAIT_APPROVAL" /\ BoundToCall(c)
        /\ WriteRow(c, "DENIED") /\ NoAuthority(c)
        /\ UNCHANGED <<call, unavailable, cleared>>
        /\ (Redispatch(c) /\ UNCHANGED <<hub, todo>>) \/ CrashBetween
    BY DEF ClearCallTooLate, AwaitingClearance, HeldForCall
  <1>2. j \in Jobs
    BY <1>1, CallNamesJob DEF PolicyInv
  <1>3. RowContent(c)
    BY <1>1 DEF RowContent
  <1>4. hub' \in {"up", "down", "opening"} /\ todo' \in Seq(Calls)
    BY <1>1, CrashBetweenType DEF PolicyInv, PolicyTypeOK
  <1>5. RowStep(c) /\ callStatus'[c] = "DENIED"
    BY <1>1, <1>3, <1>4, NoAuthorityFacts, WriteRowStep DEF RowStates, PolicyInv, PolicyTypeOK
  <1>6. Effect /\ HoldsExplained'
    BY <1>1, <1>2, <1>5, DecidedHolds
  <1>7. QED
    BY <1>5, <1>6 DEF CallEffect

-----------------------------------------------------------------------------
\* The rows of a start.  What it skips holds no job, so it explains none.
LEMMA ReconcilingFacts ==
    ASSUME PolicyInv, NEW c \in Calls, Reconciling(c), RowDone
    PROVE  /\ hub' = hub /\ todo' \in Seq(Calls)
           /\ \A d \in ToSet(todo) : d # c => d \in ToSet(todo')
  BY RowDoneFacts DEF PolicyInv, Reconciling

LEMMA SameRow ==
    ASSUME PolicyInv, TypeOK', NEW c \in Calls,
           UNCHANGED <<callStatus, call, authTtl, rowOrder, unavailable, cleared>>,
           hub' \in {"up", "down", "opening"}, todo' \in Seq(Calls)
    PROVE  RowStep(c)
  BY DEF PolicyInv, PolicyTypeOK, CallsListed, RowStep, OnlyRow, RowContent

LEMMA RestoreHoldEffect ==
    ASSUME PolicyInv, TypeOK', NEW c \in Calls, RestoreHold(c)
    PROVE  CallEffect(c)
  <1> DEFINE j == JobOf(c)
  <1>1. /\ callStatus[c] = "WAIT_APPROVAL" /\ BoundToCall(c)
        /\ UNCHANGED <<callStatus, call, authTtl, rowOrder, unavailable, cleared>>
        /\ (Hold(j, runner[j], call[c].lease) /\ RowDone) \/ CrashBetween
    BY DEF RestoreHold, StillHeldByLease
  <1>2. j \in Jobs /\ lease[j] = call[c].lease
    BY <1>1, CallNamesJob DEF PolicyInv, BoundToCall
  <1>3. CASE Hold(j, runner[j], call[c].lease) /\ RowDone
    <2>1. /\ hub' = hub /\ todo' \in Seq(Calls)
          /\ \A d \in ToSet(todo) : d # c => d \in ToSet(todo')
      BY <1>3, ReconcilingFacts DEF RestoreHold
    <2>2. RowStep(c)
      BY <1>1, <2>1, SameRow DEF PolicyInv, PolicyTypeOK
    <2>3. Effect /\ (\A k \in Jobs : k # j => KeepsHold(k)) /\ lease' = lease
      BY <1>2, <1>3, HoldFacts
    <2>4. \A k \in Jobs : k = j => Explains(c, k)'
      BY <1>1, <1>2, <2>3 DEF Explains, JobOf
    <2>5. \A k \in Jobs : k # j => ~Explains(c, k)
      BY DEF Explains
    <2>6. HoldsExplained'
      BY <2>1, <2>2, <2>3, <2>4, <2>5, HoldsKept DEF RowStep, KeepsHold
    <2>7. QED
      BY <2>2, <2>3, <2>6 DEF CallEffect
  <1>4. CASE CrashBetween
    <2>1. RowStep(c)
      BY <1>1, <1>4, CrashBetweenType, SameRow
    <2>2. QED
      BY <1>1, <1>4, <2>1, HubEffect, CrashKeepsHolds DEF CrashBetween, QuietEffect, CallEffect
  <1>5. QED
    BY <1>1, <1>3, <1>4

LEMMA CompleteClearanceEffect ==
    ASSUME PolicyInv, TypeOK', NEW c \in Calls, CompleteClearance(c)
    PROVE  CallEffect(c)
  <1> DEFINE j == JobOf(c)
  <1>1. /\ callStatus[c] # "NONE" /\ BoundToCall(c) /\ Dispatch(c)
        /\ Reconciling(c) /\ RowDone
        /\ UNCHANGED <<callStatus, call, authTtl, rowOrder, unavailable, cleared>>
    BY DEF CompleteClearance, Decision, HeldForCall
  <1>2. j \in Jobs
    BY <1>1, CallNamesJob DEF PolicyInv
  <1>3. /\ hub' = hub /\ todo' \in Seq(Calls)
        /\ \A d \in ToSet(todo) : d # c => d \in ToSet(todo')
    BY <1>1, ReconcilingFacts
  <1>4. RowStep(c)
    BY <1>1, <1>3, SameRow DEF PolicyInv, PolicyTypeOK
  <1>5. Effect /\ HoldsExplained'
    BY <1>1, <1>2, <1>3, <1>4, DecidedHolds
  <1>6. QED
    BY <1>4, <1>5 DEF CallEffect

\* A row that holds no job leaves every explanation as it is.
LEMMA FreeRowHolds ==
    ASSUME PolicyInv, NEW c \in Calls, ~HeldForCall(c), UNCHANGED vars, RowStep(c),
           hub' = hub, \A d \in ToSet(todo) : d # c => d \in ToSet(todo')
    PROVE  Effect /\ HoldsExplained'
  <1>1. QuietEffect
    BY HubEffect
  <1>2. \A k \in Jobs : HeldAgent(k)' => HeldAgent(k) /\ lease'[k] = lease[k] /\ ~Explains(c, k)
    BY <1>1 DEF QuietEffect, KeepsHold, HeldAgent, Explains, HeldForCall, BoundToCall
  <1>3. QED
    BY <1>1, <1>2, HoldsKept DEF RowStep, QuietEffect

LEMMA DenyRowEffect ==
    ASSUME PolicyInv, TypeOK', NEW c \in Calls, DenyRow(c)
    PROVE  CallEffect(c)
  <1> DEFINE j == JobOf(c)
  <1>1. /\ callStatus[c] # "NONE" /\ WriteRow(c, "DENIED") /\ NoAuthority(c) /\ Reconciling(c)
        /\ UNCHANGED <<call, unavailable, cleared>>
    BY DEF DenyRow, MustDeny, Decision
  <1>2. \/ HeldForCall(c) /\ Redispatch(c) /\ RowDone
        \/ HeldForCall(c) /\ CrashBetween
        \/ ~HeldForCall(c) /\ UNCHANGED vars /\ RowDone
    BY DEF DenyRow
  <1>3. RowContent(c)
    BY <1>1 DEF RowContent
  <1>4. hub' \in {"up", "down", "opening"} /\ todo' \in Seq(Calls)
    BY <1>1, <1>2, CrashBetweenType, ReconcilingFacts DEF PolicyInv, PolicyTypeOK
  <1>5. RowStep(c) /\ callStatus'[c] = "DENIED"
    BY <1>1, <1>3, <1>4, NoAuthorityFacts, WriteRowStep DEF RowStates, PolicyInv, PolicyTypeOK
  <1>6. HeldForCall(c) => j \in Jobs
    BY <1>1, CallNamesJob DEF PolicyInv, HeldForCall
  <1>7. RowDone => hub' = hub /\ \A d \in ToSet(todo) : d # c => d \in ToSet(todo')
    BY <1>1, ReconcilingFacts
  <1>8. Effect /\ HoldsExplained'
    BY <1>1, <1>2, <1>5, <1>6, <1>7, DecidedHolds, FreeRowHolds
  <1>9. QED
    BY <1>5, <1>8 DEF CallEffect

LEMMA SkipRowEffect ==
    ASSUME PolicyInv, TypeOK', NEW c \in Calls, SkipRow(c)
    PROVE  CallEffect(c)
  <1>1. /\ hub' = hub /\ todo' \in Seq(Calls)
        /\ \A d \in ToSet(todo) : d # c => d \in ToSet(todo')
    BY ReconcilingFacts DEF SkipRow
  <1>2. RowStep(c)
    BY <1>1, SameRow DEF SkipRow, PolicyInv, PolicyTypeOK
  <1>3. Effect /\ HoldsExplained'
    BY <1>1, <1>2, FreeRowHolds DEF SkipRow
  <1>4. QED
    BY <1>2, <1>3 DEF CallEffect

-----------------------------------------------------------------------------
(***************************************************************************)
(* The steps about no call.                                                *)
(***************************************************************************)
LEMMA RowsAlone ==
    ASSUME PolicyInv, Effect,
           UNCHANGED <<callStatus, call, authTtl, rowOrder, cleared>>
    PROVE  RowsKept
  <1>1. ASSUME NEW d \in Calls, callStatus[d] # "NONE"
        PROVE  /\ call'[d] \in CallContent
               /\ tool'[JobOf(d)] = "agent"
               /\ call'[d].lease <= lease'[JobOf(d)]
               /\ Decision(d)' = "APPROVED" =>
                    /\ Decision(d) = "APPROVED"
                    /\ call[d].lease = lease'[JobOf(d)]
                    /\ authTtl[d] <= ttl'[JobOf(d)]
    BY <1>1, CallKept
  <1>2. CallsKnown' /\ AuthorityWithinLease'
    BY <1>1 DEF CallsKnown, AuthorityWithinLease, Decision, JobOf
  <1>3. CallsListed' /\ OwnerClearedCall'
    BY DEF PolicyInv, CallsListed, OwnerClearedCall
  <1>4. QED
    BY <1>2, <1>3, RunnersKept DEF RowsKept

LEMMA TickKeeps ==
    ASSUME PolicyInv, TypeOK', PolicyTick
    PROVE  PolicyTypeOK' /\ RowsKept /\ HoldsExplained'
  <1>1. /\ ttl' = [j \in Jobs |-> IF ttl[j] >= 0 THEN ttl[j] - 1 ELSE -1]
        /\ UNCHANGED <<status, tool, runner, lease>>
        /\ authTtl' = [c \in Calls |-> IF authTtl[c] > 0 THEN authTtl[c] - 1 ELSE 0]
        /\ UNCHANGED <<callStatus, call, rowOrder, hub, todo, unavailable, cleared>>
    BY DEF PolicyTick, Tick
  <1>2. AuthorityTicks \in Nat /\ authTtl \in [Calls -> 0..AuthorityTicks]
    BY AuthorityAssumption DEF PolicyInv, PolicyTypeOK
  <1>3. PolicyTypeOK'
    <2>1. authTtl' \in [Calls -> 0..AuthorityTicks]
      BY <1>1, <1>2
    <2>2. QED
      BY <1>1, <2>1 DEF PolicyInv, PolicyTypeOK
  <1>4. RunnersKnown' /\ CallsKnown' /\ CallsListed' /\ OwnerClearedCall'
    BY <1>1 DEF PolicyInv, RunnersKnown, CallsKnown, CallsListed, OwnerClearedCall, JobOf
  <1>5. ASSUME NEW c \in Calls, Decision(c)' = "APPROVED"
        PROVE  call'[c].lease = lease'[JobOf(c)'] /\ authTtl'[c] <= ttl'[JobOf(c)']
    <2> DEFINE j == JobOf(c)
    <2>1. callStatus[c] = "APPROVED" /\ authTtl'[c] # 0
      BY <1>1, <1>5 DEF Decision
    <2>2. authTtl[c] \in Nat /\ authTtl[c] > 0 /\ authTtl'[c] = authTtl[c] - 1
      BY <1>1, <1>2, <2>1
    <2>3. j \in Jobs /\ call[c].lease = lease[j] /\ authTtl[c] <= ttl[j]
      BY <2>1, <2>2 DEF Decision, PolicyInv, AuthorityWithinLease, CallsKnown, CallContent, JobOf
    <2>4. ttl[j] \in Int
      BY <2>3, LeaseTicksAssumption DEF PolicyInv, PolicyTypeOK, TypeOK
    <2>5. ttl'[j] = ttl[j] - 1
      BY <1>1, <2>2, <2>3, <2>4
    <2>6. call'[c].lease = lease'[j] /\ authTtl'[c] <= ttl'[j]
      <3> HIDE DEF j
      <3>1. QED
        BY <1>1, <2>2, <2>3, <2>4, <2>5
    <2>7. JobOf(c)' = j
      BY <1>1 DEF JobOf
    <2>8. QED
      BY <2>6, <2>7
  <1>6. AuthorityWithinLease'
    BY <1>5 DEF AuthorityWithinLease
  <1>7. HoldsExplained'
    BY <1>1 DEF PolicyInv, HoldsExplained, HeldAgent, Explains, JobOf
  <1>8. QED
    BY <1>3, <1>4, <1>6, <1>7 DEF RowsKept

LEMMA ProcessKeeps ==
    ASSUME PolicyInv, TypeOK', Crash \/ Open \/ Opened \/ UNCHANGED allVars
    PROVE  PolicyTypeOK' /\ RowsKept /\ HoldsExplained'
  <1>1. UNCHANGED <<vars, callStatus, call, authTtl, rowOrder, cleared>>
    BY DEF Crash, Open, Opened, allVars, policyVars
  <1>2. RowsKept
    BY <1>1, HubEffect, RowsAlone DEF QuietEffect
  <1>3. PolicyTypeOK'
    <2>1. hub' \in {"up", "down", "opening"} /\ todo' \in Seq(Calls)
      BY EmptySeq DEF Crash, Open, Opened, allVars, policyVars, RowsToReconcile, PolicyInv, PolicyTypeOK
    <2>2. unavailable' \in SUBSET ToolNames
      BY ToolListsAssumption DEF Crash, Open, Opened, allVars, policyVars, PolicyInv, PolicyTypeOK
    <2>3. QED
      BY <1>1, <2>1, <2>2 DEF PolicyInv, PolicyTypeOK
  <1>4. ASSUME NEW j \in Jobs, HeldAgent(j)'
        PROVE  \E d \in Calls : Explains(d, j)'
    <2>1. HeldAgent(j) /\ lease'[j] = lease[j]
      BY <1>1, <1>4 DEF vars, HeldAgent
    <2>2. PICK d \in Calls : Explains(d, j)
      BY <2>1 DEF PolicyInv, HoldsExplained
    <2>3. callStatus[d] # "NONE" /\ d \in ToSet(rowOrder)
      BY <2>2 DEF Explains, PolicyInv, CallsListed
    <2>4. CASE Crash
      BY <1>1, <2>1, <2>2, <2>4 DEF Crash, Explains, JobOf
    <2>5. CASE Open
      BY <1>1, <2>1, <2>2, <2>3, <2>5 DEF Open, RowsToReconcile, Explains, JobOf
    <2>6. CASE Opened
      <3>1. ToSet(todo) = {}
        BY <2>6, EmptySeq, LenProperties DEF Opened, ToSet
      <3>2. QED
        BY <1>1, <2>1, <2>2, <2>6, <3>1 DEF Opened, Explains, JobOf
    <2>7. CASE UNCHANGED allVars
      BY <1>1, <2>1, <2>2, <2>7 DEF allVars, policyVars, Explains, JobOf
    <2>8. QED
      BY <2>4, <2>5, <2>6, <2>7
  <1>5. QED
    BY <1>2, <1>3, <1>4 DEF HoldsExplained

LEMMA JobStepKeeps ==
    ASSUME PolicyInv, TypeOK', NEW j \in Jobs, JobStep(j), UNCHANGED policyVars
    PROVE  PolicyTypeOK' /\ RowsKept /\ HoldsExplained'
  <1>1. QuietEffect
    BY JobStepEffect DEF PolicyInv, PolicyTypeOK, IInv
  <1>2. RowsKept
    BY <1>1, RowsAlone DEF policyVars, QuietEffect
  <1>3. PolicyTypeOK'
    BY DEF PolicyInv, PolicyTypeOK, policyVars
  <1>4. HoldsExplained'
    BY <1>1 DEF PolicyInv, HoldsExplained, QuietEffect, KeepsHold, Explains, JobOf, policyVars
  <1>5. QED
    BY <1>2, <1>3, <1>4

-----------------------------------------------------------------------------
LEMMA PolicyInitInv == PolicyInit => PolicyInv
  <1> SUFFICES ASSUME PolicyInit
               PROVE  PolicyInv
    OBVIOUS
  <1>1. TypeOK /\ IInv
    BY InitType, InitInv DEF PolicyInit
  <1>2. PolicyTypeOK
    BY <1>1, EmptySeq, AuthorityAssumption, ToolListsAssumption DEF PolicyInit, PolicyTypeOK
  <1>3. /\ RunnersKnown /\ CallsKnown /\ CallsListed
        /\ AuthorityWithinLease /\ OwnerClearedCall /\ HoldsExplained
    BY DEF PolicyInit, Init, RunnersKnown, CallsKnown, CallsListed, AuthorityWithinLease,
           Decision, OwnerClearedCall, HoldsExplained, HeldAgent
  <1>4. QED
    BY <1>1, <1>2, <1>3 DEF PolicyInv

\* Every step about a call is one of those.
LEMMA CallStepEffect ==
    ASSUME PolicyInv, TypeOK', NEW c \in Calls, CallStep(c) \/ OpenStep(c)
    PROVE  CallEffect(c)
  <1>1. CASE CallStep(c)
    BY <1>1, ReevaluateEffect, ClearCallEffect, ClearCallTooLateEffect,
       ProposeUnavailableEffect, ProposeReadEffect, ProposeGuardedEffect DEF CallStep
  <1>2. CASE OpenStep(c)
    BY <1>2, RestoreHoldEffect, CompleteClearanceEffect, DenyRowEffect, SkipRowEffect
    DEF OpenStep
  <1>3. QED
    BY <1>1, <1>2

LEMMA PolicyStepInv == PolicyInv /\ [PolicyNext]_allVars => PolicyInv'
  <1> SUFFICES ASSUME PolicyInv, [PolicyNext]_allVars
               PROVE  PolicyInv'
    OBVIOUS
  <1>1. IInv' /\ TypeOK'
    BY StepSimulation, StepInv DEF PolicyInv, IInv
  <1>2. ASSUME NEW c \in Calls, CallStep(c) \/ OpenStep(c)
        PROVE  PolicyTypeOK' /\ RowsKept /\ HoldsExplained'
    BY <1>1, <1>2, CallStepEffect, RowStepKeeps DEF CallEffect, RowStep
  <1>3. PolicyTypeOK' /\ RowsKept /\ HoldsExplained'
    BY <1>1, <1>2, TickKeeps, ProcessKeeps, JobStepKeeps DEF PolicyNext
  <1>4. QED
    BY <1>1, <1>3 DEF PolicyInv, RowsKept

-----------------------------------------------------------------------------
(***************************************************************************)
(* What any step does to a job: it keeps its tool and its Runner, a lease  *)
(* only runs down or is superseded, and an ended job stays ended.          *)
(***************************************************************************)
JobMoves(j) ==
    /\ tool[j] # "ABSENT" => tool'[j] = tool[j]
    /\ status[j] # "ABSENT" => runner'[j] = runner[j]
    /\ status[j] \in Terminal => status'[j] = status[j]
    /\ \/ lease'[j] = lease[j] /\ ttl'[j] <= ttl[j]
       \/ lease'[j] = lease[j] + 1

LEMMA JobsMove ==
    ASSUME PolicyInv, PolicyNext
    PROVE  \A j \in Jobs : JobMoves(j)
  <1>1. IInv /\ [Next]_vars /\ TypeOK'
    BY StepSimulation, StepInv DEF PolicyInv, IInv
  <1>2. \A j \in Jobs : status[j] \in Terminal => status'[j] = status[j]
    BY <1>1, TerminalStep
  <1>3. \A j \in Jobs : ttl[j] \in Int
    BY <1>1, LeaseTicksAssumption DEF IInv, TypeOK
  <1>4. CASE PolicyTick
    <2>1. /\ ttl' = [j \in Jobs |-> IF ttl[j] >= 0 THEN ttl[j] - 1 ELSE -1]
          /\ UNCHANGED <<tool, runner, lease>>
      BY <1>4 DEF PolicyTick, Tick
    <2>2. \A j \in Jobs : ttl[j] >= -1
      BY <1>1, LeaseTicksAssumption DEF IInv, TypeOK
    <2>3. \A j \in Jobs : ttl'[j] <= ttl[j]
      BY <1>3, <2>1, <2>2
    <2>4. QED
      BY <1>2, <2>1, <2>3 DEF JobMoves
  <1>5. CASE Effect
    BY <1>2, <1>3, <1>5 DEF Effect, RowEffect, JobMoves
  <1>6. CASE Crash \/ Open \/ Opened
    BY <1>5, <1>6, HubEffect DEF Crash, Open, Opened, QuietEffect
  <1>7. ASSUME NEW j \in Jobs, JobStep(j)
        PROVE  Effect
    BY <1>7, JobStepEffect DEF PolicyInv, PolicyTypeOK, IInv, QuietEffect
  <1>8. ASSUME NEW c \in Calls, CallStep(c) \/ OpenStep(c)
        PROVE  Effect
    BY <1>1, <1>8, CallStepEffect DEF CallEffect
  <1>9. QED
    BY <1>4, <1>5, <1>6, <1>7, <1>8 DEF PolicyNext

-----------------------------------------------------------------------------
(***************************************************************************)
(* The policy never leaves its inductive invariant.                        *)
(***************************************************************************)
THEOREM PolicyInvariance == PolicySpec => []PolicyInv
  BY PolicyInitInv, PolicyStepInv, PTL DEF PolicySpec

(***************************************************************************)
(* The tables of the Hub stay well formed, the process dying anywhere.     *)
(***************************************************************************)
THEOREM PolicyTypeCorrect == PolicySpec => []PolicyTypeOK
  <1>1. PolicyInv => PolicyTypeOK
    BY DEF PolicyInv
  <1>2. QED
    BY <1>1, PolicyInvariance, PTL

(***************************************************************************)
(* The Hub with its policy, its crashes and its starts does to the jobs    *)
(* only what the registry alone may do: all that is proved of the registry *)
(* holds of it too.                                                        *)
(***************************************************************************)
THEOREM PolicyUsesRegistry == PolicySpec => Spec
  <1>1. PolicyInit => Init
    BY DEF PolicyInit
  <1>2. PolicyInv /\ [PolicyNext]_allVars => [Next]_vars
    BY StepSimulation
  <1>3. QED
    BY <1>1, <1>2, PolicyInvariance, PTL DEF PolicySpec, Spec

(***************************************************************************)
(* What can be executed belongs to the current lease and ends with it.     *)
(***************************************************************************)
THEOREM AuthorityIsLeased == PolicySpec => []AuthorityWithinLease
  <1>1. PolicyInv => AuthorityWithinLease
    BY DEF PolicyInv
  <1>2. QED
    BY <1>1, PolicyInvariance, PTL

(***************************************************************************)
(* No call that writes or restarts is authorized without the Owner.        *)
(***************************************************************************)
THEOREM OwnerClearsCalls == PolicySpec => []OwnerClearedCall
  <1>1. PolicyInv => OwnerClearedCall
    BY DEF PolicyInv
  <1>2. QED
    BY <1>1, PolicyInvariance, PTL

(***************************************************************************)
(* A Hub that serves requests leaves no Agent job held without a call the  *)
(* Owner can decide, whatever commit a crash came after.                   *)
(***************************************************************************)
THEOREM HeldJobsAreReleasable == PolicySpec => []HeldJobIsReleasable
  <1>1. PolicyInv => HeldJobIsReleasable
    BY DEF PolicyInv, HoldsExplained, HeldAgent, Explains, HeldJobIsReleasable
  <1>2. QED
    BY <1>1, PolicyInvariance, PTL

-----------------------------------------------------------------------------
\* What a step about a call does to a call that was decided: nothing, or denies it.
LEMMA DecidedRow ==
    ASSUME PolicyTypeOK, NEW c \in Calls, CallStep(c) \/ OpenStep(c)
    PROVE  /\ \A d \in Calls : d # c => callStatus'[d] = callStatus[d] /\ authTtl'[d] = authTtl[d]
           /\ \/ UNCHANGED <<callStatus, authTtl>>
              \/ callStatus[c] \in {"NONE", "WAIT_APPROVAL"}
              \/ callStatus'[c] = "DENIED"
  <1>1. CASE Reevaluate(c) \/ RestoreHold(c) \/ CompleteClearance(c) \/ SkipRow(c)
    BY <1>1 DEF Reevaluate, policyVars, RestoreHold, CompleteClearance, SkipRow
  <1>2. CASE ClearCall(c) \/ ClearCallTooLate(c)
    BY <1>2 DEF ClearCall, ClearCallTooLate, AwaitingClearance, WriteRow, Authorize, NoAuthority,
                PolicyTypeOK
  <1>3. CASE DenyRow(c)
    BY <1>3 DEF DenyRow, WriteRow, NoAuthority, PolicyTypeOK
  <1>4. ASSUME NEW j \in Jobs, NEW l \in 1..MaxLease, NEW name \in ToolNames,
               \/ ProposeUnavailable(c, j, l, name)
               \/ ProposeRead(c, j, l, name)
               \/ ProposeGuarded(c, j, l, name)
        PROVE  /\ \A d \in Calls : d # c => callStatus'[d] = callStatus[d] /\ authTtl'[d] = authTtl[d]
               /\ callStatus[c] = "NONE"
    BY <1>4 DEF ProposeUnavailable, ProposeRead, ProposeGuarded, Propose, WriteRow, Authorize,
                PolicyTypeOK
  <1>5. QED
    BY <1>1, <1>2, <1>3, <1>4 DEF CallStep, OpenStep

(***************************************************************************)
(* A refused or expired call is never executable again.                    *)
(***************************************************************************)
THEOREM DenialsAreFinal == PolicySpec => DenialIsFinal
  <1> DEFINE A == \A c \in Calls : Decision(c) = "DENIED" => Decision(c)' = "DENIED"
  <1>1. PolicyTypeOK /\ [PolicyNext]_allVars => [A]_allVars
    <2> SUFFICES ASSUME PolicyTypeOK, PolicyNext, NEW d \in Calls, Decision(d) = "DENIED"
                 PROVE  Decision(d)' = "DENIED"
      OBVIOUS
    <2>1. callStatus[d] = "DENIED" \/ (callStatus[d] = "APPROVED" /\ authTtl[d] = 0)
      BY DEF Decision
    <2>2. CASE PolicyTick
      BY <2>1, <2>2 DEF PolicyTick, Decision
    <2>3. ASSUME NEW c \in Calls, CallStep(c) \/ OpenStep(c)
          PROVE  Decision(d)' = "DENIED"
      BY <2>1, <2>3, DecidedRow DEF Decision
    <2>4. CASE Crash \/ Open \/ Opened \/ UNCHANGED policyVars
      BY <2>1, <2>4 DEF Crash, Open, Opened, policyVars, Decision
    <2>5. QED
      BY <2>2, <2>3, <2>4 DEF PolicyNext
  <1>2. QED
    BY <1>1, PolicyTypeCorrect, PTL DEF PolicySpec, DenialIsFinal
===============================================================================
