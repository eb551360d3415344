---------------------------- MODULE ChannelOutbox ----------------------------
(***************************************************************************)
(* The notices the Hub owes the Owner in a private channel: one for the    *)
(* end of every job a message of that channel created, one for every node  *)
(* call of such a job that waits for clearance (channel-outbox.ts), the    *)
(* Gateway's loops that deliver them (channel-gateway/src/index.ts), and   *)
(* the reply in the channel that clears a call (server.ts).                *)
(*                                                                         *)
(* A channel has one paired sender, so a recipient is a channel.  A notice *)
(* is named by what it is about: the job (UNIQUE job_id) or the call       *)
(* (UNIQUE call_id).  The handlers of the Hub that record and announce do  *)
(* not wait in between, so only the end of the process can separate the    *)
(* two; what it left undone is announced when the Hub starts.              *)
(***************************************************************************)
EXTENDS Naturals, FiniteSets, SequencesExt

CONSTANTS
    OutJobs, OutCalls,
    GraveCalls,     \* calls of risk R3, cleared in the console only
    Channels,
    Polled,         \* the channels whose provider keeps a message until it is accepted
    Couriers,       \* delivery loops of the Gateway; a replaced one may still be ending
    Replies,        \* messages that say "confirm"
    MaxOutFaults    \* crashes, lost requests or answers, leases that run out in use

ASSUME OutboxAssumption ==
    /\ OutJobs \cap OutCalls = {} /\ GraveCalls \subseteq OutCalls
    /\ Polled \subseteq Channels
    /\ MaxOutFaults \in Nat

VARIABLES
    outHub,     \* the Hub's process runs
    outJob,     \* jobs_v2: "none", "open" or "ended"
    origin,     \* the channel of the message whose turn names the job
    binding,    \* channel_job_bindings_v1
    outCall,    \* node_tool_calls_v1: [status, job], and where the job was bound when it was asked
    callOrder,  \* the calls by updated_at
    notice,     \* the rows of the two outbox tables: [status, lease, late]
    posted,     \* their order of creation
    courier,    \* what each delivery loop is doing
    shown,      \* the notices the provider has shown the Owner
    reply,      \* "unsent", the channel that forwards it, or "answered"
    outFaults

jobsVars == <<outJob, origin, binding, outCall, callOrder>>
rowsVars == <<notice, posted>>
outVars == <<outHub, jobsVars, rowsVars, courier, shown, reply, outFaults>>

Notices == OutJobs \cup OutCalls
Nobody == "nobody"
NoNotice == [status |-> "none", lease |-> 0, late |-> FALSE]
Resting == [at |-> "idle", channel |-> Nobody, notice |-> Nobody, lease |-> 0]

OutboxTypeOK ==
    /\ outJob \in [OutJobs -> {"none", "open", "ended"}]
    /\ origin \in [OutJobs -> Channels \cup {Nobody}]
    /\ binding \in [OutJobs -> Channels \cup {Nobody}]
    /\ \A c \in OutCalls : outCall[c].status \in {"none", "WAIT_APPROVAL", "APPROVED", "DENIED"}
    /\ outHub \in BOOLEAN /\ shown \subseteq Notices
    /\ \A n \in Notices : notice[n].status \in {"none", "PENDING", "LEASED", "DELIVERED"}
    /\ ToSet(posted) = {n \in Notices : notice[n].status # "none"}
    /\ \A k \in Couriers : courier[k].at \in {"idle", "deliver", "acknowledge"}
    /\ reply \in [Replies -> {"unsent", "answered"} \cup Channels]

OutboxInit ==
    /\ outHub = TRUE
    /\ outJob = [j \in OutJobs |-> "none"]
    /\ origin = [j \in OutJobs |-> Nobody]
    /\ binding = [j \in OutJobs |-> Nobody]
    /\ outCall = [c \in OutCalls |-> [status |-> "none", job |-> Nobody, to |-> Nobody]]
    /\ callOrder = <<>> /\ posted = <<>> /\ shown = {}
    /\ notice = [n \in Notices |-> NoNotice]
    /\ courier = [k \in Couriers |-> Resting]
    /\ reply = [r \in Replies |-> "unsent"]
    /\ outFaults = 0

Fault == outFaults < MaxOutFaults /\ outFaults' = outFaults + 1
NoFault == UNCHANGED outFaults

JobOfNotice(n) == IF n \in OutJobs THEN n ELSE outCall'[n].job
RecipientOf(n) == IF JobOfNotice(n) = Nobody THEN Nobody ELSE binding'[JobOfNotice(n)]

\* Faulty variant: a notice that is not written.
EnqueueNothing(ns) == UNCHANGED rowsVars

\* One row for a job or call; an unbound job has no recipient.
EnqueueBound(ns) ==
    LET new == {n \in ns : notice[n].status = "none" /\ RecipientOf(n) # Nobody} IN
    /\ notice' = [n \in Notices |-> IF n \in new THEN [NoNotice EXCEPT !.status = "PENDING"] ELSE notice[n]]
    /\ posted' = posted \o SetToSeq(new)

\* The handler announces what it recorded, or the process ends first.
Announce(ns) ==
    \/ EnqueueBound(ns) /\ outHub' = outHub /\ NoFault
    \/ EnqueueNothing(ns) /\ outHub' = FALSE /\ Fault

HubEnds ==
    /\ outHub /\ Fault
    /\ outHub' = FALSE
    /\ UNCHANGED <<jobsVars, rowsVars, courier, shown, reply>>

\* Calls of ended jobs are denied, then every ended job and every pending call is announced.
HubStarts ==
    /\ ~outHub /\ outHub' = TRUE
    /\ outCall' = [c \in OutCalls |->
         IF outCall[c].status = "WAIT_APPROVAL" /\ outJob[outCall[c].job] = "ended"
           THEN [outCall[c] EXCEPT !.status = "DENIED"] ELSE outCall[c]]
    /\ UNCHANGED <<outJob, origin, binding, callOrder, courier, shown, reply>>
    /\ EnqueueBound({j \in OutJobs : outJob[j] = "ended"} \cup
                    {c \in OutCalls : outCall'[c].status = "WAIT_APPROVAL"})
    /\ NoFault

\* A message of the channel creates a job.  The process may end before the turn
\* names the job, or before the job is bound.
CreateJob(j, ch) ==
    /\ outHub /\ outJob[j] = "none"
    /\ outJob' = [outJob EXCEPT ![j] = "open"]
    /\ \/ /\ origin' = [origin EXCEPT ![j] = ch]
          /\ binding' = [binding EXCEPT ![j] = ch]
          /\ NoFault /\ UNCHANGED outHub
       \/ /\ origin' \in {origin, [origin EXCEPT ![j] = ch]}
          /\ Fault /\ outHub' = FALSE /\ UNCHANGED binding
    /\ UNCHANGED <<outCall, callOrder, rowsVars, courier, shown, reply>>

\* The provider hands the message over again: bind the job of its turn and observe it.
BindAgain(j) ==
    /\ outHub /\ origin[j] \in Polled
    /\ binding[j] = Nobody
    /\ binding' = [binding EXCEPT ![j] = origin[j]]
    /\ UNCHANGED <<outJob, origin, outCall, callOrder, courier, shown, reply>>
    /\ Announce({i \in {j} : outJob[i] = "ended"})

\* A terminal event, or the Owner stops the job.
EndJob(j) ==
    /\ outHub /\ outJob[j] = "open"
    /\ outJob' = [outJob EXCEPT ![j] = "ended"]
    /\ UNCHANGED <<origin, binding, outCall, callOrder, courier, shown, reply>>
    /\ Announce({j})

\* The Runner asks about a call that needs the Owner, for the first time or again.
AskAbout(c, j) ==
    /\ outHub /\ outJob[j] = "open"
    /\ \/ outCall[c].status = "none" /\ callOrder' = Append(callOrder, c)
       \/ outCall[c].status = "WAIT_APPROVAL" /\ outCall[c].job = j /\ UNCHANGED callOrder
    /\ outCall' = [outCall EXCEPT ![c] = [status |-> "WAIT_APPROVAL", job |-> j, to |-> binding[j]]]
    /\ UNCHANGED <<outJob, origin, binding, courier, shown, reply>>
    /\ Announce({c})

Decidable(c) == outCall[c].status = "WAIT_APPROVAL" /\ outJob[outCall[c].job] = "open"

DecideOnWeb(c) ==
    /\ outHub /\ Decidable(c)
    /\ \E verdict \in {"APPROVED", "DENIED"} : outCall' = [outCall EXCEPT ![c].status = verdict]
    /\ UNCHANGED <<outHub, outJob, origin, binding, callOrder, rowsVars, courier, shown, reply>>
    /\ NoFault

OwnerReplies(r, ch) ==
    /\ reply[r] = "unsent"
    /\ reply' = [reply EXCEPT ![r] = ch]
    /\ UNCHANGED <<outHub, jobsVars, rowsVars, courier, shown>>
    /\ NoFault

PendingFor(ch) ==
    SelectSeq(callOrder, LAMBDA c : outCall[c].status = "WAIT_APPROVAL" /\ binding[outCall[c].job] = ch)

\* The newest pending call of the recipient is cleared, unless it is of risk R3 or its
\* job ended; when the answer is lost a polled message is handled once more.
ApproveFromChannel(r) ==
    LET pending == PendingFor(reply[r])
        clearable == {c \in ToSet(pending) : c = Last(pending) /\ c \notin GraveCalls /\ Decidable(c)} IN
    /\ outHub /\ reply[r] \in Channels
    /\ outCall' = [c \in OutCalls |->
         IF c \in clearable THEN [outCall[c] EXCEPT !.status = "APPROVED"] ELSE outCall[c]]
    /\ \/ reply' = [reply EXCEPT ![r] = "answered"] /\ NoFault
       \/ reply[r] \in Polled /\ Fault /\ UNCHANGED reply
    /\ UNCHANGED <<outHub, outJob, origin, binding, callOrder, rowsVars, courier, shown>>

Held(n) == \E k \in Couriers : courier[k].notice = n

\* A lease of a minute runs out; that is a fault while its notice is under way.
LeaseRunsOut(n) ==
    /\ notice[n].status = "LEASED" /\ ~notice[n].late
    /\ IF Held(n) THEN Fault ELSE NoFault
    /\ notice' = [notice EXCEPT ![n].late = TRUE]
    /\ UNCHANGED <<outHub, jobsVars, posted, courier, shown, reply>>

\* Faulty variant: a lease that never ends.
DeliverableOnce(ch, n) == notice[n].status = "PENDING" /\ RecipientOf(n) = ch

Deliverable(ch, n) ==
    /\ notice[n].status = "PENDING" \/ (notice[n].status = "LEASED" /\ notice[n].late)
    /\ RecipientOf(n) = ch

Released(ch, n) ==
    IF Deliverable(ch, n) THEN [notice[n] EXCEPT !.status = "PENDING", !.late = FALSE] ELSE notice[n]

\* n may be delivered, and nothing that was posted before it.
Oldest(ch, n) ==
    \E i \in DOMAIN posted :
        /\ posted[i] = n /\ Deliverable(ch, n)
        /\ \A h \in 1..(i - 1) : ~Deliverable(ch, posted[h])

\* Expired leases end, then the oldest notice of both tables is leased anew.
Pull(k, ch) ==
    /\ outHub /\ courier[k] = Resting
    /\ UNCHANGED <<outHub, jobsVars, posted, shown, reply>>
    /\ \E n \in Notices :
         LET lease == notice[n].lease + 1 IN
         /\ Oldest(ch, n)
         /\ notice' = [m \in Notices |->
              IF m = n THEN [status |-> "LEASED", lease |-> lease, late |-> FALSE] ELSE Released(ch, m)]
         /\ \/ /\ courier' = [courier EXCEPT ![k] = [at |-> "deliver", channel |-> ch, notice |-> n, lease |-> lease]]
               /\ NoFault
            \/ Fault /\ UNCHANGED courier

\* The provider takes it; when its answer is lost the loop gives the notice up for now.
Deliver(k) ==
    /\ courier[k].at = "deliver"
    /\ shown' = shown \cup {courier[k].notice}
    /\ \/ courier' = [courier EXCEPT ![k].at = "acknowledge"] /\ NoFault
       \/ courier' = [courier EXCEPT ![k] = Resting] /\ Fault
    /\ UNCHANGED <<outHub, jobsVars, rowsVars, reply>>

Matches(n, lease) == notice[n].status = "LEASED" /\ notice[n].lease = lease

Acknowledge(k) ==
    /\ outHub /\ courier[k].at = "acknowledge"
    /\ LET n == courier[k].notice IN
       notice' = IF Matches(n, courier[k].lease)
                   THEN [notice EXCEPT ![n].status = "DELIVERED", ![n].late = FALSE] ELSE notice
    /\ courier' = [courier EXCEPT ![k] = Resting]
    /\ UNCHANGED <<outHub, jobsVars, posted, shown, reply>>
    /\ NoFault

\* The Gateway ends, the provider refuses, or the Hub is not reached.
CourierGivesUp(k) ==
    /\ courier[k] # Resting /\ Fault
    /\ courier' = [courier EXCEPT ![k] = Resting]
    /\ UNCHANGED <<outHub, jobsVars, rowsVars, shown, reply>>

OutboxNext ==
    \/ HubEnds \/ HubStarts
    \/ \E j \in OutJobs : \/ BindAgain(j) \/ EndJob(j)
                          \/ \E ch \in Channels : CreateJob(j, ch)
                          \/ \E c \in OutCalls : AskAbout(c, j)
    \/ \E n \in Notices : LeaseRunsOut(n)
    \/ \E c \in OutCalls : DecideOnWeb(c)
    \/ \E r \in Replies : ApproveFromChannel(r) \/ \E ch \in Channels : OwnerReplies(r, ch)
    \/ \E k \in Couriers : \/ Deliver(k) \/ Acknowledge(k) \/ CourierGivesUp(k)
                           \/ \E ch \in Channels : Pull(k, ch)

\* The Hub is restarted by systemd, providers and Gateway try again, a lease is a minute.
OutboxFairness ==
    /\ WF_outVars(HubStarts)
    /\ \A j \in OutJobs : WF_outVars(BindAgain(j))
    /\ \A n \in Notices : WF_outVars(~Held(n) /\ LeaseRunsOut(n))
    /\ \A k \in Couriers :
         /\ WF_outVars(Deliver(k) \/ Acknowledge(k))
         /\ \A ch \in Channels : WF_outVars(Pull(k, ch))

OutboxSpec == OutboxInit /\ [][OutboxNext]_outVars /\ OutboxFairness

M == INSTANCE Mailbox WITH
    Mail <- Notices,
    listed <- ToSet(posted),
    seen <- shown,
    settled <- {n \in Notices : notice[n].status = "DELIVERED"}

\* The two outbox tables and the delivery loops are a mailbox: a notice is taken off
\* the list only after the provider took it, and every one is shown, through crashes of
\* the Hub, two overlapping loops and leases that run out (channel-outbox.ts l.136-193).
ImplementsMailbox == M!MailSpec

\* The Owner is told about the end of every job whose message the provider keeps until
\* the Hub accepted it, also when the Hub ended before it bound the job or before it
\* enqueued the notice; and a call asked by a bound job that waits for the Owner is shown
\* in the channel, unless it was decided or its job ended before (server.ts l.657-661,
\* l.1594-1597, l.2135; channel-outbox.ts l.211).
OwnerIsTold ==
    /\ \A j \in OutJobs : (outJob[j] = "ended" /\ origin[j] \in Polled) ~> j \in shown
    /\ \A c \in OutCalls :
         (Decidable(c) /\ outCall[c].to \in Channels) ~> (c \in shown \/ ~Decidable(c))
=============================================================================
