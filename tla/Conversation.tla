---------------------------- MODULE Conversation ----------------------------
(***************************************************************************)
(* The conversation of the Owner with the Hub: conversation-registry.ts    *)
(* (the turns), conversation-orchestrator.ts (one message at a time per    *)
(* conversation through the model, its tools and a proposal) and the       *)
(* scheduling of a proposal as a job (server.ts).                          *)
(*                                                                         *)
(* A message is named by (channel, message_id).  It may be delivered again *)
(* while an earlier delivery is still being answered, with the same text   *)
(* or with another one.  What the model returns is the set of fields of    *)
(* its JSON object; prompts and texts are left out.  The idempotency key   *)
(* of the job is the turn, so a job is named by its message.               *)
(***************************************************************************)
EXTENDS Naturals, Sequences, FiniteSets

CONSTANTS
    Messages, ConversationOf,   \* the conversation each message belongs to
    Texts,
    Deliveries,                 \* 1..n, the requests that carry a message to the Hub as they come
    MaxToolCalls,               \* MAX_TOOL_CALLS_PER_TURN
    MaxTurnFaults               \* restarts of the Hub and images or results that cannot be read

ASSUME ConversationAssumption ==
    /\ DOMAIN ConversationOf = Messages
    /\ MaxToolCalls \in Nat /\ MaxTurnFaults \in Nat

VARIABLES
    turn,       \* conversation_turns_v1: [status, text, proposal, job]
    turnJob,    \* jobs_v2, by idempotency key: [count, status]
    asked,      \* how often the model was asked about a message for the first time
    delivery,   \* each request: [message, text, at, tools]
    line,       \* #conversationQueues: the deliveries of a conversation in order
    turnFaults

conversationVars == <<turn, turnJob, asked, delivery, line, turnFaults>>

Conversations == {ConversationOf[m] : m \in Messages}
Nothing == "nothing"
NoTurn == [status |-> "none", text |-> Nothing, proposal |-> Nothing, job |-> Nothing]
NoDelivery == [message |-> Nothing, text |-> Nothing, at |-> "unsent", tools |-> 0]
Working == {"model", "tool", "schedule", "approve", "record"}
Over == {"answered", "failed", "conflict", "lost"}

ConversationTypeOK ==
    /\ \A m \in Messages :
         /\ turn[m].status \in {"none", "THINKING", "REPLIED", "JOB_PROPOSED", "FAILED"}
         /\ turn[m].proposal \in {Nothing, "jobProposal", "selfImprovementProposal"}
         /\ turn[m].job \in {Nothing, "created", "rejected"}
         /\ turnJob[m].status \in {"none", "WAIT_APPROVAL", "APPROVED", "CANCELLED"}
    /\ \A d \in Deliveries :
         /\ delivery[d].at \in {"unsent", "queued"} \cup Working \cup Over
         /\ delivery[d].tools \in 0..MaxToolCalls
    /\ \A c \in Conversations : \A i \in DOMAIN line[c] : delivery[line[c][i]].at \in {"queued"} \cup Working

ConversationInit ==
    /\ turn = [m \in Messages |-> NoTurn]
    /\ turnJob = [m \in Messages |-> [count |-> 0, status |-> "none"]]
    /\ asked = [m \in Messages |-> 0]
    /\ delivery = [d \in Deliveries |-> NoDelivery]
    /\ line = [c \in Conversations |-> <<>>]
    /\ turnFaults = 0

TurnFault == turnFaults < MaxTurnFaults /\ turnFaults' = turnFaults + 1

MessageOf(d) == delivery[d].message
First(d) == LET c == ConversationOf[MessageOf(d)] IN line[c] # <<>> /\ Head(line[c]) = d

Arrive(d, m, text) ==
    /\ delivery[d].at = "unsent" /\ \A e \in 1..(d - 1) : delivery[e].at # "unsent"
    /\ delivery' = [delivery EXCEPT ![d] = [message |-> m, text |-> text, at |-> "queued", tools |-> 0]]
    /\ line' = [line EXCEPT ![ConversationOf[m]] = Append(@, d)]
    /\ UNCHANGED <<turn, turnJob, asked, turnFaults>>

Continue(d, at) == delivery' = [delivery EXCEPT ![d].at = at] /\ UNCHANGED line

\* Faulty variant: a failure that the operation behind it inherits.
FinishWithoutCatch(d, how) ==
    /\ delivery' = [delivery EXCEPT ![d] = [NoDelivery EXCEPT !.at = how]]
    /\ line' = IF how = "answered" THEN [line EXCEPT ![ConversationOf[MessageOf(d)]] = Tail(@)] ELSE line

\* The operation settles, whatever came of it, and the next delivery of the line may start.
Finish(d, how) ==
    /\ delivery' = [delivery EXCEPT ![d] = [NoDelivery EXCEPT !.at = how]]
    /\ line' = [line EXCEPT ![ConversationOf[MessageOf(d)]] = Tail(@)]

SetTurn(d, t) == turn' = [turn EXCEPT ![MessageOf(d)] = t]
FailTurn(d) == SetTurn(d, [turn[MessageOf(d)] EXCEPT !.status = "FAILED"]) /\ Finish(d, "failed")

StartsNow(d) == delivery[d].at = "queued" /\ First(d)

\* accept and markThinking; the images may turn out to be unreadable, which nothing catches.
AcceptNew(d) ==
    /\ StartsNow(d) /\ turn[MessageOf(d)] = NoTurn
    /\ SetTurn(d, [NoTurn EXCEPT !.status = "THINKING", !.text = delivery[d].text])
    /\ \/ Continue(d, "model") /\ asked' = [asked EXCEPT ![MessageOf(d)] = @ + 1] /\ UNCHANGED turnFaults
       \/ Finish(d, "failed") /\ TurnFault /\ UNCHANGED asked
    /\ UNCHANGED turnJob

Unscheduled(t) == t.status = "JOB_PROPOSED" /\ t.job # "created"

\* Faulty variant: a failed message is put to the model again.
AskFailedAgain(d) ==
    LET t == turn[MessageOf(d)] IN
    /\ StartsNow(d) /\ t # NoTurn
    /\ IF t.status = "FAILED" THEN Continue(d, "model") /\ asked' = [asked EXCEPT ![MessageOf(d)] = @ + 1]
                              ELSE Finish(d, "answered") /\ UNCHANGED asked
    /\ UNCHANGED <<turn, turnJob, turnFaults>>

\* A known message is not executed again: only a proposal without a job is scheduled again.
AcceptKnown(d) ==
    LET t == turn[MessageOf(d)] IN
    /\ StartsNow(d) /\ t # NoTurn
    /\ IF t.text # delivery[d].text THEN Finish(d, "conflict")
       ELSE IF Unscheduled(t) THEN Continue(d, "schedule")
       ELSE Finish(d, IF t.status = "FAILED" THEN "failed" ELSE "answered")
    /\ UNCHANGED <<turn, turnJob, asked, turnFaults>>

Fields == {"reply", "jobProposal", "selfImprovementProposal", "toolCall", "memoryCandidate"}

\* parseConversationAgentOutput: a reply and at most one more field.
OutputAccepted(fields) == "reply" \in fields /\ Cardinality(fields) <= 2

\* The private Worker did not complete, or its output does not match the schema, or one tool too many.
ModelFails(d) ==
    /\ delivery[d].at = "model"
    /\ FailTurn(d)
    /\ UNCHANGED <<turnJob, asked, turnFaults>>

ModelReplies(d, fields) ==
    /\ delivery[d].at = "model"
    /\ fields \cap {"jobProposal", "selfImprovementProposal", "toolCall"} = {}
    /\ SetTurn(d, [turn[MessageOf(d)] EXCEPT !.status = "REPLIED"])
    /\ Finish(d, "answered")
    /\ UNCHANGED <<turnJob, asked, turnFaults>>

\* Faulty variant: whatever the Model asks for is called.
ModelCallsAnyTool(d, fields) ==
    /\ delivery[d].at = "model" /\ "toolCall" \in fields
    /\ delivery' = [delivery EXCEPT ![d].at = "tool", ![d].tools = @ + 1]
    /\ UNCHANGED <<turn, turnJob, asked, line, turnFaults>>

ModelCallsTool(d, fields) ==
    /\ delivery[d].at = "model" /\ "toolCall" \in fields
    /\ delivery[d].tools < MaxToolCalls
    /\ delivery' = [delivery EXCEPT ![d].at = "tool", ![d].tools = @ + 1]
    /\ UNCHANGED <<turn, turnJob, asked, line, turnFaults>>

\* A tool that throws is a result too; one that is too long is not caught.
ToolReturns(d) ==
    /\ delivery[d].at = "tool"
    /\ \/ Continue(d, "model") /\ UNCHANGED turnFaults
       \/ Finish(d, "failed") /\ TurnFault
    /\ UNCHANGED <<turn, turnJob, asked>>

\* The proposal is recorded; the Hub schedules it at once, unless it ends here.
ModelProposes(d, fields) ==
    /\ delivery[d].at = "model"
    /\ \E proposal \in fields \cap {"jobProposal", "selfImprovementProposal"} :
         SetTurn(d, [turn[MessageOf(d)] EXCEPT !.status = "JOB_PROPOSED", !.proposal = proposal])
    /\ Continue(d, "schedule")
    /\ UNCHANGED <<turnJob, asked, turnFaults>>

RecordJob(d, result) ==
    /\ SetTurn(d, [turn[MessageOf(d)] EXCEPT !.job = result])
    /\ Finish(d, "answered")

\* Faulty variant: a job for every attempt.
JobCreatedAgain(m) == [count |-> turnJob[m].count + 1, status |-> "WAIT_APPROVAL"]

\* resolveIdempotency, selectFleetRunner and create: the job of an earlier attempt is used again.
JobCreated(m) == IF turnJob[m].count > 0 THEN turnJob[m] ELSE [count |-> 1, status |-> "WAIT_APPROVAL"]

\* A job of an isolated kind is approved by policy, after its approval is on the log.
ScheduleJob(d) ==
    LET m == MessageOf(d) IN
    /\ delivery[d].at = "schedule" /\ turn[m].proposal = "jobProposal"
    /\ \/ /\ turnJob' = [turnJob EXCEPT ![m] = JobCreated(m)]
          /\ \/ turnJob'[m].status = "WAIT_APPROVAL" /\ Continue(d, "approve")
             \/ Continue(d, "record")
          /\ UNCHANGED turn
       \/ /\ turnJob[m].count = 0      \* no compatible Runner, or create throws
          /\ RecordJob(d, "rejected") /\ UNCHANGED turnJob
    /\ UNCHANGED <<asked, turnFaults>>

ApproveIsolated(d) ==
    LET m == MessageOf(d) IN
    /\ delivery[d].at = "approve"
    /\ \/ /\ turnJob[m].status = "WAIT_APPROVAL"
          /\ turnJob' = [turnJob EXCEPT ![m].status = "APPROVED"]
          /\ Continue(d, "record") /\ UNCHANGED turn
       \/ RecordJob(d, "rejected") /\ UNCHANGED turnJob     \* the append or approve throws
    /\ UNCHANGED <<asked, turnFaults>>

\* A job of Friday itself is created, registered as an improvement and approved in one go.
ScheduleSelfImprovement(d) ==
    LET m == MessageOf(d) IN
    /\ delivery[d].at = "schedule" /\ turn[m].proposal = "selfImprovementProposal"
    /\ \/ /\ turnJob' = [turnJob EXCEPT ![m] =
                IF JobCreated(m).status = "WAIT_APPROVAL"
                  THEN [JobCreated(m) EXCEPT !.status = "APPROVED"] ELSE JobCreated(m)]
          /\ Continue(d, "record") /\ UNCHANGED turn
       \/ /\ turnJob' \in {turnJob, [turnJob EXCEPT ![m] = JobCreated(m)]}
          /\ RecordJob(d, "rejected")
    /\ UNCHANGED <<asked, turnFaults>>

RecordSchedulingResult(d) ==
    /\ delivery[d].at = "record"
    /\ RecordJob(d, "created")
    /\ UNCHANGED <<turnJob, asked, turnFaults>>

OwnerDecides(m) ==
    /\ turnJob[m].status = "WAIT_APPROVAL"
    /\ \E verdict \in {"APPROVED", "CANCELLED"} : turnJob' = [turnJob EXCEPT ![m].status = verdict]
    /\ UNCHANGED <<turn, asked, delivery, line, turnFaults>>

\* Requests are lost; a turn the model was working on is failed when the registry opens.
ConversationRestarts ==
    /\ TurnFault
    /\ delivery' = [d \in Deliveries |->
         IF delivery[d].at \in {"queued"} \cup Working THEN [NoDelivery EXCEPT !.at = "lost"] ELSE delivery[d]]
    /\ line' = [c \in Conversations |-> <<>>]
    /\ turn' = [m \in Messages |->
         IF turn[m].status = "THINKING" THEN [turn[m] EXCEPT !.status = "FAILED"] ELSE turn[m]]
    /\ UNCHANGED <<turnJob, asked>>

HubWorks(d) ==
    \/ AcceptNew(d) \/ AcceptKnown(d)
    \/ ModelFails(d)
    \/ /\ delivery[d].at = "model"
       /\ \E fields \in {f \in SUBSET Fields : OutputAccepted(f)} :
            ModelReplies(d, fields) \/ ModelCallsTool(d, fields) \/ ModelProposes(d, fields)
    \/ ToolReturns(d)
    \/ ScheduleJob(d) \/ ApproveIsolated(d) \/ ScheduleSelfImprovement(d) \/ RecordSchedulingResult(d)

ConversationNext ==
    \/ \E d \in Deliveries : HubWorks(d)
    \/ \E d \in Deliveries, m \in Messages, text \in Texts : Arrive(d, m, text)
    \/ \E m \in Messages : OwnerDecides(m)
    \/ ConversationRestarts

\* Every await of a request has a deadline, so every request goes on.
ConversationFairness == \A d \in Deliveries : WF_conversationVars(HubWorks(d))

ConversationSpec == ConversationInit /\ [][ConversationNext]_conversationVars /\ ConversationFairness

\* However often a message is delivered and wherever the Hub ends, the model is asked once
\* and one job is created; no two requests of a conversation are worked on at once, so a
\* prompt is written when every earlier turn is settled (conversation-orchestrator.ts
\* l.154-182, server.ts l.799-804).
OneEffectPerMessage ==
    /\ \A m \in Messages : asked[m] <= 1 /\ turnJob[m].count <= 1
    /\ \A c \in Conversations :
         Cardinality({d \in Deliveries : delivery[d].at \in Working /\ ConversationOf[MessageOf(d)] = c}) <= 1

\* A request is answered or the Hub was restarted: no failure of an earlier request, and
\* no chain of tool calls, holds up the line (conversation-orchestrator.ts l.156-157, l.212).
RequestsEnd == \A d \in Deliveries : delivery[d].at = "queued" ~> delivery[d].at \in Over
=============================================================================
