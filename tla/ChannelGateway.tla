--------------------------- MODULE ChannelGateway ---------------------------
(***************************************************************************)
(* The two loops of the Gateway that fetch the Owner's messages from a     *)
(* provider, hand them to the Hub and send the Hub's reply back            *)
(* (channel-gateway/src/index.ts, channel-runtime.ts): Telegram's, whose   *)
(* offset lives in memory and tells the provider what to forget, and       *)
(* iLink's, whose cursor is a file.  Both have the same shape: a position  *)
(* that the provider or the file keeps, and one the loop is at.            *)
(*                                                                         *)
(* Updates are numbered as they arrive at the provider.                    *)
(***************************************************************************)
EXTENDS Naturals

CONSTANTS
    Loops,          \* a subset of {"telegram", "ilink"}
    LastUpdate,     \* updates 1..LastUpdate
    Inbound,        \* per loop: the updates telegramInbound and wechatIlinkInbound make a text of
    Refused,        \* per loop: the texts that the Hub refuses whenever they come
    Unanswered,     \* per loop: the texts the Hub takes without a reply (no conversation configured)
    MaxGatewayFaults \* ends of the Gateway, lost requests and answers, turns that fail in the Hub

\* Refused for ever: the text of a stranger (401), another text under a known id (409), a text
\* over 32 KiB or a blank one (500; iLink's loop passes up to 64 KiB on).
ASSUME GatewayAssumption ==
    /\ LastUpdate \in Nat /\ MaxGatewayFaults \in Nat
    /\ Inbound \in [Loops -> SUBSET (1..LastUpdate)]
    /\ Refused \in [Loops -> SUBSET (1..LastUpdate)] /\ Unanswered \in [Loops -> SUBSET (1..LastUpdate)]
    /\ \A l \in Loops : Refused[l] \subseteq Inbound[l]

VARIABLES
    arrived,    \* updates the provider has
    forgotten,  \* Telegram: the provider dropped these; iLink: the cursor in the file
    position,   \* offset and cursor of the loop: the updates it is through with
    batch,      \* the last update of the batch in hand, 0 for none
    accepted,   \* texts the Hub accepted
    replied,    \* texts whose reply was sent
    thinking,   \* texts whose turn a failure in the Hub left THINKING
    unfinished, \* history: texts whose turn failed so at some time
    gatewayFaults

hubSide == <<accepted, thinking, unfinished>>
gatewayVars == <<arrived, forgotten, position, batch, replied, hubSide, gatewayFaults>>

Updates == 1..LastUpdate

GatewayTypeOK ==
    /\ arrived \in [Loops -> 0..LastUpdate] /\ forgotten \in [Loops -> 0..LastUpdate]
    /\ position \in [Loops -> 0..LastUpdate] /\ batch \in [Loops -> 0..LastUpdate]
    /\ accepted \in [Loops -> SUBSET Updates] /\ replied \in [Loops -> SUBSET Updates]
    /\ thinking \in [Loops -> SUBSET Updates] /\ unfinished \in [Loops -> SUBSET Updates]

GatewayInit ==
    /\ arrived = [l \in Loops |-> 0] /\ forgotten = [l \in Loops |-> 0]
    /\ position = [l \in Loops |-> 0] /\ batch = [l \in Loops |-> 0]
    /\ accepted = [l \in Loops |-> {}] /\ replied = [l \in Loops |-> {}]
    /\ thinking = [l \in Loops |-> {}] /\ unfinished = [l \in Loops |-> {}]
    /\ gatewayFaults = 0

GatewayFault == gatewayFaults < MaxGatewayFaults /\ gatewayFaults' = gatewayFaults + 1
Larger(a, b) == IF a > b THEN a ELSE b

UpdateArrives(l) ==
    /\ arrived[l] < LastUpdate
    /\ arrived' = [arrived EXCEPT ![l] = @ + 1]
    /\ UNCHANGED <<forgotten, position, batch, replied, hubSide, gatewayFaults>>

\* getUpdates with the offset: the provider forgets what lies before it and returns the rest.
TelegramPoll ==
    /\ batch["telegram"] = 0
    /\ LET offset == position["telegram"]
           kept == Larger(forgotten["telegram"], offset) IN
       /\ arrived["telegram"] > kept \/ kept > forgotten["telegram"]
       /\ forgotten' = [forgotten EXCEPT !["telegram"] = kept]
       /\ position' = [position EXCEPT !["telegram"] = kept]
       /\ \/ batch' = [batch EXCEPT !["telegram"] = arrived["telegram"]] /\ UNCHANGED gatewayFaults
          \/ UNCHANGED batch /\ GatewayFault       \* the answer is lost
    /\ UNCHANGED <<arrived, replied, hubSide>>

\* getupdates with the cursor changes nothing at the provider.
IlinkPoll ==
    /\ batch["ilink"] = 0 /\ arrived["ilink"] > position["ilink"]
    /\ batch' = [batch EXCEPT !["ilink"] = arrived["ilink"]]
    /\ UNCHANGED <<arrived, forgotten, position, replied, hubSide, gatewayFaults>>

\* The loop throws and starts again: Telegram's without an offset, iLink's at its cursor.
Again(l) ==
    /\ position' = [position EXCEPT ![l] = IF l = "telegram" THEN 0 ELSE forgotten[l]]
    /\ batch' = [batch EXCEPT ![l] = 0]

Stay(l) ==
    /\ position' = [position EXCEPT ![l] = @ + 1]
    /\ UNCHANGED batch

Add(set, l, u) == [set EXCEPT ![l] = @ \cup {u}]

\* The Hub takes a text: a command or an approval is answered, and so is what the conversation
\* makes of it.  There is no reply without a conversation, or for one left THINKING.
Accept(l, u) == accepted' = Add(accepted, l, u) /\ UNCHANGED <<thinking, unfinished>>
HasReply(l, u) == u \notin Unanswered[l] \cup thinking[l]
Reply(l, u) == replied' = IF HasReply(l, u) THEN Add(replied, l, u) ELSE replied

\* The turn of a new text fails in the Hub where nothing catches it: 500, and it stays THINKING.
TurnFails(l, u) ==
    /\ u \notin accepted[l] \cup Unanswered[l]
    /\ accepted' = Add(accepted, l, u)
    /\ thinking' = Add(thinking, l, u) /\ unfinished' = Add(unfinished, l, u)

Taken(l) == Inbound[l] \ Refused[l]

\* Faulty variant: a failure that does not restart the loop.
SkipUpdate(l) ==
    LET u == position[l] + 1 IN
    /\ batch[l] > position[l]
    /\ Stay(l)
    /\ \/ UNCHANGED <<hubSide, replied, gatewayFaults>>
       \/ u \in Taken(l) /\ Accept(l, u) /\ Reply(l, u) /\ UNCHANGED gatewayFaults
    /\ UNCHANGED <<arrived, forgotten>>

\* forwardInbound and the reply, for the next update of the batch.
HandleUpdate(l) ==
    LET u == position[l] + 1 IN
    /\ batch[l] > position[l]
    /\ \/ /\ u \notin Inbound[l]
          /\ Stay(l) /\ UNCHANGED <<hubSide, replied, gatewayFaults>>
       \/ /\ u \in Refused[l]          \* forwardInbound throws, whenever it comes
          /\ Again(l) /\ UNCHANGED <<hubSide, replied, gatewayFaults>>
       \/ /\ u \in Taken(l)
          /\ Accept(l, u) /\ Reply(l, u)
          /\ Stay(l) /\ UNCHANGED gatewayFaults
       \/ /\ u \in Taken(l)            \* the Hub is not reached, its answer or the reply is lost
          /\ UNCHANGED hubSide \/ Accept(l, u) \/ TurnFails(l, u)
          /\ Again(l) /\ GatewayFault /\ UNCHANGED replied
    /\ UNCHANGED <<arrived, forgotten>>

\* The batch is done: Telegram's loop polls again, iLink's writes its cursor first.
EndBatch(l) ==
    /\ batch[l] > 0 /\ batch[l] = position[l]
    /\ \/ /\ batch' = [batch EXCEPT ![l] = 0]
          /\ forgotten' = IF l = "ilink" THEN [forgotten EXCEPT ![l] = position[l]] ELSE forgotten
          /\ UNCHANGED <<position, gatewayFaults>>
       \/ l = "ilink" /\ Again(l) /\ GatewayFault /\ UNCHANGED forgotten
    /\ UNCHANGED <<arrived, replied, hubSide>>

GatewayEnds ==
    /\ GatewayFault
    /\ position' = [l \in Loops |-> IF l = "telegram" THEN 0 ELSE forgotten[l]]
    /\ batch' = [l \in Loops |-> 0]
    /\ UNCHANGED <<arrived, forgotten, replied, hubSide>>

\* A start of the Hub makes every turn left THINKING a failed one, which has a reply.
HubRepairsTurns ==
    /\ thinking # [l \in Loops |-> {}]
    /\ thinking' = [l \in Loops |-> {}]
    /\ UNCHANGED <<arrived, forgotten, position, batch, accepted, replied, unfinished, gatewayFaults>>

LoopWorks(l) ==
    \/ l = "telegram" /\ TelegramPoll
    \/ l = "ilink" /\ IlinkPoll
    \/ HandleUpdate(l) \/ EndBatch(l)

GatewayNext ==
    \/ \E l \in Loops : UpdateArrives(l) \/ LoopWorks(l)
    \/ GatewayEnds \/ HubRepairsTurns

\* The loops only wait for answers that have a deadline, and start again 5 s after a failure.
GatewayFairness == \A l \in Loops : WF_gatewayVars(LoopWorks(l))

GatewaySpec == GatewayInit /\ [][GatewayNext]_gatewayVars /\ GatewayFairness

\* A text the Hub took, and answered if it had an answer: one without is a text taken without
\* a conversation, or one whose turn failed in the Hub (server.ts l.1587-1598).
Heard(l, u) == u \in accepted[l] /\ u \in replied[l] \cup Unanswered[l] \cup unfinished[l]

\* What the provider was told to forget, or the cursor file has passed, was taken by the Hub,
\* and its reply sent, whatever fails in between; so a text that the Hub refuses is never
\* passed, nor anything that follows it (index.ts l.220-233, l.315-323).
NothingSkipped == \A l \in Loops : \A u \in Inbound[l] : u <= forgotten[l] => Heard(l, u)

\* Every text that no refused one precedes reaches the Hub and is answered.
OwnerIsHeard ==
    \A l \in Loops : \A u \in Taken(l) :
        (\A r \in Refused[l] : u < r) => (arrived[l] >= u ~> Heard(l, u))
=============================================================================
