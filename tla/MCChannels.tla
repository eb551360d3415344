------------------------------ MODULE MCChannels ------------------------------
(* The components between the Owner's messengers and the Hub, checked one at a  *)
(* time in one run: a behaviour belongs to the component it picks at the start, *)
(* and the variables of the others stay as they are.                            *)
EXTENDS ChannelOutbox, Conversation, ChannelGateway, ChannelRuntime, SocketAdapter
VARIABLE component
channelsVars == <<component, outVars, conversationVars, gatewayVars, runtimeVars, socketVars>>
beside(which) ==
  /\ component = which
  /\ UNCHANGED component
  /\ which # "outbox" => UNCHANGED outVars
  /\ which # "conversation" => UNCHANGED conversationVars
  /\ which # "gateway" => UNCHANGED gatewayVars
  /\ which # "runtime" => UNCHANGED runtimeVars
  /\ which # "socket" => UNCHANGED socketVars

(* Two messages of one conversation, each delivered up to three times.          *)
OneConversation == [m \in Messages |-> "c"]

(* Telegram's second text is refused for ever and its third comes after it;     *)
(* iLink's second carries no text and the third is taken without a reply.       *)
InboundOf == [l \in Loops |-> IF l = "telegram" THEN {1, 2, 3} ELSE {1, 3}]
RefusedOf == [l \in Loops |-> IF l = "telegram" THEN {2} ELSE {}]
UnansweredOf == [l \in Loops |-> IF l = "telegram" THEN {} ELSE {3}]

MCInit == /\ component \in {"outbox", "conversation", "gateway", "runtime", "socket"}
          /\ OutboxInit /\ ConversationInit /\ GatewayInit /\ RuntimeInit /\ SocketInit
          /\ component # "runtime" => \A s \in Setups : setup[s].kind = "configure"
MCNext == \/ OutboxNext /\ beside("outbox")
          \/ ConversationNext /\ beside("conversation")
          \/ GatewayNext /\ beside("gateway")
          \/ RuntimeNext /\ beside("runtime")
          \/ SocketNext /\ beside("socket")
(* The fairness of each module.  In the initial state of a component that is not  *)
(* picked nothing is enabled that has to happen, but for the first connection of  *)
(* the socket, so that its fairness names the component.                         *)
MCSpec == /\ MCInit /\ [][MCNext]_channelsVars
          /\ OutboxFairness /\ ConversationFairness /\ GatewayFairness
          /\ WF_channelsVars(beside("socket") /\ Connecting)
          /\ WF_channelsVars(beside("socket") /\ Heartbeat)
          /\ SF_channelsVars(beside("socket") /\ HeartbeatAnswered)

(* A provider that keeps messages forgets none that the Hub did not take, and    *)
(* answer if it had an answer; from one that pushes them nothing comes twice or  *)
(* out of order (channel-gateway/src/index.ts, channel-adapters.ts).             *)
InboundKept == NothingSkipped /\ InOrder

(* Every variable keeps its type. *)
ChannelsTypeOK == OutboxTypeOK /\ ConversationTypeOK /\ GatewayTypeOK /\ RuntimeTypeOK /\ SocketTypeOK
=============================================================================
