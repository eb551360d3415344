\* Every component of the channels, one per behaviour.
CONSTANTS
    OutJobs = {j1}
    OutCalls = {c1}
    GraveCalls = {}
    Channels = {tg}
    Polled = {tg}
    Couriers = {k1, k2}
    Replies = {r1}
    MaxOutFaults = 2
    Messages = {m1, m2}
    ConversationOf <- OneConversation
    Texts = {t1, t2}
    Deliveries = {1, 2, 3}
    MaxToolCalls = 1
    MaxTurnFaults = 1
    Loops = {"telegram", "ilink"}
    LastUpdate = 3
    Inbound <- InboundOf
    Refused <- RefusedOf
    Unanswered <- UnansweredOf
    MaxGatewayFaults = 2
    Setups = {1, 2, 3}
    MaxRuntimeFaults = 2
    LastPush = 3
    MaxSocketFaults = 2
SPECIFICATION MCSpec
INVARIANTS
    ChannelsTypeOK
    OneEffectPerMessage
    InboundKept
    AgreedCredential
PROPERTIES
    ImplementsMailbox
    OwnerIsTold
    RequestsEnd
    OwnerIsHeard
    SilentPeerIsReplaced
CHECK_DEADLOCK FALSE
