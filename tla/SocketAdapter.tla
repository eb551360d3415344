---------------------------- MODULE SocketAdapter ----------------------------
(***************************************************************************)
(* The web socket to a provider that pushes messages (QQ and CMCC,         *)
(* createSocketAdapter in channel-adapters.ts): connecting, the handshake  *)
(* under a deadline, the heartbeat, and the queue in which the messages of *)
(* one connection are handed to the Hub one after another.  The queue of a *)
(* connection that broke goes on beside that of the next one.              *)
(*                                                                         *)
(* The provider counts what it pushes; after a reconnect QQ resumes its    *)
(* session behind the count the adapter saw last.                          *)
(***************************************************************************)
EXTENDS Naturals, Sequences

CONSTANTS
    LastPush,           \* messages 1..LastPush
    MaxSocketFaults     \* connections that break, go silent or lose their session

ASSUME SocketAssumption == LastPush \in Nat /\ MaxSocketFaults \in Nat

VARIABLES
    socket,     \* "down", "opening", "ready"
    peer,       \* whether the provider still answers on this connection
    awaiting,   \* a heartbeat was sent and not answered
    session,    \* sessionId is known: the next connection resumes
    seen,       \* sequence: the last message the adapter read
    pushed,     \* the last message the provider pushed
    queues,     \* inboundQueue of each connection so far, the last being the current one
    handled,    \* messages handed to the Hub, in order: <<connection, message>>
    socketFaults

socketVars == <<socket, peer, awaiting, session, seen, pushed, queues, handled, socketFaults>>

SocketTypeOK ==
    /\ socket \in {"down", "opening", "ready"} /\ peer \in BOOLEAN
    /\ awaiting \in BOOLEAN /\ session \in BOOLEAN
    /\ seen \in 0..LastPush /\ pushed \in 0..LastPush
    /\ \A c \in DOMAIN queues : \A i \in DOMAIN queues[c] : queues[c][i] \in 1..LastPush

SocketInit ==
    /\ socket = "down" /\ peer = FALSE /\ awaiting = FALSE /\ session = FALSE
    /\ seen = 0 /\ pushed = 0 /\ queues = <<>> /\ handled = <<>> /\ socketFaults = 0

SocketFault == socketFaults < MaxSocketFaults /\ socketFaults' = socketFaults + 1

\* terminate and the close event: the timers are cleared; the queue goes on.
Down == socket' = "down" /\ peer' = FALSE /\ awaiting' = FALSE

Connect ==
    /\ socket = "down"
    /\ socket' = "opening" /\ queues' = Append(queues, <<>>)
    /\ \/ peer' = TRUE /\ UNCHANGED socketFaults
       \/ peer' = FALSE /\ SocketFault
    /\ UNCHANGED <<awaiting, session, seen, pushed, handled>>

\* auth_ok, READY or RESUMED.  A new session starts behind what was pushed meanwhile.
Handshake ==
    /\ socket = "opening" /\ peer
    /\ socket' = "ready" /\ session' = TRUE
    /\ seen' = IF session THEN seen ELSE pushed
    /\ UNCHANGED <<peer, awaiting, pushed, queues, handled, socketFaults>>

\* Ten seconds have passed without one.
HandshakeDeadline ==
    /\ socket = "opening" /\ ~peer
    /\ Down
    /\ UNCHANGED <<session, seen, pushed, queues, handled, socketFaults>>

Push ==
    /\ pushed < LastPush
    /\ pushed' = pushed + 1
    /\ UNCHANGED <<socket, peer, awaiting, session, seen, queues, handled, socketFaults>>

\* The count is taken when the frame is read, before the message is handled.
Read ==
    /\ socket = "ready" /\ peer /\ seen < pushed
    /\ seen' = seen + 1
    /\ queues' = [queues EXCEPT ![Len(queues)] = Append(@, seen + 1)]
    /\ UNCHANGED <<socket, peer, awaiting, session, pushed, handled, socketFaults>>

\* A failure of the Hub or of the reply is only noted.
HandleAt(c, i) ==
    /\ queues[c] # <<>>
    /\ queues' = [queues EXCEPT ![c] = SubSeq(@, 1, i - 1) \o SubSeq(@, i + 1, Len(@))]
    /\ handled' = Append(handled, <<c, queues[c][i]>>)
    /\ UNCHANGED <<socket, peer, awaiting, session, seen, pushed, socketFaults>>

\* Faulty variant: the newest message of the connection first.
HandleNewest(c) == HandleAt(c, Len(queues[c]))
Handle(c) == HandleAt(c, 1)

\* Faulty variant: nobody looks for the answer to the heartbeat before.
HeartbeatBlind ==
    /\ socket = "ready" /\ awaiting' = TRUE
    /\ UNCHANGED <<socket, peer, session, seen, pushed, queues, handled, socketFaults>>

\* A heartbeat; when the one before was not answered the connection is given up.  A live
\* provider that is late with its answer is a fault.
Heartbeat ==
    /\ socket = "ready"
    /\ \/ ~awaiting /\ awaiting' = TRUE /\ UNCHANGED <<socket, peer, socketFaults>>
       \/ awaiting /\ Down /\ IF peer THEN SocketFault ELSE UNCHANGED socketFaults
    /\ UNCHANGED <<session, seen, pushed, queues, handled>>

HeartbeatAnswered ==
    /\ socket = "ready" /\ peer /\ awaiting
    /\ awaiting' = FALSE
    /\ UNCHANGED <<socket, peer, session, seen, pushed, queues, handled, socketFaults>>

\* The connection breaks, or goes silent without breaking.
Breaks ==
    /\ socket # "down" /\ SocketFault
    /\ Down \/ (peer' = FALSE /\ UNCHANGED <<socket, awaiting>>)
    /\ UNCHANGED <<session, seen, pushed, queues, handled>>

\* op 9: the provider no longer knows the session.
InvalidSession ==
    /\ socket = "ready" /\ peer /\ SocketFault
    /\ session' = FALSE /\ Down
    /\ UNCHANGED <<seen, pushed, queues, handled>>

Connecting == Connect \/ Handshake \/ HandshakeDeadline

SocketNext ==
    \/ Connecting \/ Push \/ Read
    \/ \E c \in DOMAIN queues : Handle(c)
    \/ Heartbeat \/ HeartbeatAnswered \/ Breaks \/ InvalidSession

\* Timers fire, the loop reconnects after a delay of at most a minute, a live provider answers.
SocketFairness ==
    /\ WF_socketVars(Connecting) /\ WF_socketVars(Heartbeat) /\ SF_socketVars(HeartbeatAnswered)

SocketSpec == SocketInit /\ [][SocketNext]_socketVars /\ SocketFairness

\* A connection on which the provider stopped answering, in the handshake or later, is
\* given up and another one is opened (channel-adapters.ts l.200-247).
SilentPeerIsReplaced == (socket # "down" /\ ~peer) ~> (socket = "ready" /\ peer)

\* The Hub gets no message twice, over reconnects and resumed sessions, and those of one
\* connection in the order they were sent (channel-adapters.ts l.202, l.221, l.232).
InOrder ==
    \A i, k \in DOMAIN handled : i < k =>
        /\ handled[i][2] # handled[k][2]
        /\ handled[i][1] = handled[k][1] => handled[i][2] < handled[k][2]
=============================================================================
