----------------------------- MODULE ChannelProofs -----------------------------
(***************************************************************************)
(* The Gateway: the credential it and the Hub agree on, the updates its    *)
(* loops hand on before the provider forgets them, the messages of its     *)
(* sockets and the notices of the outbox, for any number of set-ups,       *)
(* updates, connections, notices and faults.                               *)
(***************************************************************************)
EXTENDS MCChannels, ConversationProofs

-----------------------------------------------------------------------------
(* The credential of a channel.                                            *)

Sent(s) == setup[s].at # "unsent"
SetupOver(s) == setup[s].at \in {"done", "failed"}
LoopsOf(token) == IF token = 0 THEN {} ELSE {token}

\* The Hub's barrier: a request is sent when all before it are over.
OneAtATime == \A s, o \in Setups : o < s /\ Sent(s) => SetupOver(o)

\* The Gateway works on the requests in the order of the Hub.
QueueInOrder ==
    /\ \A i \in 1..Len(toDo) : Sent(toDo[i])
    /\ \A i, k \in 1..Len(toDo) : i < k => toDo[i] < toDo[k]

\* Between the two halves of a request no loop runs.
Launching == stage = "launch" => toDo # <<>> /\ file = TokenOf(Head(toDo)) /\ live = {}

\* A request the Gateway has answered, and no other follows: the Gateway is through
\* with it, and was so before the Hub registered the token.
Newest(s) == \A o \in Setups : o > s => ~Sent(o)
Answered ==
    \A s \in Setups : setup[s].at \in {"registry", "done"} /\ Newest(s) =>
        /\ toDo = <<>> /\ file = TokenOf(s) /\ live = LoopsOf(TokenOf(s))
        /\ setup[s].at = "done" => hubToken = TokenOf(s)

RuntimeInv ==
    /\ setup \in [Setups -> [kind : {"configure", "disable"}, at : Stages]]
    /\ toDo \in Seq(Setups) /\ stage \in {"persist", "launch"}
    /\ hubToken \in Setups \cup {0} /\ file \in Setups \cup {0}
    /\ live \subseteq Setups /\ ending \subseteq Setups
    /\ OneAtATime /\ QueueInOrder /\ Launching /\ Answered

\* A request that changes how far it is, and nothing else of any request.
LEMMA MoveOne ==
    ASSUME RuntimeInv, NEW s \in Setups, NEW at \in Stages, Move(s, at)
    PROVE  /\ setup' \in [Setups -> [kind : {"configure", "disable"}, at : Stages]]
           /\ setup'[s].at = at /\ setup'[s].kind = setup[s].kind
           /\ \A o \in Setups : o # s => setup'[o] = setup[o]
           /\ \A o \in Setups : TokenOf(o)' = TokenOf(o)
  BY DEF RuntimeInv, Move, TokenOf

\* Of two requests that were sent, neither over, there is one.
LEMMA OneUnderWay ==
    ASSUME RuntimeInv, NEW s \in Setups, NEW o \in Setups, Sent(s), ~SetupOver(s), Sent(o), o # s
    PROVE  o < s
  BY RuntimeAssumption DEF RuntimeInv, OneAtATime

\* The first request of the Gateway that the Hub still waits for is its only one.
LEMMA LastInLine ==
    ASSUME RuntimeInv, toDo # <<>>, Sent(Head(toDo)), ~SetupOver(Head(toDo))
    PROVE  Tail(toDo) = <<>>
  <1> DEFINE s == Head(toDo)
  <1>1. /\ toDo \in Seq(Setups) /\ s \in Setups /\ s = toDo[1] /\ Len(toDo) \in Nat \ {0}
        /\ Tail(toDo) \in Seq(Setups) /\ Len(Tail(toDo)) = Len(toDo) - 1
    BY HeadTailProperties, EmptySeq, LenProperties DEF RuntimeInv
  <1>2. ASSUME Len(toDo) > 1 PROVE FALSE
    <2>1. 1 \in 1..Len(toDo) /\ 2 \in 1..Len(toDo) /\ 1 < 2
      BY <1>1, <1>2
    <2>2. toDo[2] \in Setups
      BY <1>1, <2>1, ElementOfSeq
    <2>3. Sent(toDo[2]) /\ s < toDo[2]
      BY <1>1, <2>1 DEF RuntimeInv, QueueInOrder
    <2>4. s \in Nat /\ toDo[2] \in Nat
      BY <1>1, <2>2, RuntimeAssumption
    <2>5. toDo[2] < s
      BY <1>1, <2>2, <2>3, <2>4, OneUnderWay
    <2>6. QED
      BY <2>3, <2>4, <2>5
  <1>3. Len(Tail(toDo)) = 0
    BY <1>1, <1>2
  <1>4. QED
    BY <1>1, <1>3, EmptySeq

\* What is left of a queue in order is in order.
LEMMA TailInOrder ==
    ASSUME RuntimeInv, toDo # <<>>, toDo' = Tail(toDo), \A o \in Setups : Sent(o) => Sent(o)'
    PROVE  toDo' \in Seq(Setups) /\ QueueInOrder'
  <1>1. /\ toDo \in Seq(Setups) /\ toDo' \in Seq(Setups) /\ Len(toDo') = Len(toDo) - 1 /\ Len(toDo) \in Nat
        /\ \A i \in 1..Len(toDo') : toDo'[i] = toDo[i + 1]
    BY HeadTailProperties, LenProperties DEF RuntimeInv
  <1>2. \A i \in 1..Len(toDo') : i + 1 \in 1..Len(toDo)
    BY <1>1
  <1>3. \A i \in 1..Len(toDo) : toDo[i] \in Setups
    BY <1>1, ElementOfSeq
  <1>4. \A i \in 1..Len(toDo') : setup'[toDo'[i]].at # "unsent"
    BY <1>1, <1>2, <1>3 DEF RuntimeInv, QueueInOrder, Sent
  <1>5. ASSUME NEW i \in 1..Len(toDo'), NEW k \in 1..Len(toDo'), i < k
        PROVE  toDo'[i] < toDo'[k]
    <2>1. i + 1 \in 1..Len(toDo) /\ k + 1 \in 1..Len(toDo) /\ i + 1 < k + 1
      BY <1>2, <1>5
    <2>2. toDo[i + 1] < toDo[k + 1]
      BY <2>1 DEF RuntimeInv, QueueInOrder
    <2>3. QED
      BY <1>1, <2>2
  <1>6. QED
    BY <1>1, <1>4, <1>5 DEF QueueInOrder, Sent

LEMMA AskStep ==
    ASSUME RuntimeInv, NEW s \in Setups, AskGateway(s)
    PROVE  RuntimeInv'
  <1>1. /\ setup[s].at = "unsent" /\ \A o \in Setups : o < s => SetupOver(o)
        /\ UNCHANGED <<hubToken, file, stage, live, ending>>
    BY DEF AskGateway, SetupOver
  <1>2. /\ setup' \in [Setups -> [kind : {"configure", "disable"}, at : Stages]]
        /\ setup'[s].at = "gateway"
        /\ \A o \in Setups : o # s => setup'[o] = setup[o]
        /\ \A o \in Setups : TokenOf(o)' = TokenOf(o)
    BY MoveOne DEF AskGateway, Stages
  <1>3. \A o \in Setups : Sent(o) => o < s
    <2> SUFFICES ASSUME NEW o \in Setups, Sent(o), ~(o < s) PROVE FALSE
      OBVIOUS
    <2>1. o # s /\ o \in Nat /\ s \in Nat
      BY <1>1, RuntimeAssumption DEF Sent
    <2>2. SetupOver(s)
      BY <2>1 DEF RuntimeInv, OneAtATime
    <2>3. QED
      BY <1>1, <2>2 DEF SetupOver
  <1>4. \A o \in Setups : o < s => o # s
    BY RuntimeAssumption
  <1>5. OneAtATime'
    <2> SUFFICES ASSUME NEW t \in Setups, NEW o \in Setups, o < t, Sent(t)' PROVE SetupOver(o)'
      BY DEF OneAtATime
    <2>1. t = s \/ (t # s /\ Sent(t))
      BY <1>2 DEF Sent
    <2>2. SetupOver(o)
      BY <1>1, <2>1 DEF RuntimeInv, OneAtATime
    <2>3. QED
      BY <1>1, <1>2, <2>2 DEF SetupOver
  <1>6. /\ toDo \in Seq(Setups) /\ Len(toDo) \in Nat
        /\ \A i \in 1..Len(toDo) : toDo[i] \in Setups /\ Sent(toDo[i]) /\ toDo[i] < s
    <2>1. toDo \in Seq(Setups) /\ Len(toDo) \in Nat
      BY LenProperties DEF RuntimeInv
    <2>2. \A i \in 1..Len(toDo) : toDo[i] \in Setups
      BY <2>1, ElementOfSeq
    <2>3. QED
      BY <1>3, <2>1, <2>2 DEF RuntimeInv, QueueInOrder
  <1>7. toDo' \in Seq(Setups) /\ QueueInOrder' /\ (toDo # <<>> => toDo' # <<>> /\ Head(toDo') = Head(toDo))
    <2>1. CASE toDo' = toDo
      <3>1. \A i \in 1..Len(toDo) : setup'[toDo[i]].at # "unsent"
        BY <1>2, <1>4, <1>6 DEF Sent
      <3>2. QED
        BY <1>6, <2>1, <3>1 DEF RuntimeInv, QueueInOrder, Sent
    <2>2. CASE toDo' = Append(toDo, s)
      <3>1. /\ toDo' \in Seq(Setups) /\ Len(toDo') = Len(toDo) + 1 /\ toDo'[Len(toDo) + 1] = s
            /\ \A i \in 1..Len(toDo) : toDo'[i] = toDo[i]
        BY <1>6, <2>2, AppendProperties
      <3>2. \A i \in 1..Len(toDo') : i \in 1..Len(toDo) \/ i = Len(toDo) + 1
        BY <1>6, <3>1
      <3>3. \A i \in 1..Len(toDo') : setup'[toDo'[i]].at # "unsent"
        BY <1>2, <1>4, <1>6, <3>1, <3>2 DEF Sent
      <3>4. ASSUME NEW i \in 1..Len(toDo'), NEW k \in 1..Len(toDo'), i < k
            PROVE  toDo'[i] < toDo'[k]
        <4>1. i \in 1..Len(toDo)
          BY <1>6, <3>1, <3>4
        <4>2. CASE k = Len(toDo) + 1
          BY <1>6, <3>1, <4>1, <4>2
        <4>3. CASE k \in 1..Len(toDo)
          <5>1. toDo[i] < toDo[k]
            BY <3>4, <4>1, <4>3 DEF RuntimeInv, QueueInOrder
          <5>2. QED
            BY <3>1, <4>1, <4>3, <5>1
        <4>4. QED
          BY <3>2, <4>2, <4>3
      <3>5. toDo # <<>> => toDo' # <<>> /\ Head(toDo') = Head(toDo)
        <4> SUFFICES ASSUME toDo # <<>> PROVE toDo' # <<>> /\ Head(toDo') = Head(toDo)
          OBVIOUS
        <4>1. Len(toDo) # 0 /\ 1 \in 1..Len(toDo) /\ Head(toDo) = toDo[1]
          BY <1>6, EmptySeq, HeadTailProperties
        <4>2. Len(toDo') # 0
          BY <1>6, <3>1
        <4>3. toDo' # <<>> /\ Head(toDo') = toDo'[1]
          BY <3>1, <4>2, EmptySeq, HeadTailProperties
        <4>4. QED
          BY <3>1, <4>1, <4>3
      <3>6. QED
        BY <3>1, <3>3, <3>4, <3>5 DEF QueueInOrder, Sent
    <2>3. QED
      BY <2>1, <2>2 DEF AskGateway
  <1>8. Launching'
    <2> SUFFICES ASSUME stage = "launch" PROVE toDo' # <<>> /\ file' = TokenOf(Head(toDo))' /\ live' = {}
      BY <1>1 DEF Launching
    <2>1. toDo # <<>> /\ file = TokenOf(Head(toDo)) /\ live = {}
      BY DEF RuntimeInv, Launching
    <2>2. Head(toDo) \in Setups
      BY <2>1, HeadTailProperties DEF RuntimeInv
    <2>3. QED
      BY <1>1, <1>2, <1>7, <2>1, <2>2 DEF TokenOf
  <1>9. Answered'
    <2> SUFFICES ASSUME NEW t \in Setups, setup'[t].at \in {"registry", "done"}, Newest(t)' PROVE FALSE
      BY DEF Answered
    <2>1. t # s /\ Sent(t)
      BY <1>2 DEF Sent
    <2>2. t < s /\ s > t
      BY <1>3, <2>1, RuntimeAssumption
    <2>3. QED
      BY <1>2, <2>2 DEF Newest, Sent
  <1>10. QED
    BY <1>1, <1>2, <1>5, <1>7, <1>8, <1>9 DEF RuntimeInv

\* A step of a request under way, behind which nothing was sent.
LEMMA StepOfOne ==
    ASSUME RuntimeInv, NEW s \in Setups, setup[s].at \in {"gateway", "registry"},
           NEW at \in {"registry", "done", "failed"}, Move(s, at)
    PROVE  /\ setup' \in [Setups -> [kind : {"configure", "disable"}, at : Stages]]
           /\ setup'[s].at = at
           /\ \A o \in Setups : o # s => setup'[o] = setup[o]
           /\ \A o \in Setups : TokenOf(o)' = TokenOf(o)
           /\ \A o \in Setups : Sent(o)' <=> Sent(o)
           /\ OneAtATime'
           /\ \A o \in Setups : o # s /\ Sent(o) => o < s
  <1>1. /\ setup' \in [Setups -> [kind : {"configure", "disable"}, at : Stages]]
        /\ setup'[s].at = at
        /\ \A o \in Setups : o # s => setup'[o] = setup[o]
        /\ \A o \in Setups : TokenOf(o)' = TokenOf(o)
    <2>1. at \in Stages
      BY DEF Stages
    <2>2. QED
      BY <2>1, MoveOne
  <1>2. \A o \in Setups : Sent(o)' <=> Sent(o)
    BY <1>1 DEF Sent
  <1>3. \A o \in Setups : o # s /\ Sent(o) => o < s
    BY OneUnderWay DEF Sent, SetupOver
  <1>4. OneAtATime'
    BY <1>1, <1>2 DEF OneAtATime, RuntimeInv, SetupOver
  <1>5. QED
    BY <1>1, <1>2, <1>3, <1>4

\* The queue, and the setting it works on, as they were.
LEMMA QueueKept ==
    ASSUME RuntimeInv, UNCHANGED <<toDo, stage, file, live>>,
           \A o \in Setups : TokenOf(o)' = TokenOf(o), \A o \in Setups : Sent(o) => Sent(o)'
    PROVE  QueueInOrder' /\ Launching'
  <1>1. \A i \in 1..Len(toDo) : toDo[i] \in Setups
    BY ElementOfSeq DEF RuntimeInv
  <1>2. \A i \in 1..Len(toDo) : setup'[toDo[i]].at # "unsent"
    BY <1>1 DEF RuntimeInv, QueueInOrder, Sent
  <1>3. QueueInOrder'
    BY <1>2 DEF RuntimeInv, QueueInOrder, Sent
  <1>4. toDo # <<>> => Head(toDo) \in Setups
    BY HeadTailProperties DEF RuntimeInv
  <1>5. toDo # <<>> => TokenOf(Head(toDo))' = TokenOf(Head(toDo))
    BY <1>4 DEF TokenOf
  <1>6. Launching'
    BY <1>5 DEF RuntimeInv, Launching
  <1>7. QED
    BY <1>3, <1>6

LEMMA PersistStep ==
    ASSUME RuntimeInv, Persist
    PROVE  RuntimeInv'
  <1>1. /\ toDo # <<>> /\ file' = TokenOf(Head(toDo)) /\ live' = {} /\ ending' = ending \cup live
        /\ stage' = "launch" /\ UNCHANGED <<setup, hubToken, toDo>>
    BY DEF Persist
  <1>2. Head(toDo) \in Setups
    BY <1>1, HeadTailProperties DEF RuntimeInv
  <1>3. TokenOf(Head(toDo))' = TokenOf(Head(toDo)) /\ TokenOf(Head(toDo)) \in Setups \cup {0}
    BY <1>1, <1>2 DEF TokenOf
  <1>4. OneAtATime' /\ QueueInOrder'
    BY <1>1 DEF RuntimeInv, OneAtATime, QueueInOrder, Sent, SetupOver
  <1>5. Launching'
    BY <1>1, <1>3 DEF Launching
  <1>6. Answered'
    <2> SUFFICES ASSUME NEW s \in Setups, setup'[s].at \in {"registry", "done"}, Newest(s)' PROVE FALSE
      BY DEF Answered
    <2>1. setup[s].at \in {"registry", "done"} /\ Newest(s)
      BY <1>1 DEF Newest, Sent
    <2>2. QED
      BY <1>1, <2>1 DEF RuntimeInv, Answered
  <1>7. QED
    BY <1>1, <1>3, <1>4, <1>5, <1>6 DEF RuntimeInv

\* While the Gateway has something to do no request is answered and the newest.
LEMMA NoneAnswered ==
    ASSUME RuntimeInv, toDo # <<>>, NEW s \in Setups, setup[s].at \in {"registry", "done"}
    PROVE  ~Newest(s)
  BY DEF RuntimeInv, Answered

LEMMA PersistFailsStep ==
    ASSUME RuntimeInv, PersistFails
    PROVE  RuntimeInv'
  <1> DEFINE s == Head(toDo)
  <1>1. /\ toDo # <<>> /\ stage = "persist" /\ toDo' = Tail(toDo)
        /\ setup' = [setup EXCEPT ![s].at = IF @ = "gateway" THEN "failed" ELSE @]
        /\ UNCHANGED <<hubToken, file, stage, live, ending>>
    BY DEF PersistFails
  <1>2. s \in Setups
    BY <1>1, HeadTailProperties DEF RuntimeInv
  <1>3. /\ setup' \in [Setups -> [kind : {"configure", "disable"}, at : Stages]]
        /\ \A o \in Setups : setup'[o] = setup[o] \/ (setup[o].at = "gateway" /\ setup'[o].at = "failed")
        /\ \A o \in Setups : Sent(o)' <=> Sent(o)
    <2>1. setup[s].at = "gateway" \/ setup' = setup
      BY <1>1, <1>2 DEF RuntimeInv
    <2>2. CASE setup' = setup
      BY <2>2 DEF RuntimeInv, Sent
    <2>3. CASE setup[s].at = "gateway"
      <3>1. Move(s, "failed")
        BY <1>1, <1>2, <2>3 DEF Move, RuntimeInv
      <3>2. QED
        BY <1>2, <2>3, <3>1, MoveOne DEF Stages, Sent
    <2>4. QED
      BY <2>1, <2>2, <2>3
  <1>4. OneAtATime'
    BY <1>3 DEF OneAtATime, RuntimeInv, SetupOver
  <1>5. toDo' \in Seq(Setups) /\ QueueInOrder'
    BY <1>1, <1>3, TailInOrder
  <1>6. Answered'
    <2> SUFFICES ASSUME NEW o \in Setups, setup'[o].at \in {"registry", "done"}, Newest(o)' PROVE FALSE
      BY DEF Answered
    <2>1. setup[o].at \in {"registry", "done"}
      BY <1>3
    <2>2. Newest(o)
      BY <1>3 DEF Newest
    <2>3. QED
      BY <1>1, <2>1, <2>2, NoneAnswered
  <1>7. QED
    BY <1>1, <1>3, <1>4, <1>5, <1>6 DEF RuntimeInv, Launching

LEMMA LaunchStep ==
    ASSUME RuntimeInv, Launch
    PROVE  RuntimeInv'
  <1> DEFINE s == Head(toDo)
  <1>1. /\ toDo # <<>> /\ stage = "launch" /\ toDo' = Tail(toDo) /\ stage' = "persist"
        /\ live' = IF setup[s].kind = "configure" THEN {s} ELSE {}
        /\ IF setup[s].at = "gateway" THEN Move(s, "registry") ELSE UNCHANGED setup
        /\ UNCHANGED <<hubToken, file, ending>>
    BY DEF Launch
  <1>2. s \in Setups /\ file = TokenOf(s)
    BY <1>1, HeadTailProperties DEF RuntimeInv, Launching
  <1>3. s # 0 /\ live' = LoopsOf(TokenOf(s)) /\ live' \subseteq Setups
    BY <1>1, <1>2, RuntimeAssumption DEF LoopsOf, TokenOf
  <1>4. CASE setup[s].at = "gateway"
    <2>1. Move(s, "registry") /\ setup[s].at \in {"gateway", "registry"} /\ "registry" \in {"registry", "done", "failed"}
      BY <1>1, <1>4
    <2>2. /\ setup' \in [Setups -> [kind : {"configure", "disable"}, at : Stages]]
          /\ setup'[s].at = "registry"
          /\ \A o \in Setups : o # s => setup'[o] = setup[o]
          /\ \A o \in Setups : TokenOf(o)' = TokenOf(o)
          /\ \A o \in Setups : Sent(o)' <=> Sent(o)
          /\ OneAtATime'
      BY <1>2, <2>1, StepOfOne
    <2>3. Sent(s) /\ ~SetupOver(s)
      BY <1>4 DEF Sent, SetupOver
    <2>4. toDo' = <<>>
      BY <1>1, <2>3, LastInLine
    <2>5. toDo' \in Seq(Setups) /\ QueueInOrder'
      BY <1>1, <2>2, TailInOrder
    <2>6. Answered'
      <3> SUFFICES ASSUME NEW o \in Setups, setup'[o].at \in {"registry", "done"}, Newest(o)'
                   PROVE  /\ toDo' = <<>> /\ file' = TokenOf(o)' /\ live' = LoopsOf(TokenOf(o)')
                          /\ setup'[o].at = "done" => hubToken' = TokenOf(o)'
        BY DEF Answered, LoopsOf
      <3>1. CASE o = s
        BY <1>1, <1>2, <1>3, <2>2, <2>4, <3>1
      <3>2. CASE o # s
        <4>1. setup[o].at \in {"registry", "done"} /\ Newest(o)
          BY <2>2, <3>2 DEF Newest
        <4>2. QED
          BY <1>1, <4>1, NoneAnswered
      <3>3. QED
        BY <3>1, <3>2
    <2>7. QED
      BY <1>1, <1>3, <2>2, <2>5, <2>6 DEF RuntimeInv, Launching
  <1>5. CASE setup[s].at # "gateway"
    <2>1. UNCHANGED setup
      BY <1>1, <1>5
    <2>2. toDo' \in Seq(Setups) /\ QueueInOrder'
      BY <1>1, <2>1, TailInOrder DEF Sent
    <2>3. Answered'
      <3> SUFFICES ASSUME NEW o \in Setups, setup'[o].at \in {"registry", "done"}, Newest(o)' PROVE FALSE
        BY DEF Answered
      <3>1. setup[o].at \in {"registry", "done"} /\ Newest(o)
        BY <2>1 DEF Newest, Sent
      <3>2. QED
        BY <1>1, <3>1, NoneAnswered
    <2>4. OneAtATime'
      BY <2>1 DEF OneAtATime, RuntimeInv, Sent, SetupOver
    <2>5. QED
      BY <1>1, <1>3, <2>1, <2>2, <2>3, <2>4 DEF RuntimeInv, Launching
  <1>6. QED
    BY <1>4, <1>5

\* Registering a token, or giving a request up, ends it.
LEMMA EndOfRequest ==
    ASSUME RuntimeInv, NEW s \in Setups, NEW at \in {"done", "failed"}, Move(s, at),
           setup[s].at \in {"gateway", "registry"}, UNCHANGED <<file, toDo, stage, live, ending>>,
           IF at = "done" THEN setup[s].at = "registry" /\ hubToken' = TokenOf(s) ELSE UNCHANGED hubToken
    PROVE  RuntimeInv'
  <1>1. /\ setup' \in [Setups -> [kind : {"configure", "disable"}, at : Stages]]
        /\ setup'[s].at = at
        /\ \A o \in Setups : o # s => setup'[o] = setup[o]
        /\ \A o \in Setups : TokenOf(o)' = TokenOf(o)
        /\ \A o \in Setups : Sent(o)' <=> Sent(o)
        /\ OneAtATime'
        /\ \A o \in Setups : o # s /\ Sent(o) => o < s
    <2>1. at \in {"registry", "done", "failed"}
      OBVIOUS
    <2>2. QED
      BY <2>1, StepOfOne
  <1>2. QueueInOrder' /\ Launching'
    BY <1>1, QueueKept
  <1>3. TokenOf(s) \in Setups \cup {0}
    BY DEF TokenOf
  <1>4. Answered'
    <2> SUFFICES ASSUME NEW o \in Setups, setup'[o].at \in {"registry", "done"}, Newest(o)'
                 PROVE  /\ toDo' = <<>> /\ file' = TokenOf(o)' /\ live' = LoopsOf(TokenOf(o)')
                        /\ setup'[o].at = "done" => hubToken' = TokenOf(o)'
      BY DEF Answered, LoopsOf
    <2>1. Newest(o)
      BY <1>1 DEF Newest
    <2>2. CASE o = s
      <3>1. at = "done" /\ setup[s].at = "registry"
        BY <1>1, <2>2
      <3>2. QED
        BY <1>1, <2>1, <2>2, <3>1 DEF RuntimeInv, Answered
    <2>3. CASE o # s
      <3>1. setup[o].at \in {"registry", "done"} /\ Sent(o)
        BY <1>1, <2>3 DEF Sent
      <3>2. o < s /\ s > o /\ Sent(s)
        BY <1>1, <2>3, <3>1, RuntimeAssumption DEF Sent
      <3>3. QED
        BY <2>1, <3>2 DEF Newest
    <2>4. QED
      BY <2>2, <2>3
  <1>5. QED
    BY <1>1, <1>2, <1>3, <1>4 DEF RuntimeInv

LEMMA LoopStep ==
    ASSUME RuntimeInv, NEW t \in Setups, OldLoopReturns(t)
    PROVE  RuntimeInv'
  <1>1. ending' \subseteq Setups /\ UNCHANGED <<setup, hubToken, file, toDo, stage, live>>
    BY DEF OldLoopReturns, RuntimeInv
  <1>2. QueueInOrder' /\ Launching'
    BY <1>1, QueueKept DEF TokenOf, Sent
  <1>3. OneAtATime' /\ Answered'
    BY <1>1 DEF RuntimeInv, OneAtATime, Answered, Newest, Sent, SetupOver, TokenOf, LoopsOf
  <1>4. QED
    BY <1>1, <1>2, <1>3 DEF RuntimeInv

\* What the Gateway loads from its file are the loops it was through with.
LEMMA ProcessRestartStep ==
    ASSUME RuntimeInv, RuntimeRestarts
    PROVE  RuntimeInv'
  <1>1. /\ toDo' = <<>> /\ stage' = "persist" /\ live' = LoopsOf(file) /\ ending' = {}
        /\ UNCHANGED <<setup, hubToken, file>>
    BY DEF RuntimeRestarts, LoopsOf
  <1>2. toDo' \in Seq(Setups) /\ QueueInOrder' /\ Launching'
    BY <1>1, EmptySeq DEF QueueInOrder, Launching
  <1>3. OneAtATime'
    BY <1>1 DEF RuntimeInv, OneAtATime, Sent, SetupOver
  <1>4. Answered'
    BY <1>1 DEF RuntimeInv, Answered, Newest, Sent, TokenOf, LoopsOf
  <1>5. live' \subseteq Setups
    BY <1>1 DEF RuntimeInv, LoopsOf
  <1>6. QED
    BY <1>1, <1>2, <1>3, <1>4, <1>5 DEF RuntimeInv

LEMMA RuntimeStart == RuntimeInit => RuntimeInv
  <1> SUFFICES ASSUME RuntimeInit PROVE RuntimeInv
    OBVIOUS
  <1>1. /\ setup \in [Setups -> [kind : {"configure", "disable"}, at : {"unsent"}]]
        /\ hubToken = 0 /\ file = 0 /\ toDo = <<>> /\ stage = "persist" /\ live = {} /\ ending = {}
    BY DEF RuntimeInit
  <1>2. setup \in [Setups -> [kind : {"configure", "disable"}, at : Stages]] /\ \A s \in Setups : setup[s].at = "unsent"
    BY <1>1 DEF Stages
  <1>3. toDo \in Seq(Setups) /\ Len(toDo) = 0
    BY <1>1, EmptySeq
  <1>4. OneAtATime /\ QueueInOrder /\ Launching /\ Answered
    BY <1>1, <1>2, <1>3 DEF OneAtATime, QueueInOrder, Launching, Answered, Sent
  <1>5. QED
    BY <1>1, <1>2, <1>3, <1>4 DEF RuntimeInv

LEMMA RuntimeKept == RuntimeInv /\ [RuntimeNext]_runtimeVars => RuntimeInv'
  <1> SUFFICES ASSUME RuntimeInv, [RuntimeNext]_runtimeVars PROVE RuntimeInv'
    OBVIOUS
  <1>1. ASSUME NEW s \in Setups, AskGateway(s) PROVE RuntimeInv'
    BY <1>1, AskStep
  <1>2. ASSUME NEW s \in Setups, Register(s) PROVE RuntimeInv'
    BY <1>2, EndOfRequest DEF Register
  <1>3. ASSUME NEW s \in Setups, SetupFails(s) PROVE RuntimeInv'
    BY <1>3, EndOfRequest DEF SetupFails
  <1>4. ASSUME NEW s \in Setups, OldLoopReturns(s) PROVE RuntimeInv'
    BY <1>4, LoopStep
  <1>5. CASE UNCHANGED runtimeVars
    <2>1. UNCHANGED <<setup, hubToken, file, toDo, stage, live, ending>>
      BY <1>5 DEF runtimeVars
    <2>2. QueueInOrder' /\ Launching'
      BY <2>1, QueueKept DEF TokenOf, Sent
    <2>3. OneAtATime' /\ Answered'
      BY <2>1 DEF RuntimeInv, OneAtATime, Answered, Newest, Sent, SetupOver, TokenOf, LoopsOf
    <2>4. QED
      BY <2>1, <2>2, <2>3 DEF RuntimeInv
  <1>6. QED
    BY <1>1, <1>2, <1>3, <1>4, <1>5, PersistStep, PersistFailsStep, LaunchStep, ProcessRestartStep DEF RuntimeNext

\* What every step of setting up a channel keeps, for any number of requests, deadlines and
\* restarts (server.ts l.1243-1261, channel-runtime.ts l.62-121).
THEOREM RuntimeInvariance == RuntimeSpec => []RuntimeInv
  BY RuntimeStart, RuntimeKept, PTL DEF RuntimeSpec

\* The Owner is told of a success only when Hub and Gateway hold the same token and the only
\* loop runs with it, and so it stays until the Owner asks again (server.ts l.1252-1257).
THEOREM CredentialIsAgreed == RuntimeSpec => []AgreedCredential
  <1>1. RuntimeInv => AgreedCredential
    <2> SUFFICES ASSUME RuntimeInv, NEW s \in Setups, Latest(s)
                 PROVE  /\ hubToken = TokenOf(s) /\ file = TokenOf(s)
                        /\ live = IF TokenOf(s) = 0 THEN {} ELSE {s}
      BY DEF AgreedCredential
    <2>1. setup[s].at = "done" /\ Newest(s)
      BY DEF Latest, Newest, Sent
    <2>2. hubToken = TokenOf(s) /\ file = TokenOf(s) /\ live = LoopsOf(TokenOf(s))
      BY <2>1 DEF RuntimeInv, Answered
    <2>3. TokenOf(s) \in {0, s}
      BY DEF TokenOf
    <2>4. QED
      BY <2>2, <2>3 DEF LoopsOf
  <1>2. QED
    BY <1>1, RuntimeInvariance, PTL

-----------------------------------------------------------------------------
(* The loops of the Gateway.                                               *)

\* What lies before a position of a loop was heard, if it is a text.
ThroughWith(l, n) == \A u \in Inbound[l] : u <= n => Heard(l, u)

GatewayInv ==
    /\ GatewayTypeOK
    /\ \A l \in Loops : /\ ThroughWith(l, forgotten[l]) /\ ThroughWith(l, position[l])
                        /\ thinking[l] \subseteq unfinished[l]

LEMMA InboundAreUpdates ==
    ASSUME NEW l \in Loops
    PROVE  Inbound[l] \subseteq Updates /\ LastUpdate \in Nat /\ 0 \in 0..LastUpdate
  BY GatewayAssumption DEF Updates

\* What was heard stays heard when the Hub and the loops only add.
LEMMA HeardStays ==
    ASSUME NEW l \in Loops, NEW u, Heard(l, u),
           accepted[l] \subseteq accepted'[l], replied[l] \subseteq replied'[l],
           unfinished[l] \subseteq unfinished'[l]
    PROVE  Heard(l, u)'
  BY DEF Heard

\* Both positions move to where the loop is through, and nothing heard is lost.
LEMMA LoopMoves ==
    ASSUME GatewayInv, GatewayTypeOK', NEW l \in Loops,
           \A u \in Updates : Heard(l, u) => Heard(l, u)',
           \A n \in {forgotten'[l], position'[l]} :
               \/ n \in {0, forgotten[l], position[l]}
               \/ n = position[l] + 1 /\ (n \in Inbound[l] => Heard(l, n)')
    PROVE  (ThroughWith(l, forgotten[l]) /\ ThroughWith(l, position[l]))'
  <1>1. forgotten[l] \in Nat /\ position[l] \in Nat /\ Inbound[l] \subseteq Updates
    BY InboundAreUpdates DEF GatewayInv, GatewayTypeOK
  <1>2. ASSUME NEW n \in {forgotten'[l], position'[l]}, NEW u \in Inbound[l], u <= n
        PROVE  Heard(l, u)'
    <2>1. u \in Updates /\ u \in Nat /\ u >= 1
      BY <1>1, InboundAreUpdates DEF Updates
    <2>2. CASE n \in {0, forgotten[l], position[l]}
      <3>1. Heard(l, u)
        BY <1>1, <1>2, <2>1, <2>2 DEF GatewayInv, ThroughWith
      <3>2. QED
        BY <2>1, <3>1
    <2>3. CASE n = position[l] + 1 /\ (n \in Inbound[l] => Heard(l, n)')
      <3>1. CASE u = n
        BY <2>3, <3>1
      <3>2. CASE u # n
        <4>1. u <= position[l]
          BY <1>1, <1>2, <2>1, <2>3, <3>2
        <4>2. Heard(l, u)
          BY <4>1 DEF GatewayInv, ThroughWith
        <4>3. QED
          BY <2>1, <4>2
      <3>3. QED
        BY <3>1, <3>2
    <2>4. QED
      BY <1>2, <2>2, <2>3
  <1>3. QED
    BY <1>2 DEF ThroughWith

\* A step of one loop: the others are where they were.
LEMMA OneLoopMoves ==
    ASSUME GatewayInv, GatewayTypeOK', NEW l \in Loops,
           \A o \in Loops : \A u \in Updates : Heard(o, u) => Heard(o, u)',
           \A n \in {forgotten'[l], position'[l]} :
               \/ n \in {0, forgotten[l], position[l]}
               \/ n = position[l] + 1 /\ (n \in Inbound[l] => Heard(l, n)'),
           \A o \in Loops : o # l => forgotten'[o] = forgotten[o] /\ position'[o] = position[o],
           \A o \in Loops : thinking'[o] \subseteq unfinished'[o]
    PROVE  GatewayInv'
  <1>1. ASSUME NEW o \in Loops
        PROVE  (ThroughWith(o, forgotten[o]) /\ ThroughWith(o, position[o]))'
    <2>1. CASE o = l
      BY <2>1, LoopMoves
    <2>2. CASE o # l
      <3>1. forgotten'[o] = forgotten[o] /\ position'[o] = position[o]
        BY <2>2
      <3>2. QED
        BY <3>1, LoopMoves
    <2>3. QED
      BY <2>1, <2>2
  <1>2. QED
    BY <1>1 DEF GatewayInv

LEMMA UpdateArriveStep ==
    ASSUME GatewayInv, NEW l \in Loops, UpdateArrives(l)
    PROVE  GatewayInv'
  <1>1. /\ arrived[l] < LastUpdate /\ arrived[l] \in 0..LastUpdate
        /\ arrived' = [arrived EXCEPT ![l] = arrived[l] + 1]
        /\ UNCHANGED <<forgotten, position, batch, replied, hubSide>>
    BY DEF UpdateArrives, GatewayInv, GatewayTypeOK
  <1>2. arrived[l] + 1 \in 0..LastUpdate
    BY <1>1, GatewayAssumption
  <1>3. QED
    BY <1>1, <1>2 DEF GatewayInv, GatewayTypeOK, ThroughWith, Heard, hubSide

LEMMA TelegramStep ==
    ASSUME GatewayInv, NEW l \in Loops, l = "telegram", TelegramPoll
    PROVE  GatewayInv'
  <1> DEFINE kept == Larger(forgotten[l], position[l])
  <1>1. /\ forgotten' = [forgotten EXCEPT ![l] = kept] /\ position' = [position EXCEPT ![l] = kept]
        /\ batch' = [batch EXCEPT ![l] = arrived[l]] \/ batch' = batch
        /\ UNCHANGED <<arrived, replied, hubSide>>
    BY DEF TelegramPoll
  <1>2. kept \in {forgotten[l], position[l]} /\ kept \in 0..LastUpdate /\ arrived[l] \in 0..LastUpdate
    BY DEF Larger, GatewayInv, GatewayTypeOK
  <1> HIDE DEF kept
  <1>3. GatewayTypeOK'
    BY <1>1, <1>2 DEF GatewayInv, GatewayTypeOK, hubSide
  <1>4. /\ forgotten'[l] = kept /\ position'[l] = kept
        /\ \A o \in Loops : o # l => forgotten'[o] = forgotten[o] /\ position'[o] = position[o]
    BY <1>1 DEF GatewayInv, GatewayTypeOK
  <1>5. \A o \in Loops : \A u \in Updates : Heard(o, u) => Heard(o, u)'
    BY <1>1 DEF Heard, hubSide
  <1>6. \A n \in {forgotten'[l], position'[l]} : n \in {0, forgotten[l], position[l]}
    BY <1>2, <1>4
  <1>7. \A o \in Loops : thinking'[o] \subseteq unfinished'[o]
    BY <1>1 DEF GatewayInv, hubSide
  <1>8. QED
    BY <1>3, <1>4, <1>5, <1>6, <1>7, OneLoopMoves

LEMMA IlinkStep ==
    ASSUME GatewayInv, NEW l \in Loops, l = "ilink", IlinkPoll
    PROVE  GatewayInv'
  <1>1. /\ batch' = [batch EXCEPT ![l] = arrived[l]]
        /\ UNCHANGED <<arrived, forgotten, position, replied, hubSide>>
    BY DEF IlinkPoll
  <1>2. QED
    BY <1>1 DEF GatewayInv, GatewayTypeOK, ThroughWith, Heard, hubSide

\* A loop that starts again is where it was through with everything.
LEMMA AgainMoves ==
    ASSUME GatewayInv, NEW l \in Loops, Again(l)
    PROVE  /\ position' \in [Loops -> 0..LastUpdate] /\ batch' \in [Loops -> 0..LastUpdate]
           /\ position'[l] \in {0, forgotten[l]}
           /\ \A o \in Loops : o # l => position'[o] = position[o]
  <1>1. 0 \in 0..LastUpdate
    BY GatewayAssumption
  <1>2. QED
    BY <1>1 DEF Again, GatewayInv, GatewayTypeOK

\* What a request does at the Hub: nothing, or it is taken, or its turn fails.
LEMMA HubAdds ==
    ASSUME GatewayInv, NEW l \in Loops, NEW u \in Updates,
           UNCHANGED hubSide \/ Accept(l, u) \/ TurnFails(l, u),
           replied' \in [Loops -> SUBSET Updates],
           \A o \in Loops : replied[o] \subseteq replied'[o]
    PROVE  /\ accepted' \in [Loops -> SUBSET Updates]
           /\ thinking' \in [Loops -> SUBSET Updates] /\ unfinished' \in [Loops -> SUBSET Updates]
           /\ \A o \in Loops : \A v \in Updates : Heard(o, v) => Heard(o, v)'
           /\ \A o \in Loops : thinking'[o] \subseteq unfinished'[o]
  <1>1. /\ accepted' = accepted \/ accepted' = [accepted EXCEPT ![l] = accepted[l] \cup {u}]
        /\ thinking' = thinking \/ thinking' = [thinking EXCEPT ![l] = thinking[l] \cup {u}]
        /\ \/ unfinished' = unfinished /\ thinking' = thinking
           \/ unfinished' = [unfinished EXCEPT ![l] = unfinished[l] \cup {u}]
    BY DEF Accept, TurnFails, Add, hubSide
  <1>2. accepted \in [Loops -> SUBSET Updates] /\ thinking \in [Loops -> SUBSET Updates]
        /\ unfinished \in [Loops -> SUBSET Updates]
    BY DEF GatewayInv, GatewayTypeOK
  <1>3. /\ accepted' \in [Loops -> SUBSET Updates]
        /\ thinking' \in [Loops -> SUBSET Updates] /\ unfinished' \in [Loops -> SUBSET Updates]
    BY <1>1, <1>2
  <1>4. ASSUME NEW o \in Loops
        PROVE  accepted[o] \subseteq accepted'[o] /\ unfinished[o] \subseteq unfinished'[o]
    BY <1>1, <1>2
  <1>5. \A o \in Loops : thinking[o] \subseteq unfinished[o]
    BY DEF GatewayInv
  <1>6. \A o \in Loops : thinking'[o] \subseteq unfinished'[o]
    BY <1>1, <1>2, <1>5
  <1>7. QED
    BY <1>3, <1>4, <1>6, HeardStays

\* Reply adds at most the reply of the text.
LEMMA ReplyAdds ==
    ASSUME GatewayInv, NEW l \in Loops, NEW u \in Updates, Reply(l, u)
    PROVE  /\ replied' \in [Loops -> SUBSET Updates]
           /\ \A o \in Loops : replied[o] \subseteq replied'[o]
           /\ u \notin thinking[l] => u \in replied'[l] \cup Unanswered[l]
  <1>1. replied \in [Loops -> SUBSET Updates]
    BY DEF GatewayInv, GatewayTypeOK
  <1>2. CASE HasReply(l, u)
    <2>1. replied' = [replied EXCEPT ![l] = replied[l] \cup {u}]
      BY <1>2 DEF Reply, Add
    <2>2. QED
      BY <1>1, <2>1
  <1>3. CASE ~HasReply(l, u)
    <2>1. replied' = replied /\ u \in Unanswered[l] \cup thinking[l]
      BY <1>3 DEF Reply, HasReply
    <2>2. QED
      BY <1>1, <2>1
  <1>4. QED
    BY <1>2, <1>3

LEMMA HandleStep ==
    ASSUME GatewayInv, NEW l \in Loops, HandleUpdate(l)
    PROVE  GatewayInv'
  <1> DEFINE next == position[l] + 1
  <1>1. /\ batch[l] > position[l] /\ position[l] \in 0..LastUpdate /\ batch[l] \in 0..LastUpdate
        /\ UNCHANGED <<arrived, forgotten>>
    BY DEF HandleUpdate, GatewayInv, GatewayTypeOK
  <1>2. \E v \in 0..LastUpdate : v = next
    BY <1>1, GatewayAssumption
  <1>3. PICK u \in 0..LastUpdate : u = position[l] + 1
    BY <1>2
  <1>4. u \in Updates
    BY <1>1, <1>3, GatewayAssumption DEF Updates
  <1>5. \/ u \notin Inbound[l] /\ Stay(l) /\ UNCHANGED <<hubSide, replied>>
        \/ Again(l) /\ UNCHANGED <<hubSide, replied>>
        \/ Accept(l, u) /\ Reply(l, u) /\ Stay(l)
        \/ (UNCHANGED hubSide \/ Accept(l, u) \/ TurnFails(l, u)) /\ Again(l) /\ UNCHANGED replied
    <2>1. /\ Accept(l, next) => Accept(l, u)
          /\ Reply(l, next) => Reply(l, u)
          /\ TurnFails(l, next) => TurnFails(l, u)
          /\ next \notin Inbound[l] => u \notin Inbound[l]
      BY <1>3 DEF Accept, Add, Reply, HasReply, TurnFails
    <2>2. \/ next \notin Inbound[l] /\ Stay(l) /\ UNCHANGED <<hubSide, replied>>
          \/ Again(l) /\ UNCHANGED <<hubSide, replied>>
          \/ Accept(l, next) /\ Reply(l, next) /\ Stay(l)
          \/ (UNCHANGED hubSide \/ Accept(l, next) \/ TurnFails(l, next)) /\ Again(l) /\ UNCHANGED replied
      BY DEF HandleUpdate
    <2>3. QED
      BY <2>1, <2>2
  <1>6. Stay(l) => position' = [position EXCEPT ![l] = u] /\ batch' = batch
    BY <1>3 DEF Stay, GatewayInv, GatewayTypeOK
  <1> HIDE DEF next
  <1>7. replied \in [Loops -> SUBSET Updates]
    BY DEF GatewayInv, GatewayTypeOK
  <1>8. CASE Stay(l) /\ u \notin Inbound[l] /\ UNCHANGED <<hubSide, replied>>
    <2>1. GatewayTypeOK'
      BY <1>1, <1>3, <1>6, <1>8 DEF GatewayInv, GatewayTypeOK, hubSide
    <2>2. position'[l] = u /\ \A o \in Loops : o # l => position'[o] = position[o]
      BY <1>6, <1>8 DEF GatewayInv, GatewayTypeOK
    <2>3. \A o \in Loops : \A v \in Updates : Heard(o, v) => Heard(o, v)'
      BY <1>8 DEF Heard, hubSide
    <2>4. \A o \in Loops : thinking'[o] \subseteq unfinished'[o]
      BY <1>8 DEF GatewayInv, hubSide
    <2>5. QED
      BY <1>1, <1>3, <1>8, <2>1, <2>2, <2>3, <2>4, OneLoopMoves
  <1>9. CASE Stay(l) /\ Accept(l, u) /\ Reply(l, u)
    <2>1. /\ replied' \in [Loops -> SUBSET Updates]
          /\ \A o \in Loops : replied[o] \subseteq replied'[o]
          /\ u \notin thinking[l] => u \in replied'[l] \cup Unanswered[l]
      BY <1>4, <1>9, ReplyAdds
    <2>2. /\ accepted' \in [Loops -> SUBSET Updates]
          /\ thinking' \in [Loops -> SUBSET Updates] /\ unfinished' \in [Loops -> SUBSET Updates]
          /\ \A o \in Loops : \A v \in Updates : Heard(o, v) => Heard(o, v)'
          /\ \A o \in Loops : thinking'[o] \subseteq unfinished'[o]
      BY <1>4, <1>9, <2>1, HubAdds
    <2>3. position' = [position EXCEPT ![l] = u] /\ batch' = batch
      BY <1>6, <1>9
    <2>4. GatewayTypeOK'
      BY <1>1, <1>3, <2>1, <2>2, <2>3 DEF GatewayInv, GatewayTypeOK
    <2>5. position'[l] = u /\ \A o \in Loops : o # l => position'[o] = position[o]
      BY <2>3 DEF GatewayInv, GatewayTypeOK
    <2>6. u \in accepted'[l] /\ unfinished' = unfinished
      BY <1>9 DEF Accept, Add, GatewayInv, GatewayTypeOK
    <2>7. thinking[l] \subseteq unfinished[l]
      BY DEF GatewayInv
    <2>8. Heard(l, u)'
      <3>1. u \in replied'[l] \cup Unanswered[l] \cup unfinished'[l]
        BY <2>1, <2>6, <2>7
      <3>2. QED
        BY <2>6, <3>1 DEF Heard
    <2>9. QED
      BY <1>1, <1>3, <2>2, <2>4, <2>5, <2>8, OneLoopMoves
  <1>10. CASE /\ UNCHANGED hubSide \/ Accept(l, u) \/ TurnFails(l, u)
             /\ Again(l) /\ UNCHANGED replied
    <2>1. /\ accepted' \in [Loops -> SUBSET Updates]
          /\ thinking' \in [Loops -> SUBSET Updates] /\ unfinished' \in [Loops -> SUBSET Updates]
          /\ \A o \in Loops : \A v \in Updates : Heard(o, v) => Heard(o, v)'
          /\ \A o \in Loops : thinking'[o] \subseteq unfinished'[o]
      BY <1>4, <1>7, <1>10, HubAdds
    <2>2. /\ position' \in [Loops -> 0..LastUpdate] /\ batch' \in [Loops -> 0..LastUpdate]
          /\ position'[l] \in {0, forgotten[l]}
          /\ \A o \in Loops : o # l => position'[o] = position[o]
      BY <1>10, AgainMoves
    <2>3. GatewayTypeOK'
      BY <1>1, <1>10, <2>1, <2>2 DEF GatewayInv, GatewayTypeOK
    <2>4. QED
      BY <1>1, <2>1, <2>2, <2>3, OneLoopMoves
  <1>11. QED
    BY <1>5, <1>8, <1>9, <1>10

LEMMA EndBatchStep ==
    ASSUME GatewayInv, NEW l \in Loops, EndBatch(l)
    PROVE  GatewayInv'
  <1>1. UNCHANGED <<arrived, replied, hubSide>> /\ 0 \in 0..LastUpdate
    BY GatewayAssumption DEF EndBatch
  <1>2. /\ \A o \in Loops : \A v \in Updates : Heard(o, v) => Heard(o, v)'
        /\ \A o \in Loops : thinking'[o] \subseteq unfinished'[o]
    BY <1>1 DEF Heard, hubSide, GatewayInv
  <1>3. CASE /\ batch' = [batch EXCEPT ![l] = 0] /\ UNCHANGED position
             /\ forgotten' = IF l = "ilink" THEN [forgotten EXCEPT ![l] = position[l]] ELSE forgotten
    <2>1. GatewayTypeOK'
      BY <1>1, <1>3 DEF GatewayInv, GatewayTypeOK, hubSide
    <2>2. /\ forgotten'[l] \in {forgotten[l], position[l]}
          /\ \A o \in Loops : o # l => forgotten'[o] = forgotten[o]
      BY <1>3 DEF GatewayInv, GatewayTypeOK
    <2>3. QED
      BY <1>2, <1>3, <2>1, <2>2, OneLoopMoves
  <1>4. CASE Again(l) /\ UNCHANGED forgotten
    <2>1. /\ position' \in [Loops -> 0..LastUpdate] /\ batch' \in [Loops -> 0..LastUpdate]
          /\ position'[l] \in {0, forgotten[l]}
          /\ \A o \in Loops : o # l => position'[o] = position[o]
      BY <1>4, AgainMoves
    <2>2. GatewayTypeOK'
      BY <1>1, <1>4, <2>1 DEF GatewayInv, GatewayTypeOK, hubSide
    <2>3. QED
      BY <1>2, <1>4, <2>1, <2>2, OneLoopMoves
  <1>5. QED
    BY <1>3, <1>4 DEF EndBatch

LEMMA GatewayEndsStep ==
    ASSUME GatewayInv, GatewayEnds
    PROVE  GatewayInv'
  <1>1. /\ position' = [l \in Loops |-> IF l = "telegram" THEN 0 ELSE forgotten[l]]
        /\ batch' = [l \in Loops |-> 0] /\ UNCHANGED <<arrived, forgotten, replied, hubSide>>
        /\ 0 \in 0..LastUpdate
    BY GatewayAssumption DEF GatewayEnds
  <1>2. GatewayTypeOK'
    BY <1>1 DEF GatewayInv, GatewayTypeOK, hubSide
  <1>3. \A o \in Loops : \A v \in Updates : Heard(o, v) => Heard(o, v)'
    BY <1>1 DEF Heard, hubSide
  <1>4. \A l \in Loops : (ThroughWith(l, forgotten[l]) /\ ThroughWith(l, position[l]))'
    BY <1>1, <1>2, <1>3, LoopMoves
  <1>5. thinking' = thinking /\ unfinished' = unfinished
    BY <1>1 DEF hubSide
  <1>6. QED
    BY <1>2, <1>4, <1>5 DEF GatewayInv

LEMMA HubRepairStep ==
    ASSUME GatewayInv, HubRepairsTurns
    PROVE  GatewayInv'
  <1>1. /\ thinking' = [l \in Loops |-> {}]
        /\ UNCHANGED <<arrived, forgotten, position, batch, accepted, replied, unfinished>>
    BY DEF HubRepairsTurns
  <1>2. QED
    BY <1>1 DEF GatewayInv, GatewayTypeOK, ThroughWith, Heard

LEMMA GatewayStart == GatewayInit => GatewayInv
  <1> SUFFICES ASSUME GatewayInit PROVE GatewayInv
    OBVIOUS
  <1>1. 0 \in 0..LastUpdate
    BY GatewayAssumption
  <1>2. GatewayTypeOK
    BY <1>1 DEF GatewayInit, GatewayTypeOK
  <1>3. \A l \in Loops : forgotten[l] = 0 /\ position[l] = 0 /\ thinking[l] \subseteq unfinished[l]
    BY DEF GatewayInit
  <1>4. \A l \in Loops : \A u \in Inbound[l] : ~(u <= 0)
    BY InboundAreUpdates DEF Updates
  <1>5. QED
    BY <1>2, <1>3, <1>4 DEF GatewayInv, ThroughWith

LEMMA GatewayKept == GatewayInv /\ [GatewayNext]_gatewayVars => GatewayInv'
  <1> SUFFICES ASSUME GatewayInv, [GatewayNext]_gatewayVars PROVE GatewayInv'
    OBVIOUS
  <1>1. ASSUME NEW l \in Loops, UpdateArrives(l) \/ LoopWorks(l) PROVE GatewayInv'
    BY <1>1, UpdateArriveStep, TelegramStep, IlinkStep, HandleStep, EndBatchStep DEF LoopWorks
  <1>2. CASE UNCHANGED gatewayVars
    BY <1>2 DEF gatewayVars, hubSide, GatewayInv, GatewayTypeOK, ThroughWith, Heard
  <1>3. QED
    BY <1>1, <1>2, GatewayEndsStep, HubRepairStep DEF GatewayNext

\* The positions of both loops, wherever they are taken from, only pass what the Hub took and,
\* if it had an answer, the loop answered (index.ts l.208-237, l.300-330).
THEOREM GatewayInvariance == GatewaySpec => []GatewayInv
  BY GatewayStart, GatewayKept, PTL DEF GatewaySpec

\* A text that the provider forgot, or the cursor file passed, was taken by the Hub, and its reply
\* sent if there was one (index.ts l.220-233, l.315-323; server.ts l.1587-1598).
THEOREM NothingIsSkipped == GatewaySpec => []NothingSkipped
  <1>1. GatewayInv => NothingSkipped
    BY DEF GatewayInv, NothingSkipped, ThroughWith
  <1>2. QED
    BY <1>1, GatewayInvariance, PTL

-----------------------------------------------------------------------------
(* The sockets of the pushing providers.                                   *)

\* A message waits at place i of the queue of connection c.
Waits(c, i) == c \in 1..Len(queues) /\ i \in 1..Len(queues[c])

QueuesInOrder ==
    \A c, d, i, k \in Nat : Waits(c, i) /\ Waits(d, k) =>
        /\ c = d /\ i < k => queues[c][i] < queues[d][k]
        /\ c # d => queues[c][i] # queues[d][k]

HandledBefore ==
    \A k \in 1..Len(handled) : \A c, i \in Nat : Waits(c, i) =>
        /\ handled[k][2] # queues[c][i]
        /\ handled[k][1] = c => handled[k][2] < queues[c][i]

OnlySeen ==
    /\ \A c, i \in Nat : Waits(c, i) => queues[c][i] \in 1..seen
    /\ \A k \in 1..Len(handled) : handled[k][2] \in 1..seen

SocketInv ==
    /\ seen \in Nat /\ pushed \in 0..LastPush /\ seen <= pushed
    /\ queues \in Seq(Seq(Nat)) /\ handled \in Seq(Nat \X Nat)
    /\ socket # "down" => Len(queues) > 0
    /\ OnlySeen /\ QueuesInOrder /\ HandledBefore /\ InOrder

LEMMA QueueTyped ==
    ASSUME SocketInv, NEW c \in 1..Len(queues)
    PROVE  /\ Len(queues) \in Nat /\ c \in Nat
           /\ queues[c] \in Seq(Nat) /\ Len(queues[c]) \in Nat
           /\ \A i \in 1..Len(queues[c]) : queues[c][i] \in Nat
  <1>1. queues \in Seq(Seq(Nat))
    BY DEF SocketInv
  <1>2. Len(queues) \in Nat /\ queues[c] \in Seq(Nat)
    BY <1>1, ElementOfSeq, LenProperties
  <1>3. Len(queues[c]) \in Nat /\ \A i \in 1..Len(queues[c]) : queues[c][i] \in Nat
    BY <1>2, ElementOfSeq, LenProperties
  <1>4. QED
    BY <1>2, <1>3

\* Nothing is queued or handled; the count of the adapter may go on.
LEMMA QueuesKept ==
    ASSUME SocketInv, UNCHANGED <<queues, handled>>, seen' \in Nat, seen' >= seen,
           pushed' \in 0..LastPush, seen' <= pushed', socket' # "down" => socket # "down"
    PROVE  SocketInv'
  <1>1. \A n \in 1..seen : n \in 1..seen'
    BY DEF SocketInv
  <1>2. OnlySeen'
    BY <1>1 DEF SocketInv, OnlySeen, Waits
  <1>3. QueuesInOrder' /\ HandledBefore' /\ InOrder'
    BY DEF SocketInv, QueuesInOrder, HandledBefore, InOrder, Waits
  <1>4. QED
    BY <1>2, <1>3 DEF SocketInv

\* A new connection has an empty queue.
LEMMA ConnectStep ==
    ASSUME SocketInv, Connect
    PROVE  SocketInv'
  <1>1. queues' = Append(queues, <<>>) /\ UNCHANGED <<seen, pushed, handled>>
    BY DEF Connect
  <1>2. queues \in Seq(Seq(Nat)) /\ Len(queues) \in Nat /\ <<>> \in Seq(Nat)
    BY LenProperties, EmptySeq DEF SocketInv
  <1>3. /\ queues' \in Seq(Seq(Nat)) /\ Len(queues') = Len(queues) + 1 /\ queues'[Len(queues) + 1] = <<>>
        /\ \A c \in 1..Len(queues) : queues'[c] = queues[c]
    BY <1>1, <1>2, AppendProperties
  <1>4. ASSUME NEW c \in Nat, NEW i \in Nat, Waits(c, i)'
        PROVE  Waits(c, i) /\ queues'[c] = queues[c]
    <2>1. c \in 1..Len(queues') /\ i \in 1..Len(queues'[c])
      BY <1>4 DEF Waits
    <2>2. c # Len(queues) + 1
      BY <1>3, <2>1, EmptySeq
    <2>3. c \in 1..Len(queues)
      BY <1>2, <1>3, <2>1, <2>2
    <2>4. QED
      BY <1>3, <2>1, <2>3 DEF Waits
  <1>5. OnlySeen' /\ QueuesInOrder' /\ HandledBefore'
    <2>1. OnlySeen /\ QueuesInOrder /\ HandledBefore
      BY DEF SocketInv
    <2>2. OnlySeen'
      BY <1>1, <1>4, <2>1 DEF OnlySeen
    <2>3. QueuesInOrder'
      BY <1>4, <2>1 DEF QueuesInOrder
    <2>4. HandledBefore'
      <3>1. UNCHANGED handled
        BY <1>1
      <3>2. ASSUME NEW k \in 1..Len(handled), NEW c \in Nat, NEW i \in Nat, Waits(c, i)'
            PROVE  /\ handled[k][2] # queues'[c][i]
                   /\ handled[k][1] = c => handled[k][2] < queues'[c][i]
        <4>1. Waits(c, i) /\ queues'[c] = queues[c]
          BY <1>4, <3>2
        <4>2. QED
          BY <2>1, <4>1 DEF HandledBefore
      <3>3. QED
        BY <3>1, <3>2 DEF HandledBefore
    <2>5. QED
      BY <2>2, <2>3, <2>4
  <1>6. InOrder'
    BY <1>1 DEF SocketInv, InOrder
  <1>7. QED
    BY <1>1, <1>2, <1>3, <1>5, <1>6 DEF SocketInv

\* What is read is newer than all that waits and all that was handled.
LEMMA ReadStep ==
    ASSUME SocketInv, Read
    PROVE  SocketInv'
  <1> DEFINE n == Len(queues)
             m == seen + 1
             q == queues[n]
             more == Append(q, m)
  <1>1. /\ socket = "ready" /\ seen < pushed /\ seen' = m /\ queues' = [queues EXCEPT ![n] = more]
        /\ UNCHANGED <<socket, pushed, handled>>
    BY DEF Read
  <1>2. queues \in Seq(Seq(Nat)) /\ n \in Nat /\ n \in 1..n /\ m \in Nat /\ q \in Seq(Nat) /\ Len(q) \in Nat
    <2>1. queues \in Seq(Seq(Nat)) /\ n \in Nat /\ n > 0 /\ m \in Nat
      BY <1>1, LenProperties DEF SocketInv
    <2>2. QED
      BY <2>1, QueueTyped
  <1>3. /\ more \in Seq(Nat) /\ Len(more) = Len(q) + 1 /\ more[Len(q) + 1] = m
        /\ \A i \in 1..Len(q) : more[i] = q[i]
    BY <1>2, AppendProperties
  <1>4. /\ queues' \in Seq(Seq(Nat)) /\ Len(queues') = n /\ queues'[n] = more
        /\ \A c \in 1..n : c # n => queues'[c] = queues[c]
    BY <1>1, <1>2, <1>3, ExceptSeq
  <1> HIDE DEF n, m, q, more
  <1>5. ASSUME NEW c \in Nat, NEW i \in Nat, Waits(c, i)'
        PROVE  \/ Waits(c, i) /\ queues'[c][i] = queues[c][i]
               \/ c = n /\ i = Len(q) + 1 /\ queues'[c][i] = m
    <2>1. c \in 1..n /\ i \in 1..Len(queues'[c])
      BY <1>4, <1>5 DEF Waits
    <2>2. CASE c # n
      BY <1>4, <2>1, <2>2 DEF Waits, n
    <2>3. CASE c = n
      <3>1. i \in 1..Len(q) \/ i = Len(q) + 1
        <4>1. Len(queues'[c]) = Len(q) + 1 /\ Len(q) \in Nat
          BY <1>2, <1>3, <1>4, <2>3
        <4>2. QED
          BY <2>1, <4>1
      <3>2. CASE i = Len(q) + 1
        BY <1>3, <1>4, <2>3, <3>2
      <3>3. CASE i \in 1..Len(q)
        <4>1. queues'[c][i] = q[i]
          BY <1>3, <1>4, <2>3, <3>3
        <4>2. QED
          BY <2>1, <2>3, <3>3, <4>1 DEF Waits, n, q
      <3>4. QED
        BY <3>1, <3>2, <3>3
    <2>4. QED
      BY <2>2, <2>3
  <1>6. m = seen + 1 /\ seen \in Nat /\ pushed \in Nat /\ seen < pushed
    BY <1>1 DEF SocketInv, m
  <1>7. /\ \A c, i \in Nat : Waits(c, i) => queues[c][i] \in Nat /\ queues[c][i] < m
        /\ \A k \in 1..Len(handled) : handled[k][2] \in Nat /\ handled[k][2] < m
    <2>1. OnlySeen
      BY DEF SocketInv
    <2>2. \A k \in 1..seen : k \in Nat /\ k < m
      BY <1>6
    <2>3. QED
      BY <2>1, <2>2 DEF OnlySeen
  <1>8. OnlySeen'
    <2>1. \A k \in 1..seen : k \in 1..m
      BY <1>6
    <2>2. m \in 1..m
      BY <1>6
    <2>3. QED
      BY <1>1, <1>5, <2>1, <2>2 DEF SocketInv, OnlySeen
  <1>9. QueuesInOrder'
    <2> SUFFICES ASSUME NEW c \in Nat, NEW d \in Nat, NEW i \in Nat, NEW k \in Nat, Waits(c, i)', Waits(d, k)'
                 PROVE  /\ c = d /\ i < k => queues'[c][i] < queues'[d][k]
                        /\ c # d => queues'[c][i] # queues'[d][k]
      BY DEF QueuesInOrder
    <2>1. CASE Waits(c, i) /\ queues'[c][i] = queues[c][i] /\ Waits(d, k) /\ queues'[d][k] = queues[d][k]
      BY <2>1 DEF SocketInv, QueuesInOrder
    <2>2. CASE Waits(c, i) /\ queues'[c][i] = queues[c][i] /\ d = n /\ k = Len(q) + 1 /\ queues'[d][k] = m
      BY <1>6, <1>7, <2>2
    <2>3. CASE c = n /\ i = Len(q) + 1 /\ queues'[c][i] = m /\ Waits(d, k) /\ queues'[d][k] = queues[d][k]
      <3>1. c # d => queues'[c][i] # queues'[d][k]
        BY <1>6, <1>7, <2>3
      <3>2. c = d => k \in 1..Len(q)
        BY <2>3 DEF Waits, q
      <3>3. c = d => ~(i < k)
        BY <1>2, <2>3, <3>2
      <3>4. QED
        BY <3>1, <3>3
    <2>4. CASE c = n /\ i = Len(q) + 1 /\ d = n /\ k = Len(q) + 1
      BY <1>2, <2>4
    <2>5. QED
      BY <1>5, <2>1, <2>2, <2>3, <2>4
  <1>10. HandledBefore'
    <2>1. HandledBefore
      BY DEF SocketInv
    <2>2. \A k \in 1..Len(handled) : handled[k][2] # m /\ handled[k][2] < m
      BY <1>6, <1>7
    <2>3. QED
      BY <1>1, <1>5, <2>1, <2>2 DEF HandledBefore
  <1>11. InOrder'
    BY <1>1 DEF SocketInv, InOrder
  <1>12. seen' \in Nat /\ pushed' \in 0..LastPush /\ seen' <= pushed'
    BY <1>1, <1>6 DEF SocketInv
  <1>13. QED
    BY <1>1, <1>2, <1>4, <1>8, <1>9, <1>10, <1>11, <1>12 DEF SocketInv

\* A queue without its first message.
LEMMA WithoutFirst ==
    ASSUME NEW q \in Seq(Nat), q # <<>>
    PROVE  LET rest == SubSeq(q, 1, 1 - 1) \o SubSeq(q, 1 + 1, Len(q)) IN
           /\ rest \in Seq(Nat) /\ Len(rest) = Len(q) - 1
           /\ \A i \in 1..(Len(q) - 1) : rest[i] = q[i + 1]
  <1>1. Len(q) \in Nat \ {0}
    BY LenProperties, EmptySeq
  <1>2. \A i \in 1..Len(q) : q[i] \in Nat
    BY ElementOfSeq
  <1>3. SubSeq(q, 1, 0) = <<>>
    BY SubSeqEmpty
  <1>4. SubSeq(q, 2, Len(q)) = Tail(q)
    BY <1>1, TailIsSubSeq
  <1>5. Tail(q) \in Seq(Nat) /\ Len(Tail(q)) = Len(q) - 1 /\ \A i \in 1..(Len(q) - 1) : Tail(q)[i] = q[i + 1]
    BY <1>1, HeadTailProperties
  <1>6. <<>> \o Tail(q) = Tail(q)
    BY <1>5, ConcatEmptySeq
  <1>7. 1 - 1 = 0 /\ 1 + 1 = 2
    OBVIOUS
  <1>8. QED
    BY <1>3, <1>4, <1>5, <1>6, <1>7

LEMMA TakeStep ==
    ASSUME SocketInv, NEW c \in DOMAIN queues, Handle(c)
    PROVE  SocketInv'
  <1> DEFINE q == queues[c]
             rest == SubSeq(q, 1, 1 - 1) \o SubSeq(q, 1 + 1, Len(q))
             n == Len(handled) + 1
  <1>1. /\ q # <<>> /\ queues' = [queues EXCEPT ![c] = rest] /\ handled' = Append(handled, <<c, q[1]>>)
        /\ UNCHANGED <<socket, seen, pushed>>
    BY DEF Handle, HandleAt
  <1>2. /\ queues \in Seq(Seq(Nat)) /\ Len(queues) \in Nat /\ c \in 1..Len(queues)
        /\ handled \in Seq(Nat \X Nat) /\ Len(handled) \in Nat
    BY LenProperties DEF SocketInv
  <1>3. c \in Nat /\ q \in Seq(Nat) /\ Len(q) \in Nat \ {0} /\ q[1] \in Nat /\ 1 \in 1..Len(q)
    <2>1. c \in Nat /\ q \in Seq(Nat) /\ Len(q) \in Nat
      BY <1>2, QueueTyped
    <2>2. Len(q) # 0
      BY <1>1, <2>1, EmptySeq
    <2>3. 1 \in 1..Len(q)
      BY <2>1, <2>2
    <2>4. QED
      BY <2>1, <2>2, <2>3, ElementOfSeq
  <1>4. /\ rest \in Seq(Nat) /\ Len(rest) = Len(q) - 1
        /\ \A i \in 1..(Len(q) - 1) : rest[i] = q[i + 1]
    BY <1>1, <1>3, WithoutFirst
  <1> HIDE DEF rest
  <1>5. /\ queues' \in Seq(Seq(Nat)) /\ Len(queues') = Len(queues) /\ queues'[c] = rest
        /\ \A d \in 1..Len(queues) : d # c => queues'[d] = queues[d]
    BY <1>1, <1>2, <1>4, ExceptSeq
  <1>6. /\ handled' \in Seq(Nat \X Nat) /\ Len(handled') = n /\ handled'[n] = <<c, q[1]>>
        /\ \A k \in 1..Len(handled) : handled'[k] = handled[k]
    <2>1. <<c, q[1]>> \in Nat \X Nat
      BY <1>3
    <2>2. QED
      BY <1>1, <1>2, <2>1, AppendProperties
  <1>7. \A k \in 1..n : k \in 1..Len(handled) \/ k = n
    <2>1. Len(handled) \in Nat
      BY <1>2
    <2>2. QED
      BY <2>1
  <1>8. n \in Nat /\ \A k \in 1..Len(handled) : k < n
    BY <1>2
  <1>9. Waits(c, 1) /\ queues[c][1] = q[1]
    BY <1>2, <1>3 DEF Waits
  <1> HIDE DEF n, q
  <1>10. ASSUME NEW d \in Nat, NEW i \in Nat, Waits(d, i)'
         PROVE  LET before == IF d = c THEN i + 1 ELSE i IN
                Waits(d, before) /\ queues'[d][i] = queues[d][before] /\ before \in Nat
    <2>1. d \in 1..Len(queues) /\ i \in 1..Len(queues'[d])
      BY <1>5, <1>10 DEF Waits
    <2>2. CASE d # c
      BY <1>5, <2>1, <2>2 DEF Waits
    <2>3. CASE d = c
      <3>1. i \in 1..(Len(q) - 1) /\ i + 1 \in 1..Len(q)
        BY <1>3, <1>4, <1>5, <2>1, <2>3
      <3>2. queues'[d][i] = q[i + 1]
        BY <1>4, <1>5, <2>3, <3>1
      <3>3. QED
        BY <2>1, <2>3, <3>1, <3>2 DEF Waits, q
    <2>4. QED
      BY <2>2, <2>3
  <1>11. OnlySeen'
    <2>1. ASSUME NEW d \in Nat, NEW i \in Nat, Waits(d, i)'
          PROVE  queues'[d][i] \in 1..seen
      <3>1. PICK before \in Nat : Waits(d, before) /\ queues'[d][i] = queues[d][before]
        BY <1>10, <2>1
      <3>2. OnlySeen
        BY DEF SocketInv
      <3>3. QED
        BY <3>1, <3>2 DEF OnlySeen
    <2>2. q[1] \in 1..seen
      BY <1>3, <1>9 DEF SocketInv, OnlySeen
    <2>3. \A k \in 1..Len(handled') : handled'[k][2] \in 1..seen
      <3>1. OnlySeen
        BY DEF SocketInv
      <3>2. handled'[n][2] = q[1]
        BY <1>6
      <3>3. QED
        BY <1>6, <1>7, <2>2, <3>1, <3>2 DEF OnlySeen
    <2>4. QED
      BY <1>1, <2>1, <2>3 DEF OnlySeen
  <1>12. QueuesInOrder'
    <2> SUFFICES ASSUME NEW d \in Nat, NEW e \in Nat, NEW i \in Nat, NEW k \in Nat, Waits(d, i)', Waits(e, k)'
                 PROVE  /\ d = e /\ i < k => queues'[d][i] < queues'[e][k]
                        /\ d # e => queues'[d][i] # queues'[e][k]
      BY DEF QueuesInOrder
    <2> DEFINE old == IF d = c THEN i + 1 ELSE i
               new == IF e = c THEN k + 1 ELSE k
    <2>1. /\ Waits(d, old) /\ queues'[d][i] = queues[d][old] /\ old \in Nat
          /\ Waits(e, new) /\ queues'[e][k] = queues[e][new] /\ new \in Nat
      BY <1>10
    <2>2. d = e /\ i < k => old < new
      OBVIOUS
    <2> HIDE DEF old, new
    <2>3. QED
      BY <2>1, <2>2 DEF SocketInv, QueuesInOrder
  \* The first message of a queue is handled before the rest of it.
  <1>13. HandledBefore'
    <2> SUFFICES ASSUME NEW k \in 1..n, NEW d \in Nat, NEW i \in Nat, Waits(d, i)'
                 PROVE  /\ handled'[k][2] # queues'[d][i]
                        /\ handled'[k][1] = d => handled'[k][2] < queues'[d][i]
      BY <1>6 DEF HandledBefore
    <2> DEFINE old == IF d = c THEN i + 1 ELSE i
    <2>1. Waits(d, old) /\ queues'[d][i] = queues[d][old] /\ old \in Nat
      BY <1>10
    <2>2. CASE k \in 1..Len(handled)
      <3> HIDE DEF old
      <3>1. HandledBefore /\ handled'[k] = handled[k]
        BY <1>6, <2>2 DEF SocketInv
      <3>2. QED
        BY <2>1, <2>2, <3>1 DEF HandledBefore
    <2>3. CASE k = n
      <3>1. handled'[k] = <<c, q[1]>>
        BY <1>6, <2>3
      <3>2. i # 0 /\ (d = c => 1 < old)
        BY DEF Waits
      <3> HIDE DEF old
      <3>3. d = c => q[1] < queues[d][old]
        BY <1>3, <1>9, <2>1, <3>2 DEF SocketInv, QueuesInOrder
      <3>4. d # c => q[1] # queues[d][old]
        BY <1>3, <1>9, <2>1 DEF SocketInv, QueuesInOrder
      <3>5. queues[d][old] \in Nat
        <4>1. queues[d][old] \in 1..seen
          BY <2>1 DEF SocketInv, OnlySeen
        <4>2. seen \in Nat
          BY DEF SocketInv
        <4>3. QED
          BY <4>1, <4>2
      <3>6. QED
        BY <1>3, <2>1, <3>1, <3>3, <3>4, <3>5
    <2>4. QED
      BY <1>7, <2>2, <2>3
  <1>14. InOrder'
    <2> SUFFICES ASSUME NEW i \in 1..n, NEW k \in 1..n, i < k
                 PROVE  /\ handled'[i][2] # handled'[k][2]
                        /\ handled'[i][1] = handled'[k][1] => handled'[i][2] < handled'[k][2]
      BY <1>6 DEF InOrder
    <2>1. i \in 1..Len(handled)
      BY <1>2, <1>7, <1>8
    <2>2. CASE k \in 1..Len(handled)
      <3>1. InOrder /\ handled'[i] = handled[i] /\ handled'[k] = handled[k]
        BY <1>6, <2>1, <2>2 DEF SocketInv
      <3>2. i \in DOMAIN handled /\ k \in DOMAIN handled
        <4>1. handled \in Seq(Nat \X Nat)
          BY <1>2
        <4>2. DOMAIN handled = 1..Len(handled)
          BY <4>1, LenProperties
        <4>3. QED
          BY <2>1, <2>2, <4>2
      <3>3. QED
        BY <2>1, <2>2, <3>1, <3>2 DEF InOrder
    <2>3. CASE k = n
      <3>1. handled'[k] = <<c, q[1]>> /\ handled'[i] = handled[i]
        BY <1>6, <2>1, <2>3
      <3>2. handled[i][2] # q[1] /\ (handled[i][1] = c => handled[i][2] < q[1])
        BY <1>3, <1>9, <2>1 DEF SocketInv, HandledBefore
      <3>3. QED
        BY <3>1, <3>2
    <2>4. QED
      BY <1>7, <2>2, <2>3
  <1>15. QED
    BY <1>1, <1>2, <1>5, <1>6, <1>11, <1>12, <1>13, <1>14 DEF SocketInv

LEMMA SocketStart == SocketInit => SocketInv
  <1> SUFFICES ASSUME SocketInit PROVE SocketInv
    OBVIOUS
  <1>1. /\ socket = "down" /\ seen = 0 /\ pushed = 0 /\ queues = <<>> /\ handled = <<>>
        /\ LastPush \in Nat /\ 0 \in 0..LastPush
    BY SocketAssumption DEF SocketInit
  <1>2. queues \in Seq(Seq(Nat)) /\ handled \in Seq(Nat \X Nat) /\ Len(queues) = 0 /\ Len(handled) = 0
    BY <1>1, EmptySeq
  <1>3. OnlySeen /\ QueuesInOrder /\ HandledBefore /\ InOrder
    BY <1>2 DEF OnlySeen, QueuesInOrder, HandledBefore, InOrder, Waits
  <1>4. QED
    BY <1>1, <1>2, <1>3 DEF SocketInv

LEMMA SocketKept == SocketInv /\ [SocketNext]_socketVars => SocketInv'
  <1> SUFFICES ASSUME SocketInv, [SocketNext]_socketVars PROVE SocketInv'
    OBVIOUS
  <1>1. seen \in Nat /\ pushed \in 0..LastPush /\ seen <= pushed /\ pushed \in Nat /\ LastPush \in Nat
    BY SocketAssumption DEF SocketInv
  <1>2. CASE Handshake
    <2>1. socket = "opening" /\ UNCHANGED <<queues, handled, pushed>> /\ seen' \in {seen, pushed}
      BY <1>2 DEF Handshake
    <2>2. QED
      BY <1>1, <2>1, QueuesKept
  <1>3. CASE Push
    <2>1. pushed' \in 0..LastPush /\ seen <= pushed'
      BY <1>1, <1>3 DEF Push
    <2>2. QED
      BY <1>1, <1>3, <2>1, QueuesKept DEF Push
  <1>4. CASE HandshakeDeadline \/ Heartbeat \/ HeartbeatAnswered \/ Breaks \/ InvalidSession \/ UNCHANGED socketVars
    <2>1. /\ UNCHANGED <<seen, pushed, queues, handled>>
          /\ socket' = "down" \/ socket' = socket
      BY <1>4 DEF HandshakeDeadline, Heartbeat, HeartbeatAnswered, Breaks, InvalidSession, Down, socketVars
    <2>2. QED
      BY <1>1, <2>1, QueuesKept
  <1>5. ASSUME NEW c \in DOMAIN queues, Handle(c) PROVE SocketInv'
    BY <1>5, TakeStep
  <1>6. QED
    BY <1>2, <1>3, <1>4, <1>5, ConnectStep, ReadStep DEF SocketNext, Connecting

\* What every step of a socket keeps, for any number of messages, connections and faults
\* (channel-adapters.ts l.190-250).
THEOREM SocketInvariance == SocketSpec => []SocketInv
  BY SocketStart, SocketKept, PTL DEF SocketSpec

\* Over reconnects and resumed sessions no message reaches the Hub twice, and those of one
\* connection in their order (channel-adapters.ts l.202, l.221, l.232).
THEOREM MessagesInOrder == SocketSpec => []InOrder
  <1>1. SocketInv => InOrder
    BY DEF SocketInv
  <1>2. QED
    BY <1>1, SocketInvariance, PTL

-----------------------------------------------------------------------------
(* The outbox.                                                             *)

LEMMA SetAsSequence ==
    ASSUME NEW S, IsFiniteSet(S)
    PROVE  SetToSeq(S) \in Seq(S) /\ ToSet(SetToSeq(S)) = S
  <1> DEFINE n == Cardinality(S)
  <1>1. n \in Nat /\ ExistsBijection(1..n, S)
    BY FS_CardinalityType
  <1>2. PICK b \in Bijection(1..n, S) : TRUE
    BY <1>1 DEF ExistsBijection
  <1>3. b \in [1..n -> S] /\ IsInjective(b)
    BY <1>2 DEF Bijection, Injection
  <1>4. SetToSeq(S) \in [1..n -> S] /\ IsInjective(SetToSeq(S))
    BY <1>3 DEF SetToSeq
  <1>5. SetToSeq(S) \in Injection(1..n, S)
    BY <1>4 DEF Injection
  <1>6. Cardinality(1..n) = n
    BY <1>1, FS_Interval
  <1>7. SetToSeq(S) \in Surjection(1..n, S)
    BY <1>5, <1>6, FS_Injection
  <1>8. \A x \in S : \E i \in 1..n : SetToSeq(S)[i] = x
    BY <1>7 DEF Surjection
  <1>9. DOMAIN SetToSeq(S) = 1..n /\ \A i \in 1..n : SetToSeq(S)[i] \in S
    BY <1>4
  <1>10. SetToSeq(S) \in Seq(S)
    BY <1>1, <1>4
  <1>11. QED
    BY <1>8, <1>9, <1>10 DEF ToSet

LEMMA JoinedSet ==
    ASSUME NEW T, NEW s \in Seq(T), NEW t \in Seq(T)
    PROVE  ToSet(s \o t) = ToSet(s) \cup ToSet(t)
  <1>1. /\ DOMAIN s = 1..Len(s) /\ DOMAIN t = 1..Len(t) /\ DOMAIN (s \o t) = 1..(Len(s) + Len(t))
        /\ Len(s) \in Nat /\ Len(t) \in Nat
        /\ \A i \in 1..(Len(s) + Len(t)) : (s \o t)[i] = IF i <= Len(s) THEN s[i] ELSE t[i - Len(s)]
    BY ConcatProperties
  <1>2. \A i \in 1..Len(s) : i \in 1..(Len(s) + Len(t)) /\ (s \o t)[i] = s[i]
    BY <1>1
  <1>3. \A i \in 1..Len(t) : Len(s) + i \in 1..(Len(s) + Len(t)) /\ (s \o t)[Len(s) + i] = t[i]
    BY <1>1
  <1>4. \A i \in 1..(Len(s) + Len(t)) : (s \o t)[i] \in ToSet(s) \cup ToSet(t)
    <2> SUFFICES ASSUME NEW i \in 1..(Len(s) + Len(t)) PROVE (s \o t)[i] \in ToSet(s) \cup ToSet(t)
      OBVIOUS
    <2>1. CASE i <= Len(s)
      <3>1. i \in 1..Len(s) /\ (s \o t)[i] = s[i]
        BY <1>1, <2>1
      <3>2. QED
        BY <1>1, <3>1 DEF ToSet
    <2>2. CASE ~(i <= Len(s))
      <3>1. i - Len(s) \in 1..Len(t) /\ (s \o t)[i] = t[i - Len(s)]
        BY <1>1, <2>2
      <3>2. QED
        BY <1>1, <3>1 DEF ToSet
    <2>3. QED
      BY <2>1, <2>2
  <1>5. ToSet(s \o t) \subseteq ToSet(s) \cup ToSet(t)
    BY <1>1, <1>4 DEF ToSet
  <1>6. ToSet(s) \subseteq ToSet(s \o t)
    BY <1>1, <1>2 DEF ToSet
  <1>7. ToSet(t) \subseteq ToSet(s \o t)
    <2> SUFFICES ASSUME NEW j \in 1..Len(t)
                 PROVE  t[j] \in ToSet(s \o t)
      BY DEF ToSet
    <2>1. PICK i \in DOMAIN (s \o t) : (s \o t)[i] = t[j]
      BY <1>1, <1>3
    <2>2. QED
      BY <2>1 DEF ToSet
  <1>8. QED
    BY <1>5, <1>6, <1>7

\* A loop that holds a notice holds a listed one, which the Owner has seen when only the
\* acknowledgement is left; and only finitely many jobs and calls can be announced.
Begun == {j \in OutJobs : outJob[j] = "ended"}
Asking == {c \in OutCalls : outCall[c].status = "WAIT_APPROVAL"}
Listed == {n \in Notices : notice[n].status # "none"}
Load == [at : {"deliver", "acknowledge"}, channel : Channels, notice : Notices, lease : Nat]
NoticeRow == [status : {"none", "PENDING", "LEASED", "DELIVERED"}, lease : Nat, late : BOOLEAN]

OutboxInv ==
    /\ posted \in Seq(Notices) /\ ToSet(posted) = Listed
    /\ notice \in [Notices -> NoticeRow]
    /\ courier \in [Couriers -> Load \cup {Resting}]
    /\ \A k \in Couriers : courier[k] # Resting =>
          /\ courier[k].notice \in Listed
          /\ courier[k].at = "acknowledge" => courier[k].notice \in shown
    /\ shown \subseteq Listed
    /\ outJob \in [OutJobs -> {"none", "open", "ended"}] /\ DOMAIN outCall = OutCalls
    /\ IsFiniteSet(Begun) /\ IsFiniteSet(Asking)

\* What is known of the jobs and calls, in the next state.
JobsTyped ==
    /\ outJob \in [OutJobs -> {"none", "open", "ended"}] /\ DOMAIN outCall = OutCalls
    /\ IsFiniteSet(Begun) /\ IsFiniteSet(Asking)

LEMMA Enqueued ==
    ASSUME OutboxInv, NEW ns \in SUBSET Notices, IsFiniteSet(ns), EnqueueBound(ns)
    PROVE  \E new \in SUBSET Notices :
             /\ new \cap Listed = {}
             /\ posted' \in Seq(Notices) /\ ToSet(posted') = Listed \cup new
             /\ notice' \in [Notices -> NoticeRow]
             /\ \A n \in Notices : IF n \in new THEN notice'[n].status = "PENDING" ELSE notice'[n] = notice[n]
  <1> DEFINE new == {n \in ns : notice[n].status = "none" /\ RecipientOf(n) # Nobody}
  <1>1. /\ notice' = [n \in Notices |-> IF n \in new THEN [NoNotice EXCEPT !.status = "PENDING"] ELSE notice[n]]
        /\ posted' = posted \o SetToSeq(new)
    BY DEF EnqueueBound
  <1>2. new \subseteq ns /\ new \in SUBSET Notices /\ new \cap Listed = {}
    BY DEF Listed
  <1> HIDE DEF new
  <1>3. IsFiniteSet(new)
    BY <1>2, FS_Subset
  <1>4. SetToSeq(new) \in Seq(Notices) /\ ToSet(SetToSeq(new)) = new
    <2>1. SetToSeq(new) \in Seq(new) /\ ToSet(SetToSeq(new)) = new
      BY <1>3, SetAsSequence
    <2>2. QED
      BY <1>2, <2>1
  <1>5. posted' \in Seq(Notices)
    BY <1>1, <1>4, ConcatProperties DEF OutboxInv
  <1>6. ToSet(posted') = Listed \cup new
    BY <1>1, <1>4, JoinedSet DEF OutboxInv
  <1>7. [NoNotice EXCEPT !.status = "PENDING"] \in NoticeRow /\ [NoNotice EXCEPT !.status = "PENDING"].status = "PENDING"
    BY DEF NoNotice, NoticeRow
  <1>8. notice' \in [Notices -> NoticeRow]
    BY <1>1, <1>7 DEF OutboxInv, NoticeRow
  <1>9. \A n \in Notices : IF n \in new THEN notice'[n].status = "PENDING" ELSE notice'[n] = notice[n]
    BY <1>1, <1>7
  <1>10. QED
    BY <1>2, <1>5, <1>6, <1>8, <1>9

MailStep == M!MailNext \/ UNCHANGED M!mailVars

\* The jobs and calls change, and the outbox and its loops do not.
LEMMA OutboxStays ==
    ASSUME OutboxInv, JobsTyped', UNCHANGED <<posted, notice, courier, shown>>
    PROVE  OutboxInv' /\ MailStep
  <1>1. OutboxInv'
    BY DEF OutboxInv, JobsTyped, Listed
  <1>2. UNCHANGED M!mailVars
    BY DEF M!mailVars
  <1>3. QED
    BY <1>1, <1>2 DEF MailStep

\* New notices are posted.
LEMMA NoticesPosted ==
    ASSUME OutboxInv, JobsTyped', UNCHANGED <<courier, shown>>, NEW ns \in SUBSET Notices, IsFiniteSet(ns),
           EnqueueBound(ns) \/ EnqueueNothing(ns)
    PROVE  OutboxInv' /\ MailStep
  <1>1. CASE EnqueueNothing(ns)
    BY <1>1, OutboxStays DEF EnqueueNothing, rowsVars
  <1>2. CASE EnqueueBound(ns)
    <2>1. PICK new \in SUBSET Notices :
             /\ new \cap Listed = {}
             /\ posted' \in Seq(Notices) /\ ToSet(posted') = Listed \cup new
             /\ notice' \in [Notices -> NoticeRow]
             /\ \A n \in Notices : IF n \in new THEN notice'[n].status = "PENDING" ELSE notice'[n] = notice[n]
      BY <1>2, Enqueued
    <2>2. Listed' = Listed \cup new
      BY <2>1 DEF Listed
    <2>3. {n \in Notices : notice'[n].status = "DELIVERED"} = {n \in Notices : notice[n].status = "DELIVERED"}
      BY <2>1 DEF Listed
    <2>4. M!Post(new)
      BY <2>1, <2>3 DEF M!Post, OutboxInv
    <2>5. OutboxInv'
      BY <2>1, <2>2 DEF OutboxInv, JobsTyped, NoticeRow
    <2>6. QED
      BY <2>4, <2>5 DEF MailStep, M!MailNext
  <1>3. QED
    BY <1>1, <1>2

\* The rows change, and which are listed and which are settled does not; the loops are idle or
\* hold what is listed.
LEMMA RowsMove ==
    ASSUME OutboxInv, UNCHANGED <<outJob, outCall, posted, shown>>,
           notice' \in [Notices -> NoticeRow],
           \A n \in Notices : /\ (notice[n].status = "none") <=> (notice'[n].status = "none")
                              /\ (notice[n].status = "DELIVERED") <=> (notice'[n].status = "DELIVERED"),
           courier' \in [Couriers -> Load \cup {Resting}],
           \A k \in Couriers : courier'[k] # Resting =>
              courier'[k] = courier[k] \/ (courier'[k].at = "deliver" /\ courier'[k].notice \in Listed)
    PROVE  OutboxInv' /\ MailStep
  <1>1. Listed' = Listed
    BY DEF Listed
  <1>2. {n \in Notices : notice'[n].status = "DELIVERED"} = {n \in Notices : notice[n].status = "DELIVERED"}
    OBVIOUS
  <1>3. UNCHANGED M!mailVars
    BY <1>2 DEF M!mailVars
  <1>4. Begun' = Begun /\ Asking' = Asking
    BY DEF Begun, Asking
  <1>5. \A k \in Couriers : courier'[k] # Resting =>
          /\ courier'[k].notice \in Listed
          /\ courier'[k].at = "acknowledge" => courier'[k].notice \in shown
    BY DEF OutboxInv
  <1>6. OutboxInv'
    BY <1>1, <1>4, <1>5 DEF OutboxInv, NoticeRow
  <1>7. QED
    BY <1>3, <1>6 DEF MailStep

LEMMA LeaseStep ==
    ASSUME OutboxInv, NEW n \in Notices, LeaseRunsOut(n)
    PROVE  OutboxInv' /\ MailStep
  <1>1. /\ notice' = [notice EXCEPT ![n].late = TRUE] /\ UNCHANGED <<outJob, outCall, posted, shown, courier>>
    BY DEF LeaseRunsOut, jobsVars
  <1>2. notice' \in [Notices -> NoticeRow] /\ \A m \in Notices : notice'[m].status = notice[m].status
    BY <1>1 DEF OutboxInv, NoticeRow
  <1>3. courier' \in [Couriers -> Load \cup {Resting}]
    BY <1>1 DEF OutboxInv
  <1>4. QED
    BY <1>1, <1>2, <1>3, RowsMove

LEMMA PullStep ==
    ASSUME OutboxInv, NEW k \in Couriers, NEW ch \in Channels, Pull(k, ch)
    PROVE  OutboxInv' /\ MailStep
  <1>1. UNCHANGED <<outJob, outCall, posted, shown>>
    BY DEF Pull, jobsVars
  <1>2. PICK n \in Notices :
          /\ Oldest(ch, n)
          /\ notice' = [m \in Notices |-> IF m = n THEN [status |-> "LEASED", lease |-> notice[n].lease + 1, late |-> FALSE]
                                           ELSE Released(ch, m)]
          /\ \/ courier' = [courier EXCEPT ![k] = [at |-> "deliver", channel |-> ch, notice |-> n, lease |-> notice[n].lease + 1]]
             \/ UNCHANGED courier
    BY DEF Pull
  <1>3. notice[n].status \in {"PENDING", "LEASED"} /\ n \in Listed
    BY <1>2 DEF Oldest, Deliverable, Listed
  <1>4. notice[n].lease + 1 \in Nat
    BY DEF OutboxInv, NoticeRow
  <1> DEFINE row == [status |-> "LEASED", lease |-> notice[n].lease + 1, late |-> FALSE]
             load == [at |-> "deliver", channel |-> ch, notice |-> n, lease |-> notice[n].lease + 1]
  <1>5. row \in NoticeRow /\ row.status = "LEASED" /\ load \in Load /\ load.at = "deliver" /\ load.notice = n
    BY <1>4 DEF NoticeRow, Load
  <1>6. \A m \in Notices : Released(ch, m) \in NoticeRow
    BY DEF Released, OutboxInv, NoticeRow
  <1>7. \A m \in Notices : /\ (notice[m].status = "none") <=> (Released(ch, m).status = "none")
                           /\ (notice[m].status = "DELIVERED") <=> (Released(ch, m).status = "DELIVERED")
    <2> SUFFICES ASSUME NEW m \in Notices
                 PROVE  /\ (notice[m].status = "none") <=> (Released(ch, m).status = "none")
                        /\ (notice[m].status = "DELIVERED") <=> (Released(ch, m).status = "DELIVERED")
      OBVIOUS
    <2>1. CASE Deliverable(ch, m)
      <3>1. Released(ch, m).status = "PENDING"
        BY <2>1 DEF Released, OutboxInv
      <3>2. notice[m].status \in {"PENDING", "LEASED"}
        BY <2>1 DEF Deliverable
      <3>3. QED
        BY <3>1, <3>2
    <2>2. CASE ~Deliverable(ch, m)
      BY <2>2 DEF Released
    <2>3. QED
      BY <2>1, <2>2
  <1>8. /\ notice' = [m \in Notices |-> IF m = n THEN row ELSE Released(ch, m)]
        /\ courier' = [courier EXCEPT ![k] = load] \/ UNCHANGED courier
    BY <1>2
  <1> HIDE DEF row, load
  <1>9. notice' \in [Notices -> NoticeRow]
    BY <1>5, <1>6, <1>8
  <1>10. \A m \in Notices : notice'[m] = IF m = n THEN row ELSE Released(ch, m)
    BY <1>8
  <1>11. \A m \in Notices : /\ (notice[m].status = "none") <=> (notice'[m].status = "none")
                            /\ (notice[m].status = "DELIVERED") <=> (notice'[m].status = "DELIVERED")
    BY <1>3, <1>5, <1>7, <1>10
  <1>12. /\ courier' \in [Couriers -> Load \cup {Resting}]
         /\ \A l \in Couriers : courier'[l] = courier[l] \/ (courier'[l].at = "deliver" /\ courier'[l].notice \in Listed)
    BY <1>3, <1>5, <1>8 DEF OutboxInv
  <1>13. QED
    BY <1>1, <1>9, <1>11, <1>12, RowsMove

LEMMA DeliverStep ==
    ASSUME OutboxInv, NEW k \in Couriers, Deliver(k)
    PROVE  OutboxInv' /\ MailStep
  <1>1. /\ courier[k].at = "deliver" /\ shown' = shown \cup {courier[k].notice}
        /\ UNCHANGED <<outJob, outCall, posted, notice>>
        /\ \/ courier' = [courier EXCEPT ![k].at = "acknowledge"]
           \/ courier' = [courier EXCEPT ![k] = Resting]
    BY DEF Deliver, jobsVars, rowsVars
  <1>2. courier[k] \in Load /\ courier[k].notice \in Listed /\ Listed \subseteq Notices
    BY <1>1 DEF OutboxInv, Resting, Listed
  <1> DEFINE shownLoad == [courier[k] EXCEPT !.at = "acknowledge"]
  <1>3. /\ courier' \in [Couriers -> Load \cup {Resting}]
        /\ courier'[k] # Resting => courier'[k].notice = courier[k].notice
        /\ \A l \in Couriers : l # k => courier'[l] = courier[l]
    <2>1. shownLoad \in Load /\ shownLoad.notice = courier[k].notice
      BY <1>2 DEF Load
    <2>2. courier' = [courier EXCEPT ![k] = shownLoad] \/ courier' = [courier EXCEPT ![k] = Resting]
      BY <1>1
    <2> HIDE DEF shownLoad
    <2>3. QED
      BY <2>1, <2>2 DEF OutboxInv
  <1>4. Listed' = Listed /\ Begun' = Begun /\ Asking' = Asking
    BY <1>1 DEF Listed, Begun, Asking
  <1>5. \A l \in Couriers : courier'[l] # Resting =>
          /\ courier'[l].notice \in Listed
          /\ courier'[l].at = "acknowledge" => courier'[l].notice \in shown'
    BY <1>1, <1>2, <1>3 DEF OutboxInv
  <1>6. OutboxInv'
    BY <1>1, <1>2, <1>3, <1>4, <1>5 DEF OutboxInv
  <1>7. M!Show(courier[k].notice)
    BY <1>1, <1>2 DEF M!Show, OutboxInv
  <1>8. QED
    <2>1. \E n \in Notices : M!Show(n)
      BY <1>2, <1>7
    <2>2. M!MailNext
      BY <2>1 DEF M!MailNext
    <2>3. QED
      BY <1>6, <2>2 DEF MailStep

\* What is acknowledged was shown, whichever lease it was delivered under.
LEMMA AcknowledgeStep ==
    ASSUME OutboxInv, NEW k \in Couriers, Acknowledge(k)
    PROVE  OutboxInv' /\ MailStep
  <1> DEFINE n == courier[k].notice
  <1>1. /\ courier[k].at = "acknowledge" /\ courier' = [courier EXCEPT ![k] = Resting]
        /\ UNCHANGED <<outJob, outCall, posted, shown>>
        /\ notice' = IF Matches(n, courier[k].lease)
                       THEN [notice EXCEPT ![n].status = "DELIVERED", ![n].late = FALSE] ELSE notice
    BY DEF Acknowledge, jobsVars
  <1>2. n \in Notices /\ n \in Listed /\ n \in shown
    BY <1>1 DEF OutboxInv, Resting, Listed
  <1>3. /\ courier' \in [Couriers -> Load \cup {Resting}]
        /\ \A l \in Couriers : courier'[l] \in {courier[l], Resting}
    BY <1>1 DEF OutboxInv
  <1> HIDE DEF n
  <1>4. CASE UNCHANGED notice
    BY <1>1, <1>3, <1>4, RowsMove DEF OutboxInv, NoticeRow
  <1>5. CASE notice' = [notice EXCEPT ![n].status = "DELIVERED", ![n].late = FALSE]
    <2>1. /\ notice' \in [Notices -> NoticeRow] /\ notice'[n].status = "DELIVERED"
          /\ \A m \in Notices : m # n => notice'[m] = notice[m]
      BY <1>2, <1>5 DEF OutboxInv, NoticeRow
    <2>2. Listed' = Listed /\ Begun' = Begun /\ Asking' = Asking
      BY <1>1, <1>2, <2>1 DEF Listed, Begun, Asking
    <2>3. \A l \in Couriers : courier'[l] # Resting => courier'[l] = courier[l]
      BY <1>3
    <2>4. OutboxInv'
      BY <1>1, <1>3, <2>1, <2>2, <2>3 DEF OutboxInv, NoticeRow
    <2>5. {m \in Notices : notice'[m].status = "DELIVERED"} = {m \in Notices : notice[m].status = "DELIVERED"} \cup {n}
      BY <1>2, <2>1
    <2>6. M!Settle(n)
      BY <1>1, <1>2, <2>5 DEF M!Settle
    <2>7. QED
      <3>1. \E m \in Notices : M!Settle(m)
        BY <1>2, <2>6 DEF M!Settle
      <3>2. M!MailNext
        BY <3>1 DEF M!MailNext
      <3>3. QED
        BY <2>4, <3>2 DEF MailStep
  <1>6. QED
    BY <1>1, <1>4, <1>5

LEMMA GiveUpStep ==
    ASSUME OutboxInv, NEW k \in Couriers, CourierGivesUp(k)
    PROVE  OutboxInv' /\ MailStep
  <1>1. courier' = [courier EXCEPT ![k] = Resting] /\ UNCHANGED <<outJob, outCall, posted, notice, shown>>
    BY DEF CourierGivesUp, jobsVars, rowsVars
  <1>2. courier' \in [Couriers -> Load \cup {Resting}] /\ \A l \in Couriers : courier'[l] # Resting => courier'[l] = courier[l]
    BY <1>1 DEF OutboxInv
  <1>3. QED
    BY <1>1, <1>2, RowsMove DEF OutboxInv, NoticeRow

(***************************************************************************)
(* The jobs and calls behind the notices.                                  *)
(***************************************************************************)
LEMMA JobChanges ==
    ASSUME OutboxInv, NEW j \in OutJobs, NEW status \in {"open", "ended"},
           outJob' = [outJob EXCEPT ![j] = status], UNCHANGED outCall
    PROVE  JobsTyped'
  <1>1. outJob' \in [OutJobs -> {"none", "open", "ended"}] /\ Begun' \subseteq Begun \cup {j} /\ Asking' = Asking
    BY DEF OutboxInv, Begun, Asking
  <1>2. IsFiniteSet(Begun \cup {j})
    BY FS_AddElement DEF OutboxInv
  <1>3. IsFiniteSet(Begun')
    BY <1>1, <1>2, FS_Subset
  <1>4. QED
    BY <1>1, <1>3 DEF JobsTyped, OutboxInv

LEMMA CallsChange ==
    ASSUME OutboxInv, UNCHANGED outJob, DOMAIN outCall' = OutCalls, NEW c \in OutCalls, Asking' \subseteq Asking \cup {c}
    PROVE  JobsTyped'
  <1>1. IsFiniteSet(Asking \cup {c})
    BY FS_AddElement DEF OutboxInv
  <1>2. IsFiniteSet(Asking')
    BY <1>1, FS_Subset
  <1>3. Begun' = Begun
    BY DEF Begun
  <1>4. QED
    BY <1>2, <1>3 DEF JobsTyped, OutboxInv

LEMMA NoMoreCalls ==
    ASSUME OutboxInv, UNCHANGED outJob, DOMAIN outCall' = OutCalls, Asking' \subseteq Asking
    PROVE  JobsTyped'
  <1>1. IsFiniteSet(Asking')
    BY FS_Subset DEF OutboxInv
  <1>2. Begun' = Begun
    BY DEF Begun
  <1>3. QED
    BY <1>1, <1>2 DEF JobsTyped, OutboxInv

LEMMA OutboxKept == OutboxInv /\ [OutboxNext]_outVars => OutboxInv' /\ MailStep
  <1> SUFFICES ASSUME OutboxInv, [OutboxNext]_outVars PROVE OutboxInv' /\ MailStep
    OBVIOUS
  <1>1. ASSUME HubEnds \/ UNCHANGED outVars
        PROVE  OutboxInv' /\ MailStep
    <2>1. UNCHANGED <<outJob, outCall, posted, notice, courier, shown>>
      BY <1>1 DEF HubEnds, outVars, jobsVars, rowsVars
    <2>2. Asking' = Asking
      BY <2>1 DEF Asking
    <2>3. JobsTyped'
      BY <2>1, <2>2, NoMoreCalls DEF OutboxInv
    <2>4. QED
      BY <2>1, <2>3, OutboxStays
  <1>2. ASSUME HubStarts
        PROVE  OutboxInv' /\ MailStep
    <2> DEFINE ns == {j \in OutJobs : outJob[j] = "ended"} \cup {c \in OutCalls : outCall'[c].status = "WAIT_APPROVAL"}
    <2>1. /\ UNCHANGED <<outJob, courier, shown>> /\ EnqueueBound(ns)
          /\ outCall' = [c \in OutCalls |->
                IF outCall[c].status = "WAIT_APPROVAL" /\ outJob[outCall[c].job] = "ended"
                  THEN [outCall[c] EXCEPT !.status = "DENIED"] ELSE outCall[c]]
      BY <1>2 DEF HubStarts
    <2>2. ns = Begun \cup Asking'
      BY DEF Begun, Asking
    <2> HIDE DEF ns
    <2>3. DOMAIN outCall' = OutCalls /\ Asking' \subseteq Asking
      <3>1. \A c \in OutCalls : outCall'[c].status = "WAIT_APPROVAL" => outCall[c].status = "WAIT_APPROVAL"
        BY <2>1
      <3>2. QED
        BY <2>1, <3>1 DEF Asking
    <2>4. JobsTyped'
      BY <2>1, <2>3, NoMoreCalls
    <2>5. IsFiniteSet(ns)
      BY <2>2, <2>4, FS_Union DEF JobsTyped, OutboxInv
    <2>6. ns \in SUBSET Notices
      BY <2>2 DEF Begun, Asking, Notices
    <2>7. QED
      BY <2>1, <2>4, <2>5, <2>6, NoticesPosted
  <1>3. ASSUME NEW j \in OutJobs, BindAgain(j)
        PROVE  OutboxInv' /\ MailStep
    <2> DEFINE ns == {i \in {j} : outJob[i] = "ended"}
    <2>1. UNCHANGED <<outJob, outCall, courier, shown>> /\ (EnqueueBound(ns) \/ EnqueueNothing(ns))
      BY <1>3 DEF BindAgain, Announce
    <2>2. ns \subseteq {j} /\ ns \in SUBSET Notices
      BY DEF Notices
    <2> HIDE DEF ns
    <2>3. IsFiniteSet(ns)
      BY <2>2, FS_Singleton, FS_Subset
    <2>4. Asking' = Asking
      BY <2>1 DEF Asking
    <2>5. JobsTyped'
      BY <2>1, <2>4, NoMoreCalls DEF OutboxInv
    <2>6. QED
      BY <2>1, <2>2, <2>3, <2>5, NoticesPosted
  <1>4. ASSUME NEW j \in OutJobs, EndJob(j)
        PROVE  OutboxInv' /\ MailStep
    <2>1. /\ outJob' = [outJob EXCEPT ![j] = "ended"] /\ UNCHANGED <<outCall, courier, shown>>
          /\ EnqueueBound({j}) \/ EnqueueNothing({j})
      BY <1>4 DEF EndJob, Announce
    <2>2. JobsTyped'
      BY <2>1, JobChanges
    <2>3. QED
      BY <2>1, <2>2, FS_Singleton, NoticesPosted DEF Notices
  <1>5. ASSUME NEW j \in OutJobs, NEW ch \in Channels, CreateJob(j, ch)
        PROVE  OutboxInv' /\ MailStep
    <2>1. /\ outJob' = [outJob EXCEPT ![j] = "open"] /\ UNCHANGED <<outCall, posted, notice, courier, shown>>
      BY <1>5 DEF CreateJob, rowsVars
    <2>2. JobsTyped'
      BY <2>1, JobChanges
    <2>3. QED
      BY <2>1, <2>2, OutboxStays
  <1>6. ASSUME NEW j \in OutJobs, NEW c \in OutCalls, AskAbout(c, j)
        PROVE  OutboxInv' /\ MailStep
    <2>1. /\ outCall' = [outCall EXCEPT ![c] = [status |-> "WAIT_APPROVAL", job |-> j, to |-> binding[j]]]
          /\ UNCHANGED <<outJob, courier, shown>> /\ (EnqueueBound({c}) \/ EnqueueNothing({c}))
      BY <1>6 DEF AskAbout, Announce
    <2>2. DOMAIN outCall' = OutCalls /\ Asking' \subseteq Asking \cup {c}
      BY <2>1 DEF OutboxInv, Asking
    <2>3. JobsTyped'
      BY <2>1, <2>2, CallsChange
    <2>4. QED
      BY <2>1, <2>3, FS_Singleton, NoticesPosted DEF Notices
  <1>7. ASSUME NEW c \in OutCalls, DecideOnWeb(c)
        PROVE  OutboxInv' /\ MailStep
    <2>1. PICK verdict \in {"APPROVED", "DENIED"} : outCall' = [outCall EXCEPT ![c].status = verdict]
      BY <1>7 DEF DecideOnWeb
    <2>2. UNCHANGED <<outJob, posted, notice, courier, shown>>
      BY <1>7 DEF DecideOnWeb, rowsVars
    <2>3. \A d \in OutCalls : d # c => outCall'[d] = outCall[d]
      BY <2>1 DEF OutboxInv
    <2>4. outCall[c].status = "WAIT_APPROVAL"
      BY <1>7 DEF DecideOnWeb, Decidable
    <2>5. DOMAIN outCall' = OutCalls /\ Asking' \subseteq Asking
      BY <2>1, <2>3, <2>4 DEF OutboxInv, Asking
    <2>6. QED
      BY <2>2, <2>5, NoMoreCalls, OutboxStays
  <1>8. ASSUME NEW r \in Replies, ApproveFromChannel(r)
        PROVE  OutboxInv' /\ MailStep
    <2>1. PICK clearable :
            outCall' = [c \in OutCalls |-> IF c \in clearable THEN [outCall[c] EXCEPT !.status = "APPROVED"] ELSE outCall[c]]
      BY <1>8 DEF ApproveFromChannel
    <2>2. UNCHANGED <<outJob, posted, notice, courier, shown>>
      BY <1>8 DEF ApproveFromChannel, rowsVars
    <2>3. \A c \in OutCalls : outCall'[c].status = "WAIT_APPROVAL" => outCall[c].status = "WAIT_APPROVAL"
      BY <2>1
    <2>4. DOMAIN outCall' = OutCalls /\ Asking' \subseteq Asking
      BY <2>1, <2>3 DEF Asking
    <2>5. QED
      BY <2>2, <2>4, NoMoreCalls, OutboxStays
  <1>9. ASSUME NEW r \in Replies, NEW ch \in Channels, OwnerReplies(r, ch)
        PROVE  OutboxInv' /\ MailStep
    <2>1. UNCHANGED <<outJob, outCall, posted, notice, courier, shown>>
      BY <1>9 DEF OwnerReplies, jobsVars, rowsVars
    <2>2. Asking' = Asking
      BY <2>1 DEF Asking
    <2>3. JobsTyped'
      BY <2>1, <2>2, NoMoreCalls DEF OutboxInv
    <2>4. QED
      BY <2>1, <2>3, OutboxStays
  <1>10. QED
    BY <1>1, <1>2, <1>3, <1>4, <1>5, <1>6, <1>7, <1>8, <1>9,
       LeaseStep, PullStep, DeliverStep, AcknowledgeStep, GiveUpStep DEF OutboxNext

LEMMA OutboxStart == OutboxInit => OutboxInv /\ M!MailInit
  <1> SUFFICES ASSUME OutboxInit PROVE OutboxInv /\ M!MailInit
    OBVIOUS
  <1>1. posted = <<>> /\ posted \in Seq(Notices) /\ ToSet(posted) = {}
    BY DEF OutboxInit, ToSet
  <1>2. NoNotice \in NoticeRow /\ NoNotice.status = "none"
    BY DEF NoNotice, NoticeRow
  <1>3. notice \in [Notices -> NoticeRow] /\ Listed = {} /\ {n \in Notices : notice[n].status = "DELIVERED"} = {}
    BY <1>2 DEF OutboxInit, Listed
  <1>4. Begun = {} /\ Asking = {}
    BY DEF OutboxInit, Begun, Asking
  <1>5. OutboxInv
    BY <1>1, <1>3, <1>4, FS_EmptySet DEF OutboxInit, OutboxInv, NoticeRow
  <1>6. QED
    BY <1>1, <1>3, <1>5 DEF OutboxInit, M!MailInit

(***************************************************************************)
(* The outbox keeps the safety of the mailbox: nothing is taken off the    *)
(* list that the Owner was not shown, and nothing is shown that was not    *)
(* put on it, through crashes of the Hub, overlapping loops and leases     *)
(* that run out (channel-outbox.ts).                                       *)
(***************************************************************************)
THEOREM OutboxIsAMailbox == OutboxSpec => M!MailSafety
  <1>1. OutboxInv /\ [OutboxNext]_outVars => OutboxInv' /\ [M!MailNext]_M!mailVars
    BY OutboxKept DEF MailStep
  <1>2. QED
    BY <1>1, OutboxStart, PTL DEF OutboxSpec, M!MailSafety

-----------------------------------------------------------------------------
(***************************************************************************)
(* The parts beside each other: a step of the composition is a step of one *)
(* part, and of every other part a stutter.                                *)
(***************************************************************************)
LEMMA ChannelsStepAlone ==
    ASSUME [MCNext]_channelsVars
    PROVE  /\ [OutboxNext]_outVars /\ [ConversationNext]_conversationVars
           /\ [GatewayNext]_gatewayVars /\ [RuntimeNext]_runtimeVars /\ [SocketNext]_socketVars
  <1>1. CASE UNCHANGED channelsVars
    BY <1>1 DEF channelsVars
  <1>2. CASE MCNext
    BY <1>2 DEF MCNext, beside
  <1>3. QED
    BY <1>1, <1>2

\* The Hub is handed what the Owner wrote: nothing skipped by a loop that asks, nothing twice or
\* out of order from a socket (channel-gateway/src/index.ts, channel-adapters.ts).
THEOREM InboundIsKept == MCSpec => []InboundKept
  <1> DEFINE Inv == GatewayInv /\ SocketInv
  <1>1. MCInit => Inv
    BY GatewayStart, SocketStart DEF MCInit
  <1>2. Inv /\ [MCNext]_channelsVars => Inv'
    BY ChannelsStepAlone, GatewayKept, SocketKept
  <1>3. Inv => InboundKept
    BY DEF InboundKept, GatewayInv, NothingSkipped, ThroughWith, SocketInv
  <1>4. QED
    BY <1>1, <1>2, <1>3, PTL DEF MCSpec
(***************************************************************************)
(* What is left of the types: the columns of the outbox its notices do not *)
(* depend on, and the flags of a socket.                                   *)
(***************************************************************************)
OutCallRow ==
    [status : {"none", "WAIT_APPROVAL", "APPROVED", "DENIED"},
     job : OutJobs \cup {Nobody}, to : Channels \cup {Nobody}]

OutColumns ==
    /\ outHub \in BOOLEAN
    /\ origin \in [OutJobs -> Channels \cup {Nobody}]
    /\ binding \in [OutJobs -> Channels \cup {Nobody}]
    /\ outCall \in [OutCalls -> OutCallRow]
    /\ reply \in [Replies -> {"unsent", "answered"} \cup Channels]

LEMMA OutColumnsKept == OutColumns /\ [OutboxNext]_outVars => OutColumns'
  <1> SUFFICES ASSUME OutColumns, [OutboxNext]_outVars PROVE OutColumns'
    OBVIOUS
  <1>1. ASSUME UNCHANGED <<outHub, origin, binding, outCall, reply>>
        PROVE  OutColumns'
    BY <1>1 DEF OutColumns
  <1>2. CASE \/ UNCHANGED outVars
             \/ \E n \in Notices : LeaseRunsOut(n)
             \/ \E k \in Couriers : \/ Deliver(k) \/ Acknowledge(k) \/ CourierGivesUp(k)
                                    \/ \E ch \in Channels : Pull(k, ch)
    BY <1>1, <1>2 DEF outVars, jobsVars, LeaseRunsOut, Deliver, Acknowledge, CourierGivesUp, Pull
  <1>3. CASE HubEnds
    BY <1>3 DEF HubEnds, jobsVars, OutColumns
  <1>4. CASE HubStarts
    <2>1. /\ outHub' = TRUE /\ UNCHANGED <<origin, binding, reply>>
          /\ outCall' = [c \in OutCalls |->
                IF outCall[c].status = "WAIT_APPROVAL" /\ outJob[outCall[c].job] = "ended"
                  THEN [outCall[c] EXCEPT !.status = "DENIED"] ELSE outCall[c]]
      BY <1>4 DEF HubStarts
    <2>2. \A c \in OutCalls : [outCall[c] EXCEPT !.status = "DENIED"] \in OutCallRow
      BY DEF OutColumns, OutCallRow
    <2>3. outCall' \in [OutCalls -> OutCallRow]
      BY <2>1, <2>2 DEF OutColumns
    <2>4. QED
      BY <2>1, <2>3 DEF OutColumns
  <1>5. ASSUME NEW ns, Announce(ns), UNCHANGED reply, origin' \in [OutJobs -> Channels \cup {Nobody}],
               binding' \in [OutJobs -> Channels \cup {Nobody}], outCall' \in [OutCalls -> OutCallRow]
        PROVE  OutColumns'
    <2>1. outHub' = outHub \/ outHub' = FALSE
      BY <1>5 DEF Announce
    <2>2. QED
      BY <1>5, <2>1 DEF OutColumns
  <1>6. ASSUME NEW j \in OutJobs, BindAgain(j) \/ EndJob(j) PROVE OutColumns'
    <2>1. \E ns : Announce(ns)
      BY <1>6 DEF BindAgain, EndJob
    <2>2. /\ binding' = binding \/ binding' = [binding EXCEPT ![j] = origin[j]]
          /\ UNCHANGED <<origin, outCall, reply>>
      BY <1>6 DEF BindAgain, EndJob
    <2>3. binding' \in [OutJobs -> Channels \cup {Nobody}]
      BY <2>2 DEF OutColumns
    <2>4. QED
      BY <1>5, <2>1, <2>2, <2>3 DEF OutColumns
  <1>7. ASSUME NEW j \in OutJobs, NEW ch \in Channels, CreateJob(j, ch) PROVE OutColumns'
    <2>1. /\ origin' \in {origin, [origin EXCEPT ![j] = ch]}
          /\ binding' \in {binding, [binding EXCEPT ![j] = ch]}
          /\ outHub' \in {outHub, FALSE} /\ UNCHANGED <<outCall, reply>>
      BY <1>7 DEF CreateJob
    <2>2. QED
      BY <2>1 DEF OutColumns
  <1>8. ASSUME NEW j \in OutJobs, NEW c \in OutCalls, AskAbout(c, j) PROVE OutColumns'
    <2> DEFINE row == [status |-> "WAIT_APPROVAL", job |-> j, to |-> binding[j]]
    <2>1. row \in OutCallRow
      BY DEF OutColumns, OutCallRow
    <2>2. /\ outCall' = [outCall EXCEPT ![c] = row]
          /\ UNCHANGED <<origin, binding, reply>> /\ Announce({c})
      BY <1>8 DEF AskAbout
    <2> HIDE DEF row
    <2>3. outCall' \in [OutCalls -> OutCallRow]
      BY <2>1, <2>2 DEF OutColumns
    <2>4. QED
      BY <1>5, <2>2, <2>3 DEF OutColumns
  <1>9. ASSUME NEW c \in OutCalls, DecideOnWeb(c) PROVE OutColumns'
    <2>1. PICK verdict \in {"APPROVED", "DENIED"} : outCall' = [outCall EXCEPT ![c].status = verdict]
      BY <1>9 DEF DecideOnWeb
    <2>2. UNCHANGED <<outHub, origin, binding, reply>>
      BY <1>9 DEF DecideOnWeb
    <2>3. outCall' \in [OutCalls -> OutCallRow]
      BY <2>1 DEF OutColumns, OutCallRow
    <2>4. QED
      BY <2>2, <2>3 DEF OutColumns
  <1>10. ASSUME NEW r \in Replies, ApproveFromChannel(r) PROVE OutColumns'
    <2>1. PICK clearable :
            outCall' = [c \in OutCalls |-> IF c \in clearable THEN [outCall[c] EXCEPT !.status = "APPROVED"] ELSE outCall[c]]
      BY <1>10 DEF ApproveFromChannel
    <2>2. /\ UNCHANGED <<outHub, origin, binding>>
          /\ reply' = reply \/ reply' = [reply EXCEPT ![r] = "answered"]
      BY <1>10 DEF ApproveFromChannel
    <2>3. \A c \in OutCalls : [outCall[c] EXCEPT !.status = "APPROVED"] \in OutCallRow
      BY DEF OutColumns, OutCallRow
    <2>4. outCall' \in [OutCalls -> OutCallRow]
      BY <2>1, <2>3 DEF OutColumns
    <2>5. QED
      BY <2>2, <2>4 DEF OutColumns
  <1>11. ASSUME NEW r \in Replies, NEW ch \in Channels, OwnerReplies(r, ch) PROVE OutColumns'
    BY <1>11 DEF OwnerReplies, jobsVars, OutColumns
  <1>12. QED
    BY <1>2, <1>3, <1>4, <1>6, <1>7, <1>8, <1>9, <1>10, <1>11 DEF OutboxNext

SocketFlags ==
    /\ socket \in {"down", "opening", "ready"} /\ peer \in BOOLEAN
    /\ awaiting \in BOOLEAN /\ session \in BOOLEAN

LEMMA SocketFlagsKept == SocketFlags /\ [SocketNext]_socketVars => SocketFlags'
  BY DEF SocketFlags, SocketNext, socketVars, Connecting, Connect, Handshake, HandshakeDeadline,
         Push, Read, Handle, HandleAt, Heartbeat, HeartbeatAnswered, Breaks, InvalidSession, Down

\* The variables of the channels keep their types: a notice is listed as often as it has a row, a
\* loop works on what the provider has sent, the queues hold what was pushed.
THEOREM ChannelTypesCorrect == MCSpec => []ChannelsTypeOK
  <1> DEFINE Inv == /\ OutboxInv /\ OutColumns /\ ConversationInv /\ GatewayInv /\ RuntimeInv
                    /\ SocketInv /\ SocketFlags
  <1>1. MCInit => Inv
    <2>1. OutboxInit => OutColumns
      BY DEF OutboxInit, OutColumns, OutCallRow
    <2>2. SocketInit => SocketFlags
      BY DEF SocketInit, SocketFlags
    <2>3. QED
      BY <2>1, <2>2, OutboxStart, InitConversationInv, GatewayStart, RuntimeStart, SocketStart DEF MCInit
  <1>2. Inv /\ [MCNext]_channelsVars => Inv'
    BY ChannelsStepAlone, OutboxKept, OutColumnsKept, NextConversationInv, GatewayKept, RuntimeKept,
       SocketKept, SocketFlagsKept
  <1>3. Inv => ChannelsTypeOK
    <2> SUFFICES ASSUME Inv PROVE ChannelsTypeOK
      OBVIOUS
    <2>1. OutboxTypeOK
      <3>1. \A k \in Couriers : courier[k].at \in {"idle", "deliver", "acknowledge"}
        BY DEF OutboxInv, Load, Resting
      <3>2. QED
        BY <3>1 DEF OutboxInv, NoticeRow, Listed, OutColumns, OutCallRow, OutboxTypeOK
    <2>2. ConversationTypeOK
      BY ConversationTyped
    <2>3. GatewayTypeOK
      BY DEF GatewayInv
    <2>4. RuntimeTypeOK
      <3>1. \A i \in DOMAIN toDo : toDo[i] \in Setups
        BY ElementOfSeq, LenProperties DEF RuntimeInv
      <3>2. QED
        BY <3>1 DEF RuntimeInv, RuntimeTypeOK
    <2>5. SocketTypeOK
      <3>1. LastPush \in Nat /\ seen \in 0..LastPush
        BY SocketAssumption DEF SocketInv
      <3>2. ASSUME NEW c \in DOMAIN queues, NEW i \in DOMAIN queues[c]
            PROVE  queues[c][i] \in 1..LastPush
        <4>1. c \in 1..Len(queues)
          BY LenProperties DEF SocketInv
        <4>2. i \in 1..Len(queues[c]) /\ c \in Nat /\ i \in Nat
          BY <4>1, QueueTyped, LenProperties
        <4>3. queues[c][i] \in 1..seen
          BY <4>1, <4>2 DEF SocketInv, OnlySeen, Waits
        <4>4. QED
          BY <3>1, <4>3
      <3>3. QED
        BY <3>1, <3>2 DEF SocketInv, SocketFlags, SocketTypeOK
    <2>6. QED
      BY <2>1, <2>2, <2>3, <2>4, <2>5 DEF ChannelsTypeOK
  <1>4. QED
    BY <1>1, <1>2, <1>3, PTL DEF MCSpec
===============================================================================
