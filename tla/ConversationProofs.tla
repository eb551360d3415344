-------------------------- MODULE ConversationProofs --------------------------
(***************************************************************************)
(* What the Hub does about a message, for any messages, conversations and  *)
(* deliveries of them, any bound on tools and on restarts.                 *)
(***************************************************************************)
EXTENDS Conversation, SequenceTheorems, FiniteSetTheorems, TLAPS

Busy == {"queued"} \cup Working

TurnRow ==
    [status : {"none", "THINKING", "REPLIED", "JOB_PROPOSED", "FAILED"}, text : Texts \cup {Nothing},
     proposal : {Nothing, "jobProposal", "selfImprovementProposal"},
     job : {Nothing, "created", "rejected"}]
JobRow == [count : {0, 1}, status : {"none", "WAIT_APPROVAL", "APPROVED", "CANCELLED"}]
DeliveryRow ==
    [message : Messages \cup {Nothing}, text : Texts \cup {Nothing},
     at : {"unsent"} \cup Busy \cup Over, tools : 0..MaxToolCalls]

RowsTyped ==
    /\ turn \in [Messages -> TurnRow]
    /\ turnJob \in [Messages -> JobRow]
    /\ asked \in [Messages -> {0, 1}]

(***************************************************************************)
(* The line of a conversation is its lock: whoever works is the head, and  *)
(* a delivery waits in one place of one line.                              *)
(***************************************************************************)
LineOf(d) == ConversationOf[MessageOf(d)]

LineInv ==
    /\ delivery \in [Deliveries -> DeliveryRow]
    /\ line \in [Conversations -> Seq(Deliveries)]
    /\ \A d \in Deliveries : delivery[d].at \in Busy => delivery[d].message \in Messages
    /\ \A d \in Deliveries : delivery[d].at \in Working => First(d)
    /\ \A c \in Conversations : \A i \in DOMAIN line[c] :
         /\ \A d \in Deliveries : line[c][i] = d => delivery[d].at \in Busy /\ LineOf(d) = c
         /\ \A k \in DOMAIN line[c] : line[c][i] = line[c][k] => i = k

\* A message is put to the model when its turn begins.
AskedWithTurn == \A m \in Messages : turn[m] = NoTurn => asked[m] = 0

ConversationInv == RowsTyped /\ LineInv /\ AskedWithTurn

-----------------------------------------------------------------------------
\* Who is at the head of a line, and where.
LEMMA FirstFacts ==
    ASSUME LineInv, NEW d \in Deliveries, delivery[d].at \in Busy, First(d)
    PROVE  /\ LineOf(d) \in Conversations /\ line[LineOf(d)] \in Seq(Deliveries)
           /\ Len(line[LineOf(d)]) \in Nat \ {0}
           /\ DOMAIN line[LineOf(d)] = 1..Len(line[LineOf(d)])
           /\ line[LineOf(d)][1] = d
  <1>1. LineOf(d) \in Conversations /\ line[LineOf(d)] \in Seq(Deliveries)
    BY DEF LineInv, LineOf, MessageOf, Conversations
  <1>2. line[LineOf(d)] # <<>> /\ Head(line[LineOf(d)]) = d
    BY DEF First, LineOf
  <1>3. QED
    BY <1>1, <1>2, EmptySeq, LenProperties

(***************************************************************************)
(* Somebody at the head goes on and stays there.                           *)
(***************************************************************************)
LEMMA ContinueLine ==
    ASSUME LineInv, NEW d \in Deliveries, delivery[d].at \in Busy, First(d),
           delivery' \in [Deliveries -> DeliveryRow], delivery'[d].at \in Working,
           delivery'[d].message = delivery[d].message,
           \A e \in Deliveries : e # d => delivery'[e] = delivery[e], UNCHANGED line
    PROVE  LineInv'
  <1>1. \A e \in Deliveries : /\ delivery'[e].message = delivery[e].message
                              /\ delivery'[e].at \in Busy <=> delivery[e].at \in Busy
    BY DEF Busy
  <1>2. \A e \in Deliveries : LineOf(e)' = LineOf(e) /\ (First(e)' <=> First(e))
    BY <1>1 DEF LineOf, MessageOf, First
  <1>3. \A e \in Deliveries : delivery'[e].at \in Working => e = d \/ delivery[e].at \in Working
    OBVIOUS
  <1>5. /\ \A e \in Deliveries : delivery'[e].at \in Busy => delivery'[e].message \in Messages
        /\ \A e \in Deliveries : delivery'[e].at \in Working => First(e)'
    BY <1>1, <1>2, <1>3 DEF LineInv
  <1>6. \A c \in Conversations : \A i \in DOMAIN line[c] :
          /\ \A e \in Deliveries : line[c][i] = e => delivery'[e].at \in Busy /\ LineOf(e)' = c
          /\ \A k \in DOMAIN line[c] : line[c][i] = line[c][k] => i = k
    BY <1>1, <1>2 DEF LineInv
  <1>7. QED
    BY <1>5, <1>6 DEF LineInv

(***************************************************************************)
(* The head settles, and nobody else of its line was working.              *)
(***************************************************************************)
LEMMA FinishLine ==
    ASSUME LineInv, NEW d \in Deliveries, delivery[d].at \in Busy, First(d),
           NEW how \in Over, Finish(d, how)
    PROVE  LineInv'
  <1> DEFINE c0 == LineOf(d)
             s == line[c0]
  <1>1. /\ c0 \in Conversations /\ s \in Seq(Deliveries) /\ s # <<>>
        /\ Len(s) \in Nat \ {0} /\ DOMAIN s = 1..Len(s) /\ s[1] = d
    BY FirstFacts, EmptySeq
  <1>2. /\ Tail(s) \in Seq(Deliveries) /\ Len(Tail(s)) = Len(s) - 1
        /\ DOMAIN Tail(s) = 1..(Len(s) - 1)
        /\ \A i \in 1..(Len(s) - 1) : Tail(s)[i] = s[i + 1]
    BY <1>1, HeadTailProperties, LenProperties
  <1>3. line' = [line EXCEPT ![c0] = Tail(@)]
    BY DEF Finish, LineOf
  <1>4. /\ line' \in [Conversations -> Seq(Deliveries)] /\ line'[c0] = Tail(s)
        /\ \A c \in Conversations : c # c0 => line'[c] = line[c]
    BY <1>1, <1>2, <1>3 DEF LineInv
  <1>5. [NoDelivery EXCEPT !.at = how] \in DeliveryRow /\ [NoDelivery EXCEPT !.at = how].at = how
    BY ConversationAssumption DEF NoDelivery, DeliveryRow, Nothing
  <1>6. /\ delivery' \in [Deliveries -> DeliveryRow] /\ delivery'[d].at = how
        /\ \A e \in Deliveries : e # d => delivery'[e] = delivery[e]
    BY <1>5 DEF LineInv, Finish
  <1>7. how \notin Busy /\ how \notin Working
    BY DEF Over, Busy, Working
  <1>8. \A e \in Deliveries : e # d => LineOf(e)' = LineOf(e)
    BY <1>6 DEF LineOf, MessageOf
  <1>9. ASSUME NEW e \in Deliveries, delivery'[e].at \in Working
        PROVE  First(e)'
    <2>1. e # d /\ delivery[e].at \in Working /\ First(e) /\ delivery[e].at \in Busy
      BY <1>6, <1>7, <1>9 DEF LineInv, Busy
    <2>2. LineOf(e) # c0 /\ LineOf(e) \in Conversations
      BY <2>1, <1>1, FirstFacts
    <2>3. line'[LineOf(e)] = line[LineOf(e)] /\ MessageOf(e)' = MessageOf(e)
      BY <1>4, <1>6, <2>1, <2>2 DEF MessageOf
    <2>4. QED
      BY <2>1, <2>3 DEF First, LineOf
  <1>10. ASSUME NEW c \in Conversations, NEW i \in DOMAIN line'[c]
         PROVE  /\ \A e \in Deliveries : line'[c][i] = e => delivery'[e].at \in Busy /\ LineOf(e)' = c
                /\ \A k \in DOMAIN line'[c] : line'[c][i] = line'[c][k] => i = k
    <2>1. CASE c = c0
      <3>1. i \in 1..(Len(s) - 1) /\ i + 1 \in 1..Len(s) /\ i + 1 # 1
        BY <1>1, <1>2, <1>4, <1>10, <2>1
      <3>2. line'[c][i] = s[i + 1] /\ s[i + 1] \in Deliveries /\ s[i + 1] # d
        <4>1. s[i + 1] \in Deliveries
          BY <1>1, <3>1, ElementOfSeq
        <4>2. s[i + 1] # s[1]
          BY <1>1, <3>1 DEF LineInv
        <4>3. QED
          BY <1>1, <1>2, <1>4, <2>1, <3>1, <4>1, <4>2
      <3>3. delivery[s[i + 1]].at \in Busy /\ LineOf(s[i + 1]) = c
        BY <1>1, <2>1, <3>1, <3>2 DEF LineInv
      <3>4. ASSUME NEW k \in DOMAIN line'[c], line'[c][i] = line'[c][k]
            PROVE  i = k
        <4>1. k \in 1..(Len(s) - 1) /\ k + 1 \in 1..Len(s)
          BY <1>1, <1>2, <1>4, <2>1, <3>4
        <4>2. s[i + 1] = s[k + 1]
          BY <1>2, <1>4, <2>1, <3>1, <3>4, <4>1
        <4>3. i + 1 = k + 1
          BY <1>1, <3>1, <4>1, <4>2 DEF LineInv
        <4>4. QED
          BY <3>1, <4>1, <4>3
      <3>5. QED
        BY <1>6, <1>8, <3>2, <3>3, <3>4
    <2>2. CASE c # c0
      <3>1. line'[c] = line[c] /\ i \in DOMAIN line[c]
        BY <1>4, <1>10, <2>2
      <3>2. \A e \in Deliveries : line'[c][i] = e => e # d /\ delivery[e].at \in Busy /\ LineOf(e) = c
        BY <2>2, <3>1 DEF LineInv
      <3>3. \A k \in DOMAIN line'[c] : line'[c][i] = line'[c][k] => i = k
        BY <3>1 DEF LineInv
      <3>4. QED
        BY <1>6, <1>8, <3>2, <3>3
    <2>3. QED
      BY <2>1, <2>2
  <1>11. \A e \in Deliveries : delivery'[e].at \in Busy => delivery'[e].message \in Messages
    BY <1>6, <1>7 DEF LineInv
  <1>12. QED
    BY <1>4, <1>6, <1>9, <1>10, <1>11 DEF LineInv

LEMMA Continues ==
    ASSUME LineInv, NEW d \in Deliveries, delivery[d].at \in Busy, First(d),
           NEW at \in Working, Continue(d, at)
    PROVE  LineInv'
  <1>1. /\ delivery' \in [Deliveries -> DeliveryRow] /\ delivery'[d].at = at
        /\ delivery'[d].message = delivery[d].message
        /\ \A e \in Deliveries : e # d => delivery'[e] = delivery[e]
    BY DEF LineInv, Continue, DeliveryRow, Busy
  <1>2. UNCHANGED line
    BY DEF Continue
  <1>3. QED
    BY <1>1, <1>2, ContinueLine

\* Who is worked on has a message and is the head of its line.
LEMMA WorkerFacts ==
    ASSUME LineInv, NEW d \in Deliveries, delivery[d].at \in Working
    PROVE  delivery[d].at \in Busy /\ First(d) /\ MessageOf(d) \in Messages
  BY DEF LineInv, Busy, MessageOf

\* Who begins, too.
LEMMA StarterFacts ==
    ASSUME LineInv, NEW d \in Deliveries, StartsNow(d)
    PROVE  delivery[d].at \in Busy /\ First(d) /\ MessageOf(d) \in Messages
  BY DEF LineInv, Busy, MessageOf, StartsNow

(***************************************************************************)
(* A delivery that arrives waits behind all others of its conversation.    *)
(***************************************************************************)
LEMMA ArriveLine ==
    ASSUME LineInv, NEW d \in Deliveries, NEW m \in Messages, NEW text \in Texts,
           Arrive(d, m, text)
    PROVE  LineInv'
  <1> DEFINE c0 == ConversationOf[m]
             s == line[c0]
             row == [message |-> m, text |-> text, at |-> "queued", tools |-> 0]
  <1>1. delivery[d].at = "unsent" /\ "unsent" \notin Busy /\ "queued" \in Busy /\ "queued" \notin Working
    BY DEF Arrive, Busy, Working
  <1>2. c0 \in Conversations /\ s \in Seq(Deliveries) /\ Len(s) \in Nat /\ DOMAIN s = 1..Len(s)
    BY LenProperties DEF Conversations, LineInv
  <1>3. /\ Append(s, d) \in Seq(Deliveries) /\ Len(Append(s, d)) = Len(s) + 1
        /\ DOMAIN Append(s, d) = 1..(Len(s) + 1)
        /\ \A i \in 1..Len(s) : Append(s, d)[i] = s[i]
        /\ Append(s, d)[Len(s) + 1] = d
    BY <1>2, AppendProperties, LenProperties
  <1>4. /\ line' = [line EXCEPT ![c0] = Append(s, d)] /\ line \in [Conversations -> Seq(Deliveries)]
        /\ delivery' = [delivery EXCEPT ![d] = row] /\ delivery \in [Deliveries -> DeliveryRow]
    BY DEF Arrive, LineInv
  <1>5. row \in DeliveryRow /\ row.at = "queued" /\ row.message = m
    <2>1. 0 \in 0..MaxToolCalls
      BY ConversationAssumption
    <2>2. QED
      BY <2>1 DEF DeliveryRow, Busy
  <1>6. /\ line' \in [Conversations -> Seq(Deliveries)] /\ line'[c0] = Append(s, d)
        /\ \A c \in Conversations : c # c0 => line'[c] = line[c]
    BY <1>2, <1>3, <1>4
  <1>7. /\ delivery' \in [Deliveries -> DeliveryRow] /\ delivery'[d] = row
        /\ \A e \in Deliveries : e # d => delivery'[e] = delivery[e]
    BY <1>4, <1>5
  <1>8. delivery'[d].at = "queued" /\ delivery'[d].message = m /\ LineOf(d)' = c0
    BY <1>5, <1>7 DEF LineOf, MessageOf
  <1>9. \A e \in Deliveries : e # d => LineOf(e)' = LineOf(e) /\ MessageOf(e)' = MessageOf(e)
    BY <1>7 DEF LineOf, MessageOf
  <1>10. \A i \in 1..Len(s) : s[i] \in Deliveries /\ s[i] # d
    <2>1. \A i \in 1..Len(s) : s[i] \in Deliveries
      BY <1>2, ElementOfSeq
    <2>2. QED
      BY <2>1, <1>1, <1>2 DEF LineInv
  <1> HIDE DEF row
  <1>11. \A e \in Deliveries : delivery'[e].at \in Busy => delivery'[e].message \in Messages
    BY <1>7, <1>8 DEF LineInv
  <1>12. ASSUME NEW e \in Deliveries, delivery'[e].at \in Working
         PROVE  First(e)'
    <2>1. e # d /\ delivery[e].at \in Working
      BY <1>1, <1>7, <1>8, <1>12
    <2>2. delivery[e].at \in Busy /\ First(e)
      BY <2>1, WorkerFacts
    <2>3. /\ LineOf(e) \in Conversations /\ line[LineOf(e)] \in Seq(Deliveries)
          /\ Len(line[LineOf(e)]) \in Nat \ {0} /\ line[LineOf(e)][1] = e
      BY <2>2, FirstFacts
    <2>4. line'[LineOf(e)] \in Seq(Deliveries) /\ line'[LineOf(e)][1] = e /\ line'[LineOf(e)] # <<>>
      <3>1. CASE LineOf(e) = c0
        <4>1. 1 \in 1..Len(s) /\ s[1] = e
          BY <2>3, <3>1
        <4>2. Append(s, d)[1] = e /\ Append(s, d) # <<>>
          BY <1>2, <1>3, <4>1, EmptySeq
        <4>3. QED
          BY <1>3, <1>6, <3>1, <4>2
      <3>2. CASE LineOf(e) # c0
        BY <1>6, <2>3, <3>2, EmptySeq
      <3>3. QED
        BY <3>1, <3>2
    <2>5. Head(line'[LineOf(e)]) = e
      BY <2>4
    <2>6. QED
      BY <1>9, <2>1, <2>4, <2>5 DEF First, LineOf
  <1>13. ASSUME NEW c \in Conversations, NEW i \in DOMAIN line'[c]
         PROVE  /\ \A e \in Deliveries : line'[c][i] = e => delivery'[e].at \in Busy /\ LineOf(e)' = c
                /\ \A k \in DOMAIN line'[c] : line'[c][i] = line'[c][k] => i = k
    <2>1. CASE c = c0
      <3>1. i \in 1..(Len(s) + 1)
        BY <1>3, <1>6, <2>1
      <3>2. ASSUME NEW e \in Deliveries, line'[c][i] = e
            PROVE  delivery'[e].at \in Busy /\ LineOf(e)' = c
        <4>1. CASE i = Len(s) + 1
          BY <1>1, <1>3, <1>6, <1>8, <2>1, <3>2, <4>1
        <4>2. CASE i # Len(s) + 1
          <5>1. i \in 1..Len(s)
            BY <1>2, <3>1, <4>2
          <5>2. s[i] = e /\ e # d
            BY <1>3, <1>6, <1>10, <2>1, <3>2, <5>1
          <5>3. delivery[e].at \in Busy /\ LineOf(e) = c
            BY <1>2, <2>1, <5>1, <5>2 DEF LineInv
          <5>4. QED
            BY <1>7, <1>9, <5>2, <5>3
        <4>3. QED
          BY <4>1, <4>2
      <3>3. ASSUME NEW k \in DOMAIN line'[c], line'[c][i] = line'[c][k]
            PROVE  i = k
        <4>1. k \in 1..(Len(s) + 1) /\ Append(s, d)[i] = Append(s, d)[k]
          BY <1>3, <1>6, <2>1, <3>3
        <4>2. CASE i = Len(s) + 1 \/ k = Len(s) + 1
          BY <1>2, <1>3, <1>10, <3>1, <4>1, <4>2
        <4>3. CASE ~(i = Len(s) + 1 \/ k = Len(s) + 1)
          <5>1. i \in 1..Len(s) /\ k \in 1..Len(s)
            BY <1>2, <3>1, <4>1, <4>3
          <5>2. s[i] = s[k]
            BY <1>3, <4>1, <5>1
          <5>3. QED
            BY <1>2, <5>1, <5>2 DEF LineInv
        <4>4. QED
          BY <4>2, <4>3
      <3>4. QED
        BY <3>2, <3>3
    <2>2. CASE c # c0
      <3>1. line'[c] = line[c] /\ i \in DOMAIN line[c]
        BY <1>6, <1>13, <2>2
      <3>2. \A e \in Deliveries : line'[c][i] = e => e # d /\ delivery[e].at \in Busy /\ LineOf(e) = c
        BY <1>1, <3>1 DEF LineInv
      <3>3. \A k \in DOMAIN line'[c] : line'[c][i] = line'[c][k] => i = k
        BY <3>1 DEF LineInv
      <3>4. QED
        BY <1>7, <1>9, <3>2, <3>3
    <2>3. QED
      BY <2>1, <2>2
  <1>14. QED
    BY <1>6, <1>7, <1>11, <1>12, <1>13 DEF LineInv

-----------------------------------------------------------------------------
\* What a request writes into the turn of its message leaves it begun.
LEMMA TurnWritten ==
    ASSUME ConversationInv, NEW d \in Deliveries, MessageOf(d) \in Messages,
           NEW t \in TurnRow, t # NoTurn, SetTurn(d, t)
    PROVE  /\ turn' \in [Messages -> TurnRow]
           /\ \A m \in Messages : turn'[m] = NoTurn => turn[m] = NoTurn
  BY DEF ConversationInv, RowsTyped, SetTurn

LEMMA TurnAltered ==
    ASSUME ConversationInv, NEW d \in Deliveries, MessageOf(d) \in Messages
    PROVE  LET t == turn[MessageOf(d)] IN
           /\ \A st \in {"REPLIED", "FAILED"} :
                [t EXCEPT !.status = st] \in TurnRow /\ [t EXCEPT !.status = st] # NoTurn
           /\ \A p \in {"jobProposal", "selfImprovementProposal"} :
                /\ [t EXCEPT !.status = "JOB_PROPOSED", !.proposal = p] \in TurnRow
                /\ [t EXCEPT !.status = "JOB_PROPOSED", !.proposal = p] # NoTurn
           /\ \A r \in {"created", "rejected"} :
                [t EXCEPT !.job = r] \in TurnRow /\ [t EXCEPT !.job = r] # NoTurn
  <1>1. turn[MessageOf(d)] \in TurnRow
    BY DEF ConversationInv, RowsTyped
  <1>2. QED
    BY <1>1 DEF TurnRow, NoTurn, Nothing

\* The job of an attempt: at most one, whatever the attempt finds.
LEMMA OneJob ==
    ASSUME ConversationInv, NEW m \in Messages
    PROVE  JobCreated(m) \in JobRow
  BY DEF ConversationInv, RowsTyped, JobCreated, JobRow

(***************************************************************************)
(* The invariant after a step that goes on with, or ends, the work on a    *)
(* request and begins no turn.                                             *)
(***************************************************************************)
LEMMA WorkDone ==
    ASSUME ConversationInv, NEW d \in Deliveries, delivery[d].at \in Busy, First(d),
           (\E at \in Working : Continue(d, at)) \/ (\E how \in Over : Finish(d, how)),
           turn' \in [Messages -> TurnRow], turnJob' \in [Messages -> JobRow], UNCHANGED asked,
           \A m \in Messages : turn'[m] = NoTurn => turn[m] = NoTurn
    PROVE  ConversationInv'
  <1>1. LineInv'
    BY Continues, FinishLine DEF ConversationInv
  <1>2. RowsTyped' /\ AskedWithTurn'
    BY DEF ConversationInv, RowsTyped, AskedWithTurn
  <1>3. QED
    BY <1>1, <1>2 DEF ConversationInv

LEMMA AcceptNewStep ==
    ASSUME ConversationInv, NEW d \in Deliveries, AcceptNew(d)
    PROVE  ConversationInv'
  <1> DEFINE t == [NoTurn EXCEPT !.status = "THINKING", !.text = delivery[d].text]
  <1>1. delivery[d].at \in Busy /\ First(d) /\ MessageOf(d) \in Messages
    BY StarterFacts DEF AcceptNew, ConversationInv
  <1>2. t \in TurnRow /\ t # NoTurn
    <2>1. delivery[d].text \in Texts \cup {Nothing}
      BY DEF ConversationInv, LineInv, DeliveryRow
    <2>2. QED
      BY <2>1 DEF TurnRow, NoTurn, Nothing
  <1>3. /\ turn' \in [Messages -> TurnRow] /\ turn'[MessageOf(d)] # NoTurn
        /\ \A m \in Messages : turn'[m] = NoTurn => turn[m] = NoTurn
    <2>1. SetTurn(d, t)
      BY DEF AcceptNew
    <2>2. turn'[MessageOf(d)] = t
      BY <1>1, <2>1 DEF SetTurn, ConversationInv, RowsTyped
    <2> HIDE DEF t
    <2>3. QED
      BY <1>1, <1>2, <2>1, <2>2, TurnWritten
  <1>4. LineInv'
    <2>1. Continue(d, "model") \/ Finish(d, "failed")
      BY DEF AcceptNew
    <2>2. "model" \in Working /\ "failed" \in Over
      BY DEF Working, Over
    <2>3. QED
      BY <1>1, <2>1, <2>2, Continues, FinishLine DEF ConversationInv
  <1>5. asked[MessageOf(d)] = 0
    BY <1>1 DEF AcceptNew, ConversationInv, AskedWithTurn
  <1>6. /\ asked' \in [Messages -> {0, 1}]
        /\ \A m \in Messages : m # MessageOf(d) => asked'[m] = asked[m]
    <2>1. \/ asked' = [asked EXCEPT ![MessageOf(d)] = asked[MessageOf(d)] + 1]
          \/ asked' = asked
      BY DEF AcceptNew
    <2>2. asked \in [Messages -> {0, 1}]
      BY DEF ConversationInv, RowsTyped
    <2>3. QED
      BY <1>1, <1>5, <2>1, <2>2
  <1>7. RowsTyped' /\ AskedWithTurn'
    BY <1>1, <1>3, <1>6 DEF ConversationInv, RowsTyped, AskedWithTurn, AcceptNew
  <1>8. QED
    BY <1>4, <1>7 DEF ConversationInv

LEMMA AcceptKnownStep ==
    ASSUME ConversationInv, NEW d \in Deliveries, AcceptKnown(d)
    PROVE  ConversationInv'
  <1>1. delivery[d].at \in Busy /\ First(d)
    BY StarterFacts DEF AcceptKnown, ConversationInv
  <1>2. (\E at \in Working : Continue(d, at)) \/ (\E how \in Over : Finish(d, how))
    BY DEF AcceptKnown, Working, Over
  <1>3. QED
    BY <1>1, <1>2, WorkDone DEF AcceptKnown, ConversationInv, RowsTyped

LEMMA ModelStep ==
    ASSUME ConversationInv, NEW d \in Deliveries, NEW fields,
           ModelFails(d) \/ ModelReplies(d, fields) \/ ModelProposes(d, fields)
    PROVE  ConversationInv'
  <1>1. delivery[d].at \in Busy /\ First(d) /\ MessageOf(d) \in Messages
    BY WorkerFacts DEF ModelFails, ModelReplies, ModelProposes, Working, ConversationInv
  <1>2. (\E at \in Working : Continue(d, at)) \/ (\E how \in Over : Finish(d, how))
    BY DEF ModelFails, FailTurn, ModelReplies, ModelProposes, Working, Over
  <1>3. \E t \in TurnRow : t # NoTurn /\ SetTurn(d, t)
    BY <1>1, TurnAltered DEF ModelFails, FailTurn, ModelReplies, ModelProposes
  <1>4. /\ turn' \in [Messages -> TurnRow]
        /\ \A m \in Messages : turn'[m] = NoTurn => turn[m] = NoTurn
    BY <1>1, <1>3, TurnWritten
  <1>5. turnJob' \in [Messages -> JobRow] /\ UNCHANGED asked
    BY DEF ModelFails, ModelReplies, ModelProposes, ConversationInv, RowsTyped
  <1>6. QED
    BY <1>1, <1>2, <1>4, <1>5, WorkDone

LEMMA ModelCallsToolStep ==
    ASSUME ConversationInv, NEW d \in Deliveries, NEW fields, ModelCallsTool(d, fields)
    PROVE  ConversationInv'
  <1>1. delivery[d].at \in Busy /\ First(d) /\ MessageOf(d) \in Messages
    BY WorkerFacts DEF ModelCallsTool, Working, ConversationInv
  <1>2. delivery[d] \in DeliveryRow /\ delivery \in [Deliveries -> DeliveryRow]
    BY DEF ConversationInv, LineInv
  <1>3. delivery[d].tools + 1 \in 0..MaxToolCalls
    BY <1>2, ConversationAssumption DEF ModelCallsTool, DeliveryRow
  <1>4. /\ [delivery[d] EXCEPT !.at = "tool", !.tools = delivery[d].tools + 1] \in DeliveryRow
        /\ delivery' = [delivery EXCEPT ![d] = [delivery[d] EXCEPT !.at = "tool", !.tools = delivery[d].tools + 1]]
    BY <1>2, <1>3 DEF ModelCallsTool, DeliveryRow, Busy, Working
  <1>5. /\ delivery' \in [Deliveries -> DeliveryRow] /\ delivery'[d].at \in Working
        /\ delivery'[d].message = delivery[d].message
        /\ \A e \in Deliveries : e # d => delivery'[e] = delivery[e]
    BY <1>2, <1>4 DEF Working, DeliveryRow
  <1>6. LineInv'
    BY <1>1, <1>5, ContinueLine DEF ModelCallsTool, ConversationInv
  <1>7. QED
    BY <1>6 DEF ModelCallsTool, ConversationInv, RowsTyped, AskedWithTurn

LEMMA ToolReturnsStep ==
    ASSUME ConversationInv, NEW d \in Deliveries, ToolReturns(d)
    PROVE  ConversationInv'
  <1>1. delivery[d].at \in Busy /\ First(d)
    BY WorkerFacts DEF ToolReturns, Working, ConversationInv
  <1>2. (\E at \in Working : Continue(d, at)) \/ (\E how \in Over : Finish(d, how))
    BY DEF ToolReturns, Working, Over
  <1>3. QED
    BY <1>1, <1>2, WorkDone DEF ToolReturns, ConversationInv, RowsTyped

\* A proposal is scheduled by three handlers that share their ends.
LEMMA SchedulingStep ==
    ASSUME ConversationInv, NEW d \in Deliveries,
           \/ ScheduleJob(d) \/ ApproveIsolated(d)
           \/ ScheduleSelfImprovement(d) \/ RecordSchedulingResult(d)
    PROVE  ConversationInv'
  <1> DEFINE m == MessageOf(d)
  <1>1. delivery[d].at \in Busy /\ First(d) /\ m \in Messages
    BY WorkerFacts DEF ScheduleJob, ApproveIsolated, ScheduleSelfImprovement, RecordSchedulingResult,
                       Working, ConversationInv
  <1>2. (\E at \in Working : Continue(d, at)) \/ (\E how \in Over : Finish(d, how))
    BY DEF ScheduleJob, ApproveIsolated, ScheduleSelfImprovement, RecordSchedulingResult,
           RecordJob, Working, Over
  <1>3. UNCHANGED turn \/ \E r \in {"created", "rejected"} : SetTurn(d, [turn[m] EXCEPT !.job = r])
    BY DEF ScheduleJob, ApproveIsolated, ScheduleSelfImprovement, RecordSchedulingResult, RecordJob
  <1>4. /\ turn' \in [Messages -> TurnRow]
        /\ \A n \in Messages : turn'[n] = NoTurn => turn[n] = NoTurn
    <2>1. CASE UNCHANGED turn
      BY <2>1 DEF ConversationInv, RowsTyped
    <2>2. CASE \E r \in {"created", "rejected"} : SetTurn(d, [turn[m] EXCEPT !.job = r])
      BY <1>1, <2>2, TurnAltered, TurnWritten
    <2>3. QED
      BY <1>3, <2>1, <2>2
  <1>5. turnJob' \in [Messages -> JobRow]
    <2>1. turnJob \in [Messages -> JobRow] /\ turnJob[m] \in JobRow /\ JobCreated(m) \in JobRow
      BY <1>1, OneJob DEF ConversationInv, RowsTyped
    <2>2. /\ [turnJob[m] EXCEPT !.status = "APPROVED"] \in JobRow
          /\ [JobCreated(m) EXCEPT !.status = "APPROVED"] \in JobRow
      BY <2>1 DEF JobRow
    <2>3. \/ UNCHANGED turnJob
          \/ turnJob' = [turnJob EXCEPT ![m] = JobCreated(m)]
          \/ turnJob' = [turnJob EXCEPT ![m] = [turnJob[m] EXCEPT !.status = "APPROVED"]]
          \/ turnJob' = [turnJob EXCEPT ![m] = [JobCreated(m) EXCEPT !.status = "APPROVED"]]
      BY DEF ScheduleJob, ApproveIsolated, ScheduleSelfImprovement, RecordSchedulingResult
    <2>4. QED
      BY <1>1, <2>1, <2>2, <2>3
  <1>6. UNCHANGED asked
    BY DEF ScheduleJob, ApproveIsolated, ScheduleSelfImprovement, RecordSchedulingResult
  <1>7. QED
    BY <1>1, <1>2, <1>4, <1>5, <1>6, WorkDone

LEMMA OwnerDecidesStep ==
    ASSUME ConversationInv, NEW m \in Messages, OwnerDecides(m)
    PROVE  ConversationInv'
  <1>1. turnJob' \in [Messages -> JobRow]
    BY DEF OwnerDecides, ConversationInv, RowsTyped, JobRow
  <1>2. UNCHANGED <<turn, asked, delivery, line>>
    BY DEF OwnerDecides
  <1>3. LineInv' = LineInv
    BY <1>2 DEF LineInv, First, LineOf, MessageOf
  <1>4. QED
    BY <1>1, <1>2, <1>3 DEF ConversationInv, RowsTyped, AskedWithTurn

LEMMA RestartStep ==
    ASSUME ConversationInv, ConversationRestarts
    PROVE  ConversationInv'
  <1> DEFINE lost == [NoDelivery EXCEPT !.at = "lost"]
  <1>1. lost \in DeliveryRow /\ lost.at = "lost" /\ "lost" \notin Busy
    <2>1. 0 \in 0..MaxToolCalls
      BY ConversationAssumption
    <2>2. QED
      BY <2>1 DEF NoDelivery, DeliveryRow, Nothing, Busy, Working, Over
  <1>2. delivery' = [d \in Deliveries |-> IF delivery[d].at \in Busy THEN lost ELSE delivery[d]]
    BY DEF ConversationRestarts, Busy
  <1> HIDE DEF lost
  <1>3. delivery' \in [Deliveries -> DeliveryRow] /\ \A d \in Deliveries : delivery'[d].at \notin Busy
    BY <1>1, <1>2 DEF ConversationInv, LineInv
  <1>4. /\ line' \in [Conversations -> Seq(Deliveries)]
        /\ \A c \in Conversations : DOMAIN line'[c] = {}
    BY EmptySeq DEF ConversationRestarts
  <1>5. LineInv'
    BY <1>3, <1>4 DEF LineInv, Busy
  <1>6. /\ turn' \in [Messages -> TurnRow]
        /\ \A m \in Messages : turn'[m] = NoTurn => turn[m] = NoTurn
    <2>1. \A m \in Messages : turn[m] \in TurnRow /\ [turn[m] EXCEPT !.status = "FAILED"] \in TurnRow
                              /\ [turn[m] EXCEPT !.status = "FAILED"] # NoTurn
      BY DEF ConversationInv, RowsTyped, TurnRow, NoTurn
    <2>2. turn' = [m \in Messages |->
             IF turn[m].status = "THINKING" THEN [turn[m] EXCEPT !.status = "FAILED"] ELSE turn[m]]
      BY DEF ConversationRestarts
    <2>3. QED
      BY <2>1, <2>2
  <1>7. RowsTyped' /\ AskedWithTurn'
    BY <1>6 DEF ConversationInv, RowsTyped, AskedWithTurn, ConversationRestarts
  <1>8. QED
    BY <1>5, <1>7 DEF ConversationInv

LEMMA ArriveStep ==
    ASSUME ConversationInv, NEW d \in Deliveries, NEW m \in Messages, NEW text \in Texts,
           Arrive(d, m, text)
    PROVE  ConversationInv'
  <1>1. LineInv'
    BY ArriveLine DEF ConversationInv
  <1>2. QED
    BY <1>1 DEF Arrive, ConversationInv, RowsTyped, AskedWithTurn

-----------------------------------------------------------------------------
LEMMA InitConversationInv == ConversationInit => ConversationInv
  <1> SUFFICES ASSUME ConversationInit PROVE ConversationInv
    OBVIOUS
  <1>1. RowsTyped /\ AskedWithTurn
    BY DEF ConversationInit, RowsTyped, AskedWithTurn, TurnRow, JobRow, NoTurn, Nothing
  <1>2. NoDelivery \in DeliveryRow /\ NoDelivery.at = "unsent"
    <2>1. 0 \in 0..MaxToolCalls
      BY ConversationAssumption
    <2>2. QED
      BY <2>1 DEF NoDelivery, DeliveryRow, Nothing
  <1>3. "unsent" \notin Busy /\ "unsent" \notin Working
    BY DEF Busy, Working
  <1>4. /\ line \in [Conversations -> Seq(Deliveries)]
        /\ \A c \in Conversations : DOMAIN line[c] = {}
    BY EmptySeq DEF ConversationInit
  <1>5. LineInv
    BY <1>2, <1>3, <1>4 DEF ConversationInit, LineInv
  <1>6. QED
    BY <1>1, <1>5 DEF ConversationInv

LEMMA NextConversationInv == ConversationInv /\ [ConversationNext]_conversationVars => ConversationInv'
  <1> SUFFICES ASSUME ConversationInv, [ConversationNext]_conversationVars PROVE ConversationInv'
    OBVIOUS
  <1>1. ASSUME NEW d \in Deliveries, HubWorks(d) PROVE ConversationInv'
    BY <1>1, AcceptNewStep, AcceptKnownStep, ModelStep, ModelCallsToolStep, ToolReturnsStep,
       SchedulingStep DEF HubWorks
  <1>2. CASE \E d \in Deliveries, m \in Messages, text \in Texts : Arrive(d, m, text)
    BY <1>2, ArriveStep
  <1>3. CASE \E m \in Messages : OwnerDecides(m)
    BY <1>3, OwnerDecidesStep
  <1>4. CASE ConversationRestarts
    BY <1>4, RestartStep
  <1>5. CASE UNCHANGED conversationVars
    <2>1. LineInv' = LineInv
      BY <1>5 DEF conversationVars, LineInv, First, LineOf, MessageOf
    <2>2. QED
      BY <1>5, <2>1 DEF conversationVars, ConversationInv, RowsTyped, AskedWithTurn
  <1>6. QED
    BY <1>1, <1>2, <1>3, <1>4, <1>5 DEF ConversationNext

THEOREM ConversationInvariance == ConversationSpec => []ConversationInv
  BY InitConversationInv, NextConversationInv, PTL DEF ConversationSpec

(***************************************************************************)
(* However often a message is delivered and wherever the Hub ends, the     *)
(* model is asked once and one job is created, and a conversation works on *)
(* one request at a time (conversation-orchestrator.ts l.154-182,          *)
(* server.ts l.799-804).                                                   *)
(***************************************************************************)
THEOREM MessagesTakeEffectOnce == ConversationSpec => []OneEffectPerMessage
  <1>1. ConversationInv => OneEffectPerMessage
    <2> SUFFICES ASSUME ConversationInv PROVE OneEffectPerMessage
      OBVIOUS
    <2>1. \A m \in Messages : asked[m] <= 1 /\ turnJob[m].count <= 1
      BY DEF ConversationInv, RowsTyped, JobRow
    <2>2. ASSUME NEW c \in Conversations
          PROVE  Cardinality({d \in Deliveries : delivery[d].at \in Working
                                                 /\ ConversationOf[MessageOf(d)] = c}) <= 1
      <3> DEFINE W == {d \in Deliveries : delivery[d].at \in Working /\ ConversationOf[MessageOf(d)] = c}
                 h == Head(line[c])
      <3>1. W \subseteq {h}
        BY WorkerFacts DEF ConversationInv, First
      <3>2. IsFiniteSet({h}) /\ Cardinality({h}) = 1
        BY FS_Singleton
      <3> HIDE DEF W, h
      <3>3. Cardinality(W) <= 1
        BY <3>1, <3>2, FS_Subset
      <3>4. QED
        BY <3>3 DEF W
    <2>3. QED
      BY <2>1, <2>2 DEF OneEffectPerMessage
  <1>2. QED
    BY <1>1, ConversationInvariance, PTL

LEMMA ConversationTyped == ConversationInv => ConversationTypeOK
  <1> SUFFICES ASSUME ConversationInv PROVE ConversationTypeOK
    OBVIOUS
  <1>1. \A m \in Messages : turn[m] \in TurnRow /\ turnJob[m] \in JobRow
    BY DEF ConversationInv, RowsTyped
  <1>2. \A d \in Deliveries : delivery[d] \in DeliveryRow
    BY DEF ConversationInv, LineInv
  <1>3. \A c \in Conversations : \A i \in DOMAIN line[c] : delivery[line[c][i]].at \in Busy
    <2>1. \A c \in Conversations : \A i \in DOMAIN line[c] : line[c][i] \in Deliveries
      BY ElementOfSeq, LenProperties DEF ConversationInv, LineInv
    <2>2. QED
      BY <2>1 DEF ConversationInv, LineInv
  <1>4. QED
    BY <1>1, <1>2, <1>3 DEF ConversationTypeOK, TurnRow, JobRow, DeliveryRow, Busy

\* The columns and stages keep their types, and only who is not done stands in a line.
THEOREM ConversationTypeCorrect == ConversationSpec => []ConversationTypeOK
  BY ConversationTyped, ConversationInvariance, PTL
===============================================================================
