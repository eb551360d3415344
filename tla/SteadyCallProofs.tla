--------------------------- MODULE SteadyCallProofs ---------------------------
(***************************************************************************)
(* Why a Hub whose tools do not change from start to start never hands out *)
(* a job the Owner is asked about: whatever commit a crash came after, the *)
(* start that follows meets the rows in an order that ends with the        *)
(* pending call.                                                           *)
(***************************************************************************)
EXTENDS MCNodeToolPolicy, NodeToolPolicyProofs

-----------------------------------------------------------------------------
(***************************************************************************)
(* Lists in which d is the last of those in R.                             *)
(***************************************************************************)
LastOf(s, d, R) == \E k \in DOMAIN s : s[k] = d /\ \A n \in DOMAIN s : n > k => s[n] \notin R
NoneOf(s, R) == \A n \in DOMAIN s : s[n] \notin R

LEMMA RemoveKeepsLast ==
    ASSUME NEW S, NEW s \in Seq(S), NEW i \in DOMAIN s, NEW d, NEW R,
           s[i] # d, LastOf(s, d, R)
    PROVE  LastOf(RemoveAt(s, i), d, R)
  <1> DEFINE r == RemoveAt(s, i)
  <1>1. PICK k \in DOMAIN s : s[k] = d /\ \A n \in DOMAIN s : n > k => s[n] \notin R
    BY DEF LastOf
  <1>2. Len(s) \in Nat /\ DOMAIN s = 1..Len(s)
    BY LenProperties
  <1>3. /\ r \in Seq(S) /\ Len(r) = Len(s) - 1
        /\ \A n \in 1..(i - 1) : r[n] = s[n]
        /\ \A n \in i..(Len(s) - 1) : r[n] = s[n + 1]
    BY RemoveAtEntries
  <1> HIDE DEF r
  <1>4. DOMAIN r = 1..(Len(s) - 1)
    BY <1>3, LenProperties
  <1>5. k # i
    BY <1>1
  <1>6. CASE k < i
    <2>1. k \in DOMAIN r /\ r[k] = d
      BY <1>1, <1>2, <1>3, <1>4, <1>6
    <2>2. ASSUME NEW n \in DOMAIN r, n > k
          PROVE  r[n] \notin R
      <3>1. CASE n < i
        BY <1>1, <1>2, <1>3, <1>4, <2>2, <3>1
      <3>2. CASE n >= i
        <4>1. n \in i..(Len(s) - 1) /\ n + 1 \in DOMAIN s /\ n + 1 > k
          BY <1>1, <1>2, <1>4, <2>2, <3>2
        <4>2. QED
          BY <4>1, <1>1, <1>3
      <3>3. QED
        BY <3>1, <3>2, <1>2, <1>4
    <2>3. QED
      BY <2>1, <2>2 DEF LastOf, r
  <1>7. CASE k > i
    <2>1. k - 1 \in i..(Len(s) - 1) /\ k - 1 \in DOMAIN r /\ (k - 1) + 1 = k
      BY <1>1, <1>2, <1>4, <1>7
    <2>2. r[k - 1] = d
      BY <1>1, <1>3, <2>1
    <2>3. ASSUME NEW n \in DOMAIN r, n > k - 1
          PROVE  r[n] \notin R
      <3>1. n \in i..(Len(s) - 1) /\ n + 1 \in DOMAIN s /\ n + 1 > k
        BY <1>1, <1>2, <1>4, <1>7, <2>3
      <3>2. QED
        BY <3>1, <1>1, <1>3
    <2>4. QED
      BY <2>1, <2>2, <2>3 DEF LastOf, r
  <1>8. QED
    BY <1>1, <1>2, <1>5, <1>6, <1>7

LEMMA AppendKeepsLast ==
    ASSUME NEW S, NEW s \in Seq(S), NEW e \in S, NEW d, NEW R,
           e = d \/ (e \notin R /\ LastOf(s, d, R))
    PROVE  LastOf(Append(s, e), d, R)
  <1> DEFINE a == Append(s, e)
  <1>1. /\ Len(s) \in Nat /\ DOMAIN s = 1..Len(s) /\ DOMAIN a = 1..(Len(s) + 1)
        /\ \A i \in 1..Len(s) : a[i] = s[i]
        /\ a[Len(s) + 1] = e
    BY AppendFacts
  <1> HIDE DEF a
  <1>2. CASE e = d
    <2>1. Len(s) + 1 \in DOMAIN a /\ \A n \in DOMAIN a : ~(n > Len(s) + 1)
      BY <1>1
    <2>2. QED
      BY <1>1, <1>2, <2>1 DEF LastOf, a
  <1>3. CASE e \notin R /\ LastOf(s, d, R)
    <2>1. PICK k \in DOMAIN s : s[k] = d /\ \A n \in DOMAIN s : n > k => s[n] \notin R
      BY <1>3 DEF LastOf
    <2>2. k \in DOMAIN a /\ a[k] = d
      BY <1>1, <2>1
    <2>3. ASSUME NEW n \in DOMAIN a, n > k
          PROVE  a[n] \notin R
      <3>1. CASE n = Len(s) + 1
        BY <1>1, <1>3, <3>1
      <3>2. CASE n # Len(s) + 1
        <4>1. n \in DOMAIN s
          BY <1>1, <3>2
        <4>2. QED
          BY <4>1, <1>1, <2>1, <2>3
      <3>3. QED
        BY <3>1, <3>2
    <2>4. QED
      BY <2>2, <2>3 DEF LastOf, a
  <1>4. QED
    BY <1>2, <1>3

LEMMA OtherRowsType ==
    ASSUME rowOrder \in Seq(Calls), NEW c \in Calls
    PROVE  OtherRows(c) \in Seq(Calls)
  <1>1. CASE Contains(rowOrder, c)
    <2> DEFINE i == CHOOSE i \in DOMAIN rowOrder : rowOrder[i] = c
    <2>1. i \in DOMAIN rowOrder
      BY <1>1, LenProperties DEF Contains
    <2>2. OtherRows(c) = RemoveAt(rowOrder, i)
      BY <1>1 DEF OtherRows
    <2> HIDE DEF i
    <2>3. QED
      BY <2>1, <2>2, RemoveAtFacts
  <1>2. QED
    BY <1>1 DEF OtherRows

LEMMA OtherRowsKeepLast ==
    ASSUME rowOrder \in Seq(Calls), NEW c \in Calls, NEW d, d # c, NEW R,
           LastOf(rowOrder, d, R)
    PROVE  LastOf(OtherRows(c), d, R)
  <1>1. CASE Contains(rowOrder, c)
    <2> DEFINE i == CHOOSE i \in DOMAIN rowOrder : rowOrder[i] = c
    <2>1. i \in DOMAIN rowOrder /\ rowOrder[i] = c
      BY <1>1, LenProperties DEF Contains
    <2>2. OtherRows(c) = RemoveAt(rowOrder, i)
      BY <1>1 DEF OtherRows
    <2> HIDE DEF i
    <2>3. QED
      BY <2>1, <2>2, RemoveKeepsLast
  <1>2. QED
    BY <1>1 DEF OtherRows

LEMMA TailKeepsLast ==
    ASSUME NEW S, NEW s \in Seq(S), s # <<>>, NEW d, NEW R
    PROVE  /\ LastOf(s, d, R) =>
                LastOf(Tail(s), d, R) \/ (Head(s) = d /\ NoneOf(Tail(s), R))
           /\ NoneOf(s, R) => Head(s) \notin R /\ NoneOf(Tail(s), R)
  <1> DEFINE t == Tail(s)
  <1>1. /\ t \in Seq(S) /\ Len(t) = Len(s) - 1
        /\ \A i \in 1..Len(t) : t[i] = s[i + 1]
    BY HeadTailProperties
  <1>2. Len(s) \in Nat /\ DOMAIN s = 1..Len(s) /\ DOMAIN t = 1..Len(t) /\ Len(s) > 0
    BY <1>1, LenProperties, EmptySeq
  <1>3. Head(s) = s[1] /\ 1 \in DOMAIN s
    BY <1>2
  <1> HIDE DEF t
  <1>4. \A n \in DOMAIN t : n + 1 \in DOMAIN s /\ t[n] = s[n + 1]
    BY <1>1, <1>2
  <1>5. ASSUME LastOf(s, d, R)
        PROVE  LastOf(t, d, R) \/ (Head(s) = d /\ NoneOf(t, R))
    <2>1. PICK k \in DOMAIN s : s[k] = d /\ \A n \in DOMAIN s : n > k => s[n] \notin R
      BY <1>5 DEF LastOf
    <2>2. \A n \in DOMAIN t : n + 1 > k => t[n] \notin R
      BY <1>4, <2>1
    <2>3. CASE k = 1
      <3>1. \A n \in DOMAIN t : n + 1 > k
        BY <1>2, <2>3
      <3>2. QED
        BY <1>3, <2>1, <2>2, <2>3, <3>1 DEF NoneOf
    <2>4. CASE k # 1
      <3>1. k - 1 \in DOMAIN t /\ (k - 1) + 1 = k
        BY <1>1, <1>2, <2>1, <2>4
      <3>2. t[k - 1] = d
        BY <1>4, <2>1, <3>1
      <3>3. \A n \in DOMAIN t : n > k - 1 => n + 1 > k
        BY <1>1, <1>2, <2>1
      <3>4. QED
        BY <3>1, <3>2, <3>3, <2>2 DEF LastOf
    <2>5. QED
      BY <2>3, <2>4
  <1>6. NoneOf(s, R) => Head(s) \notin R /\ NoneOf(t, R)
    BY <1>3, <1>4 DEF NoneOf
  <1>7. QED
    BY <1>5, <1>6 DEF t
-----------------------------------------------------------------------------
(***************************************************************************)
(* The inductive invariant, call by call.                                  *)
(***************************************************************************)

\* A pending call that has, or should have, its job held.
Live(c) == callStatus[c] = "WAIT_APPROVAL" /\ StillHeldByLease(c)
Held(c) == status[JobOf(c)] = "WAIT_APPROVAL"

\* The rows a start might release the job of c for.
Rivals(c) == {d \in Calls : JobOf(d) = JobOf(c) /\ call[d].lease = call[c].lease}

\* Nothing is refused, and no authorization runs out, under a lease that runs.
Over(c) ==
    callStatus[c] \in {"APPROVED", "DENIED"} /\ BoundToCall(c) =>
        \/ LeaseLapsed(JobOf(c))
        \/ status[JobOf(c)] \in Terminal
        \/ callStatus[c] = "APPROVED" /\ authTtl[c] >= ttl[JobOf(c)]

\* Once the start that is at work has met c, no row is left that could release its job.
HoldDue(c) ==
    /\ hub = "up" => Held(c)
    /\ hub = "opening" => LastOf(todo, c, Rivals(c)) \/ (Held(c) /\ NoneOf(todo, Rivals(c)))

LiveCall(c) == Live(c) => LastOf(rowOrder, c, Rivals(c)) /\ HoldDue(c)
OneLiveCall == \A c, d \in Calls : Live(c) /\ Live(d) /\ JobOf(c) = JobOf(d) => c = d

SteadyInv ==
    /\ unavailable = {}
    /\ OneLiveCall
    /\ \A c \in Calls : Over(c) /\ LiveCall(c)

-----------------------------------------------------------------------------
(***************************************************************************)
(* No step but its proposal makes a call live.                             *)
(***************************************************************************)
LEMMA BoundBefore ==
    ASSUME PolicyInv, \A j \in Jobs : JobMoves(j), NEW c \in Calls,
           callStatus[c] # "NONE", call'[c] = call[c], BoundToCall(c)'
    PROVE  /\ JobOf(c) \in Jobs /\ JobOf(c)' = JobOf(c)
           /\ BoundToCall(c)
           /\ lease'[JobOf(c)] = lease[JobOf(c)]
           /\ ttl'[JobOf(c)] <= ttl[JobOf(c)]
           /\ ttl[JobOf(c)] \in Int
           /\ status[JobOf(c)] \in Terminal => status'[JobOf(c)] = status[JobOf(c)]
  <1> DEFINE j == JobOf(c)
  <1>1. /\ j \in Jobs /\ call[c].lease \in Int /\ tool[j] = "agent"
        /\ call[c].lease <= lease[j]
    BY BoundsAssumption DEF PolicyInv, CallsKnown, CallContent, JobOf
  <1>2. lease[j] \in Int /\ ttl[j] \in Int
    BY <1>1, BoundsAssumption, LeaseTicksAssumption DEF PolicyInv, PolicyTypeOK, TypeOK
  <1>3. JobOf(c)' = j
    BY DEF JobOf
  <1>4. lease'[j] = call[c].lease
    BY <1>3 DEF BoundToCall
  <1>5. JobMoves(j)
    BY <1>1
  <1>6. lease'[j] = lease[j] /\ ttl'[j] <= ttl[j]
    <2> HIDE DEF j
    <2>1. QED
      BY <1>1, <1>2, <1>4, <1>5 DEF JobMoves
  <1>7. QED
    BY <1>1, <1>2, <1>3, <1>4, <1>5, <1>6 DEF JobMoves, BoundToCall

LEMMA LiveBefore ==
    ASSUME PolicyInv, TypeOK', \A j \in Jobs : JobMoves(j), NEW c \in Calls,
           callStatus[c] = "WAIT_APPROVAL", call'[c] = call[c], Live(c)'
    PROVE  Live(c)
  <1> DEFINE j == JobOf(c)
  <1>1. BoundToCall(c)' /\ status'[JobOf(c)'] \notin Terminal /\ ~(ttl'[JobOf(c)'] <= 0)
    BY DEF Live, StillHeldByLease, LeaseLapsed
  <1>2. /\ j \in Jobs /\ JobOf(c)' = j /\ BoundToCall(c)
        /\ ttl'[j] <= ttl[j] /\ ttl[j] \in Int
        /\ status[j] \in Terminal => status'[j] = status[j]
    BY <1>1, BoundBefore
  <1>3. ttl'[j] \in Int
    BY <1>2, LeaseTicksAssumption DEF TypeOK
  <1>4. QED
    BY <1>1, <1>2, <1>3 DEF Live, StillHeldByLease, LeaseLapsed
\* A call whose row a step leaves alone.
LEMMA OverKept ==
    ASSUME PolicyInv, \A j \in Jobs : JobMoves(j), TypeOK', NEW c \in Calls, Over(c),
           callStatus'[c] = callStatus[c], call'[c] = call[c], authTtl'[c] = authTtl[c]
    PROVE  Over(c)'
  <1> DEFINE j == JobOf(c)
  <1> SUFFICES ASSUME callStatus[c] \in {"APPROVED", "DENIED"}, BoundToCall(c)'
               PROVE  \/ LeaseLapsed(JobOf(c))'
                      \/ status'[JobOf(c)'] \in Terminal
                      \/ callStatus'[c] = "APPROVED" /\ authTtl'[c] >= ttl'[JobOf(c)']
    BY DEF Over
  <1>1. /\ j \in Jobs /\ JobOf(c)' = j /\ BoundToCall(c)
        /\ ttl'[j] <= ttl[j] /\ ttl[j] \in Int
        /\ status[j] \in Terminal => status'[j] = status[j]
    BY BoundBefore
  <1>2. ttl'[j] \in Int /\ authTtl[c] \in Int
    BY <1>1, LeaseTicksAssumption, AuthorityAssumption DEF TypeOK, PolicyInv, PolicyTypeOK
  <1>3. \/ ttl[j] <= 0
        \/ status[j] \in Terminal
        \/ callStatus[c] = "APPROVED" /\ authTtl[c] >= ttl[j]
    BY <1>1 DEF Over, LeaseLapsed
  <1>4. \/ ttl'[j] <= 0
        \/ status'[j] \in Terminal
        \/ callStatus'[c] = "APPROVED" /\ authTtl'[c] >= ttl'[j]
    <2> HIDE DEF j
    <2>1. QED
      BY <1>1, <1>2, <1>3
  <1>5. QED
    BY <1>1, <1>4 DEF LeaseLapsed

\* An authorization given while the lease runs lasts as long as it.
LEMMA FullAuthorization ==
    ASSUME AuthorityTicks >= LeaseTicks, PolicyInv, NEW c \in Calls, NEW j \in Jobs,
           Authorize(c, j)
    PROVE  authTtl'[c] >= ttl[j]
  <1>1. ttl[j] \in Int /\ ttl[j] <= LeaseTicks
    BY LeaseTicksAssumption DEF PolicyInv, PolicyTypeOK, TypeOK
  <1>2. AuthorityFor(j) >= ttl[j]
    BY <1>1, LeaseTicksAssumption, AuthorityAssumption DEF AuthorityFor
  <1>3. authTtl'[c] = AuthorityFor(j)
    BY DEF Authorize, PolicyInv, PolicyTypeOK
  <1>4. QED
    BY <1>2, <1>3

-----------------------------------------------------------------------------
(***************************************************************************)
(* What a step about call c has to show: its own row is in order, and the  *)
(* live calls, of other jobs or still listed last, keep what holds them.   *)
(***************************************************************************)
Moving ==
    /\ PolicyInv /\ SteadyInv /\ TypeOK'
    /\ \A j \in Jobs : JobMoves(j)

Steadily(c) ==
    /\ Over(c)'
    /\ \/ UNCHANGED <<rowOrder, callStatus, call>>
       \/ /\ rowOrder' = Append(OtherRows(c), c)
          /\ \A d \in Calls : d # c /\ Live(d)' => c \notin Rivals(d)'
    /\ Live(c)' => \/ callStatus[c] = "WAIT_APPROVAL"
                   \/ \A d \in Calls : d # c /\ Live(d)' => JobOf(d)' # JobOf(c)'
    /\ \A d \in Calls : Live(d)' => HoldDue(d)'

LEMMA SteadyCallStep ==
    ASSUME Moving, NEW c \in Calls, CallEffect(c), Steadily(c), unavailable' = {}
    PROVE  SteadyInv'
  <1>1. /\ PolicyInv /\ TypeOK' /\ (\A j \in Jobs : JobMoves(j))
        /\ OneLiveCall /\ \A d \in Calls : Over(d) /\ LiveCall(d)
    BY DEF Moving, SteadyInv
  <1>2. /\ \A d \in Calls : d # c =>
              /\ callStatus'[d] = callStatus[d] /\ call'[d] = call[d] /\ authTtl'[d] = authTtl[d]
        /\ callStatus'[c] # "NONE" => RowContent(c)
    BY DEF CallEffect, RowStep, OnlyRow
  <1>3. \A d \in Calls : Over(d)'
    <2>1. ASSUME NEW d \in Calls, d # c
          PROVE  Over(d)'
      BY <1>1, <1>2, <2>1, OverKept
    <2>2. QED
      BY <2>1 DEF Steadily
  <1>4. ASSUME NEW d \in Calls, Live(d)', d # c \/ callStatus[c] = "WAIT_APPROVAL"
        PROVE  Live(d) /\ call'[d] = call[d]
    <2>1. callStatus'[d] = "WAIT_APPROVAL"
      BY <1>4 DEF Live
    <2>2. callStatus[d] = "WAIT_APPROVAL" /\ call'[d] = call[d]
      BY <1>2, <1>4, <2>1 DEF RowContent
    <2>3. QED
      BY <1>1, <1>4, <2>2, LiveBefore
  <1>5. OneLiveCall'
    <2> SUFFICES ASSUME NEW d \in Calls, NEW e \in Calls,
                        Live(d)', Live(e)', JobOf(d)' = JobOf(e)', d # e
                 PROVE  FALSE
      BY DEF OneLiveCall
    <2>1. CASE Live(d) /\ Live(e) /\ call'[d] = call[d] /\ call'[e] = call[e]
      BY <1>1, <2>1 DEF OneLiveCall, JobOf
    <2>2. QED
      BY <1>4, <2>1 DEF Steadily
  <1>6. ASSUME NEW d \in Calls, Live(d)'
        PROVE  LastOf(rowOrder, d, Rivals(d))'
    <2>1. rowOrder \in Seq(Calls)
      BY <1>1 DEF PolicyInv, PolicyTypeOK
    <2>2. CASE UNCHANGED <<rowOrder, callStatus, call>>
      <3>1. Live(d)
        BY <1>4, <1>6, <2>2 DEF Live
      <3>2. Rivals(d)' = Rivals(d)
        BY <2>2 DEF Rivals, JobOf
      <3>3. QED
        BY <1>1, <2>2, <3>1, <3>2 DEF LiveCall, LastOf
    <2>3. CASE rowOrder' = Append(OtherRows(c), c)
      <3>1. CASE d = c
        BY <2>1, <2>3, <3>1, OtherRowsType, AppendKeepsLast
      <3>2. CASE d # c /\ c \notin Rivals(d)'
        <4>1. Live(d) /\ call'[d] = call[d]
          BY <1>4, <1>6, <3>2
        <4>2. Rivals(d)' \subseteq Rivals(d)
          BY <1>2, <3>2, <4>1 DEF Rivals, JobOf
        <4>3. LastOf(rowOrder, d, Rivals(d))
          BY <1>1, <4>1 DEF LiveCall
        <4>4. LastOf(rowOrder, d, Rivals(d)')
          BY <4>2, <4>3 DEF LastOf
        <4>5. LastOf(OtherRows(c), d, Rivals(d)')
          BY <2>1, <3>2, <4>4, OtherRowsKeepLast
        <4>6. QED
          BY <2>1, <2>3, <3>2, <4>5, OtherRowsType, AppendKeepsLast
      <3>3. QED
        BY <1>6, <2>2, <3>1, <3>2 DEF Steadily
    <2>4. QED
      BY <2>2, <2>3 DEF Steadily
  <1>7. \A d \in Calls : LiveCall(d)'
    BY <1>6 DEF LiveCall, Steadily
  <1>8. QED
    BY <1>3, <1>5, <1>7 DEF SteadyInv
-----------------------------------------------------------------------------
(***************************************************************************)
(* The requests about a call.  They find the Hub up, where every live call *)
(* has its job held.                                                       *)
(***************************************************************************)
\* The other live calls were live before, and hold their jobs.
LEMMA OthersHeld ==
    ASSUME Moving, NEW c \in Calls, NEW d \in Calls, d # c, hub = "up",
           callStatus'[d] = callStatus[d], call'[d] = call[d], Live(d)'
    PROVE  /\ Live(d) /\ Held(d) /\ JobOf(d)' = JobOf(d)
           /\ JobOf(d) \in Jobs /\ ttl[JobOf(d)] > 0
           /\ callStatus[c] = "WAIT_APPROVAL" /\ HeldForCall(c) /\ ~LeaseLapsed(JobOf(c)) =>
                JobOf(d) # JobOf(c)
  <1>1. callStatus[d] = "WAIT_APPROVAL" /\ BoundToCall(d)'
    BY DEF Live, StillHeldByLease
  <1>2. Live(d)
    BY <1>1, LiveBefore DEF Moving
  <1>3. JobOf(d)' = JobOf(d) /\ JobOf(d) \in Jobs /\ ttl[JobOf(d)] \in Int
    BY <1>1, BoundBefore DEF Moving
  <1>4. Held(d) /\ ttl[JobOf(d)] > 0
    BY <1>2, <1>3 DEF Moving, SteadyInv, LiveCall, HoldDue, Live, StillHeldByLease, LeaseLapsed
  <1>5. callStatus[c] = "WAIT_APPROVAL" /\ HeldForCall(c) /\ ~LeaseLapsed(JobOf(c)) => Live(c)
    BY DEF HeldForCall, Live, StillHeldByLease, Terminal
  <1>6. QED
    BY <1>2, <1>3, <1>4, <1>5 DEF Moving, SteadyInv, OneLiveCall

LEMMA ProposeMeets ==
    ASSUME Moving, NEW c \in Calls, NEW j \in Jobs, NEW l \in 1..MaxLease,
           NEW name \in ToolNames, Propose(c, j, l, name),
           NEW s \in RowStates, WriteRow(c, s), NEW d \in Calls, d # c, Live(d)'
    PROVE  /\ Live(d) /\ Held(d) /\ JobOf(d)' = JobOf(d)
           /\ JobOf(d) \in Jobs /\ JobOf(d) # j
           /\ JobOf(c)' = j /\ c \notin Rivals(d)'
  <1> PolicyInv /\ PolicyTypeOK
    BY DEF Moving, PolicyInv
  <1>1. /\ call'[c] = [job |-> j, lease |-> l, name |-> name]
        /\ call'[d] = call[d] /\ callStatus'[d] = callStatus[d] /\ hub = "up"
    <2>1. callStatus'[d] = callStatus[d]
      BY WriteRowFacts
    <2>2. /\ call'[c] = [job |-> j, lease |-> l, name |-> name]
          /\ call'[d] = call[d]
      BY ProposeFacts
    <2>3. QED
      BY <2>1, <2>2 DEF Propose
  <1>2. Live(d) /\ Held(d) /\ JobOf(d)' = JobOf(d) /\ JobOf(d) \in Jobs
    BY <1>1, OthersHeld
  <1>3. status[j] # "WAIT_APPROVAL"
    BY DEF Propose, AtWork
  <1>4. JobOf(d) # j
    BY <1>2, <1>3 DEF Held
  <1>5. JobOf(c)' = j
    BY <1>1 DEF JobOf
  <1>6. c \notin Rivals(d)'
    BY <1>2, <1>4, <1>5 DEF Rivals
  <1>7. QED
    BY <1>2, <1>4, <1>5, <1>6

LEMMA ProposeReadSteadily ==
    ASSUME AuthorityTicks >= LeaseTicks, Moving, NEW c \in Calls, NEW j \in Jobs,
           NEW l \in 1..MaxLease, NEW name \in ToolNames, ProposeRead(c, j, l, name)
    PROVE  Steadily(c)
  <1>1. /\ Propose(c, j, l, name) /\ WriteRow(c, "APPROVED") /\ Authorize(c, j)
        /\ UNCHANGED <<vars, hub, todo>> /\ hub = "up"
    BY DEF ProposeRead, Propose
  <1>2. /\ callStatus'[c] = "APPROVED" /\ rowOrder' = Append(OtherRows(c), c)
        /\ "APPROVED" \in RowStates
    BY <1>1 DEF WriteRow, Moving, PolicyInv, PolicyTypeOK, RowStates
  <1>3. JobOf(c)' = j
    <2>1. PolicyInv
      BY DEF Moving
    <2>2. call'[c] = [job |-> j, lease |-> l, name |-> name]
      BY <1>1, <2>1, ProposeFacts
    <2>3. QED
      BY <2>2 DEF JobOf
  <1>4. authTtl'[c] >= ttl'[j]
    BY <1>1, FullAuthorization DEF Moving, vars
  <1>5. Over(c)'
    BY <1>2, <1>3, <1>4 DEF Over
  <1>6. ASSUME NEW d \in Calls, Live(d)'
        PROVE  d # c /\ c \notin Rivals(d)' /\ HoldDue(d)'
    <2>1. d # c
      BY <1>2, <1>6 DEF Live
    <2>2. Held(d) /\ JobOf(d)' = JobOf(d) /\ c \notin Rivals(d)'
      BY <1>1, <1>2, <1>6, <2>1, ProposeMeets
    <2>3. HoldDue(d)'
      BY <1>1, <2>2 DEF Held, HoldDue, vars
    <2>4. QED
      BY <2>1, <2>2, <2>3
  <1>7. QED
    BY <1>2, <1>5, <1>6 DEF Steadily

LEMMA ProposeGuardedSteadily ==
    ASSUME Moving, NEW c \in Calls, NEW j \in Jobs,
           NEW l \in 1..MaxLease, NEW name \in ToolNames, ProposeGuarded(c, j, l, name)
    PROVE  Steadily(c)
  <1>1. /\ Propose(c, j, l, name) /\ WriteRow(c, "WAIT_APPROVAL")
        /\ \/ Hold(j, runner[j], l) /\ UNCHANGED <<hub, todo>>
           \/ CrashBetween
    BY DEF ProposeGuarded
  <1>2. /\ callStatus'[c] = "WAIT_APPROVAL" /\ rowOrder' = Append(OtherRows(c), c)
        /\ "WAIT_APPROVAL" \in RowStates
    BY <1>1 DEF WriteRow, Moving, PolicyInv, PolicyTypeOK, RowStates
  <1>3. JobOf(c)' = j
    <2>1. PolicyInv
      BY DEF Moving
    <2>2. call'[c] = [job |-> j, lease |-> l, name |-> name]
      BY <1>1, <2>1, ProposeFacts
    <2>3. QED
      BY <2>2 DEF JobOf
  <1>4. Over(c)'
    BY <1>2 DEF Over
  <1>5. ASSUME NEW d \in Calls, Live(d)', d # c
        PROVE  Held(d) /\ JobOf(d)' = JobOf(d) /\ JobOf(d) \in Jobs /\ JobOf(d) # j
               /\ c \notin Rivals(d)'
    BY <1>1, <1>2, <1>5, ProposeMeets
  <1>6. ASSUME NEW d \in Calls, Live(d)'
        PROVE  HoldDue(d)'
    <2>1. CASE CrashBetween
      BY <2>1 DEF CrashBetween, HoldDue
    <2>2. CASE Hold(j, runner[j], l) /\ UNCHANGED <<hub, todo>>
      <3>1. hub' = "up"
        BY <1>1, <2>2 DEF Propose
      <3>2. CASE d # c
        <4>1. status'[JobOf(d)] = status[JobOf(d)]
          BY <1>5, <1>6, <2>2, <3>2
          DEF Hold, WaitForToolApproval, SetStatus, vars, Moving, PolicyInv, PolicyTypeOK, TypeOK
        <4>2. QED
          BY <1>5, <1>6, <3>1, <3>2, <4>1 DEF HoldDue, Held
      <3>3. CASE d = c
        <4>1. ttl' = ttl
          BY <2>2 DEF Hold, WaitForToolApproval, KeepLease, vars
        <4>2. ~LeaseLapsed(j)
          BY <1>3, <1>6, <3>3, <4>1 DEF Live, StillHeldByLease, LeaseLapsed
        <4>3. CanHold(j, runner[j], l)
          BY <1>1, <4>2 DEF Propose, ActiveLease, AtWork, CanHold
        <4>4. status'[j] = "WAIT_APPROVAL"
          BY <2>2, <4>3 DEF Hold, WaitForToolApproval, SetStatus, Moving, PolicyInv, PolicyTypeOK, TypeOK
        <4>5. QED
          BY <1>3, <3>1, <3>3, <4>4 DEF HoldDue, Held
      <3>4. QED
        BY <3>2, <3>3
    <2>3. QED
      BY <1>1, <2>1, <2>2
  <1>7. QED
    BY <1>2, <1>3, <1>4, <1>5, <1>6 DEF Steadily
\* Holding a job releases none.
LEMMA HoldReleasesNone ==
    ASSUME TypeOK, NEW j \in Jobs, NEW r, NEW l, Hold(j, r, l), NEW k \in Jobs,
           status[k] = "WAIT_APPROVAL"
    PROVE  status'[k] = "WAIT_APPROVAL"
  BY DEF TypeOK, Hold, WaitForToolApproval, SetStatus, vars

LEMMA ReevaluateSteadily ==
    ASSUME Moving, NEW c \in Calls, Reevaluate(c)
    PROVE  Steadily(c)
  <1> DEFINE j == JobOf(c)
  <1>1. /\ UNCHANGED policyVars /\ callStatus[c] = "WAIT_APPROVAL" /\ hub = "up"
        /\ BoundToCall(c) /\ Hold(j, runner[j], call[c].lease)
    BY DEF Reevaluate, Decision
  <1>2. UNCHANGED <<callStatus, call, rowOrder, hub>>
    BY <1>1 DEF policyVars
  <1>3. j \in Jobs /\ TypeOK
    BY <1>1, CallNamesJob DEF Moving, PolicyInv, PolicyTypeOK
  <1>4. ASSUME NEW d \in Calls, Live(d)'
        PROVE  HoldDue(d)'
    <2>1. /\ PolicyInv /\ TypeOK' /\ (\A k \in Jobs : JobMoves(k))
          /\ callStatus[d] = "WAIT_APPROVAL" /\ call'[d] = call[d]
      BY <1>2, <1>4 DEF Moving, Live
    <2>2. Live(d) /\ JobOf(d) \in Jobs /\ JobOf(d)' = JobOf(d)
      BY <1>4, <2>1, LiveBefore, BoundBefore DEF Live, StillHeldByLease
    <2>3. Held(d)
      BY <1>1, <2>2 DEF Moving, SteadyInv, LiveCall, HoldDue
    <2>4. status'[JobOf(d)] = "WAIT_APPROVAL"
      BY <1>1, <1>3, <2>2, <2>3, HoldReleasesNone DEF Held
    <2>5. QED
      BY <1>1, <1>2, <2>2, <2>4 DEF HoldDue, Held
  <1>5. Over(c)'
    BY <1>1, <1>2 DEF Over
  <1>6. QED
    BY <1>1, <1>2, <1>4, <1>5 DEF Steadily

\* Deciding a call writes the status of its job alone.
LEMMA DecisionTouches ==
    ASSUME TypeOK, NEW c \in Calls, NEW k \in Jobs, k # JobOf(c), Dispatch(c) \/ Redispatch(c)
    PROVE  status'[k] = status[k]
  BY DEF TypeOK, Dispatch, Redispatch, DispatchAfterToolApproval, RedispatchAfterDeniedToolCall,
         SetStatus

\* A decided call is of another job than the calls that are still live.
LEMMA DecidedSteadily ==
    ASSUME Moving, NEW c \in Calls, hub = "up", NEW s \in {"APPROVED", "DENIED"}, WriteRow(c, s),
           callStatus[c] = "WAIT_APPROVAL", HeldForCall(c), call' = call, Over(c)',
           s = "APPROVED" => ~LeaseLapsed(JobOf(c)),
           s = "DENIED" => LeaseLapsed(JobOf(c)),
           \/ (Dispatch(c) \/ Redispatch(c)) /\ UNCHANGED <<hub, todo>>
           \/ CrashBetween
    PROVE  Steadily(c)
  <1>0. PolicyTypeOK /\ TypeOK /\ s \in RowStates
    BY DEF Moving, PolicyInv, PolicyTypeOK, RowStates
  <1>1. /\ callStatus'[c] = s /\ rowOrder' = Append(OtherRows(c), c)
        /\ \A d \in Calls : d # c => callStatus'[d] = callStatus[d]
    BY <1>0, WriteRowFacts DEF WriteRow
  <1>2. ASSUME NEW d \in Calls, Live(d)'
        PROVE  d # c /\ c \notin Rivals(d)' /\ HoldDue(d)'
    <2>1. d # c
      BY <1>1, <1>2 DEF Live
    <2>2. /\ Live(d) /\ Held(d) /\ JobOf(d)' = JobOf(d) /\ JobOf(d) \in Jobs
          /\ ttl[JobOf(d)] > 0 /\ ttl[JobOf(d)] \in Int
          /\ ~LeaseLapsed(JobOf(c)) => JobOf(d) # JobOf(c)
      <3>1. /\ Live(d) /\ Held(d) /\ JobOf(d)' = JobOf(d) /\ JobOf(d) \in Jobs
            /\ ttl[JobOf(d)] > 0
            /\ ~LeaseLapsed(JobOf(c)) => JobOf(d) # JobOf(c)
        BY <1>1, <1>2, <2>1, OthersHeld
      <3>2. QED
        BY <3>1, <1>0, LeaseTicksAssumption DEF TypeOK
    <2>3. JobOf(d) # JobOf(c)
      BY <2>2 DEF LeaseLapsed
    <2>4. JobOf(c)' = JobOf(c)
      BY DEF JobOf
    <2>5. CASE CrashBetween
      BY <2>1, <2>2, <2>3, <2>4, <2>5 DEF CrashBetween, HoldDue, Rivals
    <2>6. CASE (Dispatch(c) \/ Redispatch(c)) /\ UNCHANGED <<hub, todo>>
      <3>1. status'[JobOf(d)] = status[JobOf(d)]
        BY <1>0, <2>2, <2>3, <2>6, DecisionTouches
      <3>2. QED
        BY <2>1, <2>2, <2>3, <2>4, <2>6, <3>1 DEF HoldDue, Held, Rivals
    <2>7. QED
      BY <2>5, <2>6
  <1>3. QED
    BY <1>1, <1>2 DEF Steadily

LEMMA ClearCallSteadily ==
    ASSUME AuthorityTicks >= LeaseTicks, Moving, NEW c \in Calls, ClearCall(c)
    PROVE  Steadily(c)
  <1> DEFINE j == JobOf(c)
  <1>1. /\ callStatus[c] = "WAIT_APPROVAL" /\ HeldForCall(c) /\ ~LeaseLapsed(j)
        /\ WriteRow(c, "APPROVED") /\ Authorize(c, j) /\ call' = call /\ hub = "up"
        /\ (Dispatch(c) /\ UNCHANGED <<hub, todo>>) \/ CrashBetween
    BY DEF ClearCall, AwaitingClearance
  <1>2. PolicyInv /\ j \in Jobs
    BY <1>1, CallNamesJob DEF Moving, PolicyInv, HeldForCall
  <1>3. ttl' = ttl
    BY <1>1 DEF Dispatch, DispatchAfterToolApproval, KeepLease, CrashBetween, vars
  <1>4. authTtl'[c] >= ttl'[j]
    BY <1>1, <1>2, <1>3, FullAuthorization
  <1>5. callStatus'[c] = "APPROVED" /\ JobOf(c)' = j
    BY <1>1, <1>2 DEF WriteRow, PolicyInv, PolicyTypeOK, JobOf
  <1>6. Over(c)'
    BY <1>4, <1>5 DEF Over
  <1>7. QED
    BY <1>1, <1>6, DecidedSteadily

\* A lease that lapsed stays so as long as it is the lease of the call.
LEMMA LapsedStays ==
    ASSUME Moving, NEW c \in Calls, callStatus[c] # "NONE", call'[c] = call[c],
           BoundToCall(c) => LeaseLapsed(JobOf(c)) \/ status[JobOf(c)] \in Terminal
    PROVE  Over(c)'
  <1> DEFINE j == JobOf(c)
  <1> SUFFICES ASSUME BoundToCall(c)'
               PROVE  LeaseLapsed(JobOf(c))' \/ status'[JobOf(c)'] \in Terminal
    BY DEF Over
  <1>1. /\ j \in Jobs /\ JobOf(c)' = j /\ BoundToCall(c)
        /\ ttl'[j] <= ttl[j] /\ ttl[j] \in Int
        /\ status[j] \in Terminal => status'[j] = status[j]
    BY BoundBefore DEF Moving
  <1>2. ttl'[j] \in Int
    BY <1>1, LeaseTicksAssumption DEF Moving, TypeOK
  <1>3. ttl[j] <= 0 => ttl'[j] <= 0
    <2> HIDE DEF j
    <2>1. QED
      BY <1>1, <1>2
  <1>4. QED
    BY <1>1, <1>3 DEF LeaseLapsed

LEMMA ClearCallTooLateSteadily ==
    ASSUME Moving, NEW c \in Calls, ClearCallTooLate(c)
    PROVE  Steadily(c)
  <1>1. /\ callStatus[c] = "WAIT_APPROVAL" /\ HeldForCall(c) /\ LeaseLapsed(JobOf(c))
        /\ WriteRow(c, "DENIED") /\ call' = call /\ hub = "up"
        /\ (Redispatch(c) /\ UNCHANGED <<hub, todo>>) \/ CrashBetween
    BY DEF ClearCallTooLate, AwaitingClearance
  <1>2. Over(c)'
    BY <1>1, LapsedStays
  <1>3. QED
    BY <1>1, <1>2, DecidedSteadily
-----------------------------------------------------------------------------
(***************************************************************************)
(* The rows of a start.  A row is passed when it is of another job, or     *)
(* listed before the live call it could release.                           *)
(***************************************************************************)
LEMMA RowPassed ==
    ASSUME Moving, NEW c \in Calls, Reconciling(c), RowDone, call' = call,
           NEW d \in Calls, callStatus'[d] = callStatus[d], Live(d)',
           c \notin Rivals(d) /\ Held(d) => status'[JobOf(d)] = "WAIT_APPROVAL",
           c = d => status'[JobOf(d)] = "WAIT_APPROVAL"
    PROVE  HoldDue(d)'
  <1> DEFINE R == Rivals(d)
  <1>1. /\ PolicyInv /\ TypeOK' /\ (\A k \in Jobs : JobMoves(k))
        /\ callStatus[d] = "WAIT_APPROVAL" /\ call'[d] = call[d]
    BY DEF Moving, Live
  <1>2. Live(d) /\ JobOf(d)' = JobOf(d) /\ R' = R
    BY <1>1, LiveBefore DEF JobOf, Rivals
  <1>3. LastOf(todo, d, R) \/ (Held(d) /\ NoneOf(todo, R))
    BY <1>2 DEF Moving, SteadyInv, LiveCall, HoldDue, Reconciling
  <1>4. todo \in Seq(Calls) /\ todo # <<>> /\ Head(todo) = c /\ todo' = Tail(todo) /\ hub' = "opening"
    BY <1>1 DEF Reconciling, RowDone, PolicyInv, PolicyTypeOK
  <1> HIDE DEF R
  <1>5. /\ LastOf(todo, d, R) => LastOf(todo', d, R) \/ (c = d /\ NoneOf(todo', R))
        /\ NoneOf(todo, R) => c \notin R /\ NoneOf(todo', R)
    BY <1>4, TailKeepsLast
  <1>6. LastOf(todo', d, R) \/ (status'[JobOf(d)] = "WAIT_APPROVAL" /\ NoneOf(todo', R))
    BY <1>3, <1>5 DEF R
  <1>7. LastOf(todo', d, R') \/ (status'[JobOf(d)'] = "WAIT_APPROVAL" /\ NoneOf(todo', R'))
    BY <1>2, <1>6
  <1>8. QED
    BY <1>4, <1>7 DEF HoldDue, Held, R

LEMMA RestoreHoldSteadily ==
    ASSUME Moving, NEW c \in Calls, RestoreHold(c)
    PROVE  Steadily(c)
  <1> DEFINE j == JobOf(c)
             l == call[c].lease
  <1>1. /\ Reconciling(c) /\ callStatus[c] = "WAIT_APPROVAL" /\ BoundToCall(c)
        /\ UNCHANGED <<callStatus, call, rowOrder>>
        /\ \/ /\ CanHold(j, runner[j], l) \/ HeldForCall(c)
              /\ Hold(j, runner[j], l) /\ RowDone
           \/ CrashBetween
    BY DEF RestoreHold, StillHeldByLease
  <1>2. j \in Jobs /\ TypeOK
    BY <1>1, CallNamesJob DEF Moving, PolicyInv, PolicyTypeOK
  <1>3. ASSUME NEW d \in Calls, Live(d)'
        PROVE  HoldDue(d)'
    <2>1. CASE CrashBetween
      BY <2>1 DEF CrashBetween, HoldDue
    <2>2. CASE /\ CanHold(j, runner[j], l) \/ HeldForCall(c)
               /\ Hold(j, runner[j], l) /\ RowDone
      <3>1. status'[j] = "WAIT_APPROVAL"
        BY <1>2, <2>2 DEF Hold, WaitForToolApproval, SetStatus, TypeOK, vars, HeldForCall
      <3>2. JobOf(d) \in Jobs
        BY <1>1, <1>3, BoundBefore DEF Moving, Live, StillHeldByLease
      <3>3. Held(d) => status'[JobOf(d)] = "WAIT_APPROVAL"
        BY <1>2, <2>2, <3>2, HoldReleasesNone DEF Held
      <3>4. QED
        BY <1>1, <1>3, <2>2, <3>1, <3>3, RowPassed
    <2>3. QED
      BY <1>1, <2>1, <2>2
  <1>4. Over(c)'
    BY <1>1 DEF Over
  <1>5. QED
    BY <1>1, <1>3, <1>4 DEF Steadily

\* Whoever is bound to the lease of a live call is its rival.
LEMMA BoundIsRival ==
    ASSUME NEW c \in Calls, NEW d \in Calls, BoundToCall(c), BoundToCall(d), c \notin Rivals(d)
    PROVE  JobOf(c) # JobOf(d)
  BY DEF BoundToCall, Rivals

LEMMA CompleteClearanceSteadily ==
    ASSUME Moving, NEW c \in Calls, CompleteClearance(c)
    PROVE  Steadily(c)
  <1>1. /\ Reconciling(c) /\ callStatus[c] = "APPROVED" /\ BoundToCall(c)
        /\ Dispatch(c) /\ RowDone
        /\ UNCHANGED <<callStatus, call, authTtl, rowOrder>>
    BY DEF CompleteClearance, Decision, HeldForCall
  <1>2. PolicyInv /\ TypeOK /\ TypeOK' /\ (\A k \in Jobs : JobMoves(k)) /\ Over(c)
    BY DEF Moving, SteadyInv, PolicyInv, PolicyTypeOK
  <1>3. Over(c)'
    BY <1>1, <1>2, OverKept
  <1>4. ASSUME NEW d \in Calls, Live(d)'
        PROVE  HoldDue(d)'
    <2>1. callStatus[d] = "WAIT_APPROVAL" /\ c # d /\ BoundToCall(d)'
      BY <1>1, <1>4 DEF Live, StillHeldByLease
    <2>2. JobOf(d) \in Jobs /\ BoundToCall(d)
      BY <1>1, <1>2, <2>1, BoundBefore
    <2>3. c \notin Rivals(d) => status'[JobOf(d)] = status[JobOf(d)]
      BY <1>1, <1>2, <2>2, BoundIsRival, DecisionTouches
    <2>4. QED
      BY <1>1, <1>4, <2>1, <2>3, RowPassed DEF Held
  <1>5. QED
    BY <1>1, <1>3, <1>4 DEF Steadily, Live

LEMMA DenyRowSteadily ==
    ASSUME Moving, NEW c \in Calls, DenyRow(c)
    PROVE  Steadily(c)
  <1>1. /\ Reconciling(c) /\ MustDeny(c) /\ WriteRow(c, "DENIED") /\ call' = call
        /\ callStatus[c] # "NONE"
        /\ \/ HeldForCall(c) /\ Redispatch(c) /\ RowDone
           \/ CrashBetween
           \/ ~HeldForCall(c) /\ UNCHANGED vars /\ RowDone
    BY DEF DenyRow, MustDeny, Decision
  <1>2. PolicyInv /\ PolicyTypeOK /\ TypeOK /\ TypeOK' /\ (\A k \in Jobs : JobMoves(k)) /\ Over(c)
    BY DEF Moving, SteadyInv, PolicyInv, PolicyTypeOK
  <1>3. /\ callStatus'[c] = "DENIED" /\ rowOrder' = Append(OtherRows(c), c)
        /\ \A d \in Calls : d # c => callStatus'[d] = callStatus[d]
    BY <1>1, <1>2, WriteRowFacts DEF WriteRow, RowStates
  <1>4. BoundToCall(c) => LeaseLapsed(JobOf(c)) \/ status[JobOf(c)] \in Terminal
    <2>1. CASE callStatus[c] = "WAIT_APPROVAL" /\ ~StillHeldByLease(c)
      BY <2>1 DEF StillHeldByLease
    <2>2. CASE Decision(c) = "DENIED" /\ BoundToCall(c)
      <3>1. callStatus[c] = "DENIED" \/ (callStatus[c] = "APPROVED" /\ authTtl[c] = 0)
        BY <2>2 DEF Decision
      <3>2. QED
        BY <1>2, <2>2, <3>1 DEF Over, LeaseLapsed
    <2>3. QED
      BY <1>1, <2>1, <2>2 DEF MustDeny, HeldForCall
  <1>5. Over(c)'
    BY <1>1, <1>4, LapsedStays
  <1>6. ASSUME NEW d \in Calls, Live(d)'
        PROVE  d # c /\ c \notin Rivals(d)' /\ HoldDue(d)'
    <2>1. d # c
      BY <1>3, <1>6 DEF Live
    <2>2. callStatus[d] = "WAIT_APPROVAL" /\ BoundToCall(d)'
      BY <1>3, <1>6, <2>1 DEF Live, StillHeldByLease
    <2>3. Live(d) /\ BoundToCall(d) /\ JobOf(d) \in Jobs
      BY <1>1, <1>2, <1>6, <2>2, LiveBefore, BoundBefore
    <2>4. BoundToCall(c) => JobOf(c) # JobOf(d)
      BY <1>4, <2>3 DEF Live, StillHeldByLease
    <2>5. c \notin Rivals(d) /\ Rivals(d)' = Rivals(d)
      BY <1>1, <2>3, <2>4 DEF Rivals, BoundToCall, JobOf
    <2>6. CASE CrashBetween
      BY <2>1, <2>5, <2>6 DEF CrashBetween, HoldDue
    <2>7. CASE RowDone /\ ((HeldForCall(c) /\ Redispatch(c)) \/ UNCHANGED vars)
      <3>1. status'[JobOf(d)] = status[JobOf(d)]
        BY <1>2, <2>3, <2>4, <2>7, DecisionTouches DEF vars, HeldForCall
      <3>2. HoldDue(d)'
        BY <1>1, <1>3, <1>6, <2>1, <2>2, <2>7, <3>1, RowPassed DEF Held
      <3>3. QED
        BY <2>1, <2>5, <3>2
    <2>8. QED
      BY <1>1, <2>6, <2>7
  <1>7. QED
    BY <1>3, <1>5, <1>6 DEF Steadily

LEMMA SkipRowSteadily ==
    ASSUME Moving, NEW c \in Calls, SkipRow(c)
    PROVE  Steadily(c)
  <1>1. /\ Reconciling(c) /\ callStatus[c] # "WAIT_APPROVAL" /\ RowDone /\ UNCHANGED vars
        /\ UNCHANGED <<callStatus, call, authTtl, rowOrder>>
    BY DEF SkipRow
  <1>2. Over(c)'
    BY <1>1, OverKept DEF Moving, SteadyInv
  <1>3. ASSUME NEW d \in Calls, Live(d)'
        PROVE  HoldDue(d)'
    BY <1>1, <1>3, RowPassed DEF Live, Held, vars
  <1>4. QED
    BY <1>1, <1>2, <1>3 DEF Steadily, Live
-----------------------------------------------------------------------------
(***************************************************************************)
(* The steps about no call.                                                *)
(***************************************************************************)
LEMMA HeldAgentStays ==
    ASSUME TypeOK, NEW j \in Jobs, JobStep(j), NEW k \in Jobs,
           status[k] = "WAIT_APPROVAL", tool[k] = "agent"
    PROVE  status'[k] \in {"WAIT_APPROVAL", "CANCELLED"}
  <1>1. CASE Approve(j)
    BY <1>1 DEF Approve, Risk, SetStatus, TypeOK
  <1>2. CASE Cancel(j)
    BY <1>2 DEF Cancel, SetStatus, TypeOK
  <1>3. ASSUME NEW r \in Runners, NEW t \in Tools, Create(j, r, t)
        PROVE  status'[k] \in {"WAIT_APPROVAL", "CANCELLED"}
    BY <1>3 DEF Create, SetStatus, TypeOK
  <1>4. ASSUME NEW r \in Runners, Pull(r, j)
        PROVE  status'[k] \in {"WAIT_APPROVAL", "CANCELLED"}
    BY <1>4 DEF Pull
  <1>5. ASSUME NEW r \in Runners, NEW l \in 1..MaxLease,
               RecoverAgent(j, r, l) \/ (status[j] = "DISPATCHED" /\ Reconcile(j, r, l))
        PROVE  status'[k] \in {"WAIT_APPROVAL", "CANCELLED"}
    BY <1>5 DEF RecoverAgent, Reconcile, SetStatus, TypeOK
  <1>6. ASSUME NEW r \in Runners, NEW l \in 1..MaxLease, NEW seq \in 0..MaxEvents,
               RunnerReport(j, r, l, seq)
        PROVE  status'[k] \in {"WAIT_APPROVAL", "CANCELLED"}
    <2>1. CASE \E body \in Notes : AcceptEvent(j, r, l, seq, body)
      <3>1. PICK body \in Notes : AcceptEvent(j, r, l, seq, body)
        BY <2>1
      <3>2. j = k => "NOTE" \notin Transitions[status[j]]
        BY DEF Transitions
      <3>3. body = "NOTE"
        BY DEF Notes
      <3>4. status' = status \/ (j # k /\ SetStatus(j, body))
        BY <3>1, <3>2, <3>3 DEF AcceptEvent
      <3>5. QED
        BY <3>4 DEF SetStatus, TypeOK
    <2>2. CASE /\ status[j] \in {"DISPATCHED", "RUNNING"}
               /\ \E body \in Bodies : AcceptEvent(j, r, l, seq, body)
      BY <2>2 DEF AcceptEvent, SetStatus, TypeOK
    <2>3. QED
      BY <1>6, <2>1, <2>2 DEF RunnerReport, Bodies, States, Active, Terminal
  <1>7. QED
    BY <1>1, <1>2, <1>3, <1>4, <1>5, <1>6 DEF JobStep

\* Steps that leave every row and its authorization, or only let time pass.
LEMMA RowsAloneSteady ==
    ASSUME Moving, UNCHANGED <<callStatus, call, rowOrder>>, unavailable' = {},
           \A c \in Calls : Over(c)',
           \A c \in Calls : Live(c)' /\ Live(c) => HoldDue(c)'
    PROVE  SteadyInv'
  <1>1. ASSUME NEW c \in Calls, Live(c)'
        PROVE  Live(c)
    BY <1>1, LiveBefore DEF Moving, Live
  <1>2. OneLiveCall'
    BY <1>1 DEF Moving, SteadyInv, OneLiveCall, JobOf
  <1>3. ASSUME NEW c \in Calls, Live(c)'
        PROVE  LastOf(rowOrder, c, Rivals(c))'
    <2>1. LastOf(rowOrder, c, Rivals(c))
      BY <1>1, <1>3 DEF Moving, SteadyInv, LiveCall
    <2>2. Rivals(c)' = Rivals(c)
      BY DEF Rivals, JobOf
    <2>3. QED
      BY <2>1, <2>2 DEF LastOf
  <1>4. QED
    BY <1>1, <1>2, <1>3 DEF SteadyInv, LiveCall

LEMMA TickSteady ==
    ASSUME Moving, PolicyTick
    PROVE  SteadyInv'
  <1>1. /\ ttl' = [j \in Jobs |-> IF ttl[j] >= 0 THEN ttl[j] - 1 ELSE -1]
        /\ authTtl' = [c \in Calls |-> IF authTtl[c] > 0 THEN authTtl[c] - 1 ELSE 0]
        /\ UNCHANGED <<status, callStatus, call, rowOrder, hub, todo, unavailable>>
    BY DEF PolicyTick, Tick
  <1>2. ASSUME NEW c \in Calls
        PROVE  Over(c)'
    <2> DEFINE j == JobOf(c)
    <2> SUFFICES ASSUME callStatus[c] \in {"APPROVED", "DENIED"}, BoundToCall(c)'
                 PROVE  \/ LeaseLapsed(j)'
                        \/ status'[j'] \in Terminal
                        \/ callStatus'[c] = "APPROVED" /\ authTtl'[c] >= ttl'[j']
      BY <1>1 DEF Over
    <2>1. j \in Jobs /\ j' = j /\ BoundToCall(c) /\ ttl[j] \in Int
      BY <1>1, BoundBefore DEF Moving
    <2>2. authTtl[c] \in Nat /\ authTtl'[c] = IF authTtl[c] > 0 THEN authTtl[c] - 1 ELSE 0
      BY <1>1, AuthorityAssumption DEF Moving, PolicyInv, PolicyTypeOK
    <2>3. ttl'[j] = IF ttl[j] >= 0 THEN ttl[j] - 1 ELSE -1
      BY <1>1, <2>1
    <2>4. \/ ttl[j] <= 0
          \/ status[j] \in Terminal
          \/ callStatus[c] = "APPROVED" /\ authTtl[c] >= ttl[j]
      BY <2>1 DEF Moving, SteadyInv, Over, LeaseLapsed
    <2>5. \/ ttl'[j] <= 0
          \/ status[j] \in Terminal
          \/ callStatus[c] = "APPROVED" /\ authTtl'[c] >= ttl'[j]
      <3> HIDE DEF j
      <3>1. QED
        BY <2>1, <2>2, <2>3, <2>4
    <2>6. QED
      BY <1>1, <2>1, <2>5 DEF LeaseLapsed
  <1>3. ASSUME NEW c \in Calls, Live(c)
        PROVE  HoldDue(c)'
    BY <1>1, <1>3 DEF Moving, SteadyInv, LiveCall, HoldDue, Held, LastOf, NoneOf, Rivals, JobOf
  <1>4. unavailable' = {}
    BY <1>1 DEF Moving, SteadyInv
  <1>5. QED
    BY <1>1, <1>2, <1>3, <1>4, RowsAloneSteady

LEMMA HubSteady ==
    ASSUME Moving, Crash \/ Open \/ Opened, unavailable' = {}
    PROVE  SteadyInv'
  <1>1. UNCHANGED <<vars, callStatus, call, authTtl, rowOrder>>
    BY DEF Crash, Open, Opened
  <1>2. \A c \in Calls : Over(c)'
    BY <1>1, OverKept DEF Moving, SteadyInv
  <1>3. ASSUME NEW c \in Calls, Live(c)
        PROVE  HoldDue(c)'
    <2>1. Rivals(c)' = Rivals(c) /\ Held(c)' = Held(c)
      BY <1>1 DEF Rivals, Held, JobOf, vars
    <2>2. LiveCall(c)
      BY DEF Moving, SteadyInv
    <2>3. CASE Crash
      BY <2>3 DEF Crash, HoldDue
    <2>4. CASE Open
      <3>1. LastOf(rowOrder, c, Rivals(c))
        BY <1>3, <2>2 DEF LiveCall
      <3>2. LastOf(todo', c, Rivals(c)') /\ hub' = "opening"
        BY <2>1, <2>4, <3>1 DEF Open, RowsToReconcile
      <3>3. QED
        BY <3>2 DEF HoldDue, LastOf
    <2>5. CASE Opened
      <3>1. ~LastOf(todo, c, Rivals(c))
        BY <2>5 DEF Opened, LastOf
      <3>2. Held(c)
        BY <1>3, <2>2, <2>5, <3>1 DEF LiveCall, HoldDue, Opened
      <3>3. QED
        BY <2>1, <2>5, <3>2 DEF HoldDue, Opened
    <2>6. QED
      BY <2>3, <2>4, <2>5
  <1>4. QED
    BY <1>1, <1>2, <1>3, RowsAloneSteady

LEMMA JobStepSteady ==
    ASSUME Moving, NEW j \in Jobs, JobStep(j), hub = "up", UNCHANGED policyVars
    PROVE  SteadyInv'
  <1>1. UNCHANGED <<callStatus, call, authTtl, rowOrder, hub, todo, unavailable>>
    BY DEF policyVars
  <1>2. \A c \in Calls : Over(c)'
    BY <1>1, OverKept DEF Moving, SteadyInv
  <1>3. ASSUME NEW c \in Calls, Live(c), Live(c)'
        PROVE  HoldDue(c)'
    <2>1. /\ callStatus[c] = "WAIT_APPROVAL" /\ BoundToCall(c)'
          /\ status'[JobOf(c)'] \notin Terminal
      BY <1>3 DEF Live, StillHeldByLease
    <2>2. JobOf(c) \in Jobs /\ JobOf(c)' = JobOf(c) /\ BoundToCall(c)
      BY <1>1, <2>1, BoundBefore DEF Moving
    <2>3. status[JobOf(c)] = "WAIT_APPROVAL" /\ tool[JobOf(c)] = "agent"
      BY <1>3, <2>2 DEF Moving, SteadyInv, LiveCall, HoldDue, Held, BoundToCall
    <2>4. status'[JobOf(c)] \in {"WAIT_APPROVAL", "CANCELLED"}
      BY <2>2, <2>3, HeldAgentStays DEF Moving, PolicyInv, PolicyTypeOK
    <2>5. QED
      BY <1>1, <2>1, <2>2, <2>4 DEF HoldDue, Held, Terminal
  <1>4. unavailable' = {}
    BY <1>1 DEF Moving, SteadyInv
  <1>5. QED
    BY <1>1, <1>2, <1>3, <1>4, RowsAloneSteady

-----------------------------------------------------------------------------
LEMMA SteadyStep ==
    ASSUME AuthorityTicks >= LeaseTicks, PolicyInv, SteadyInv, [PolicyNext]_allVars,
           unavailable' = {}
    PROVE  SteadyInv'
  <1>1. CASE UNCHANGED allVars
    BY <1>1 DEF allVars, vars, policyVars, SteadyInv, OneLiveCall, Over, LiveCall, Live,
       StillHeldByLease, BoundToCall, LeaseLapsed, JobOf, HoldDue, Held, Rivals, LastOf, NoneOf
  <1>2. CASE PolicyNext
    <2>1. Moving /\ TypeOK'
      BY <1>2, JobsMove, StepSimulation, StepInv DEF Moving, PolicyInv, IInv
    <2>2. ASSUME NEW c \in Calls, CallStep(c) \/ OpenStep(c)
          PROVE  SteadyInv'
      <3>1. ~\E j \in Jobs, l \in 1..MaxLease, name \in ToolNames : ProposeUnavailable(c, j, l, name)
        BY DEF SteadyInv, ProposeUnavailable
      <3>2. Steadily(c)
        BY <2>1, <2>2, <3>1, ReevaluateSteadily, ClearCallSteadily, ClearCallTooLateSteadily,
           ProposeReadSteadily, ProposeGuardedSteadily, RestoreHoldSteadily,
           CompleteClearanceSteadily, DenyRowSteadily, SkipRowSteadily DEF CallStep, OpenStep
      <3>3. QED
        BY <2>1, <2>2, <3>2, CallStepEffect, SteadyCallStep
    <2>3. QED
      BY <1>2, <2>1, <2>2, TickSteady, HubSteady, JobStepSteady DEF PolicyNext
  <1>3. QED
    BY <1>1, <1>2

(***************************************************************************)
(* While every start finds every tool, and an authorization may last as    *)
(* long as a lease (TOOL_AUTHORITY_MS and LEASE_MS are both five minutes), *)
(* a Hub that serves requests holds every open job the Owner is asked      *)
(* about, through any number of crashes and starts.                        *)
(***************************************************************************)
THEOREM SteadyCallsHoldJobs ==
    ASSUME AuthorityTicks >= LeaseTicks
    PROVE  MCSpec => []SteadyCallHoldsJob
  <1> DEFINE Inv == PolicyInv /\ (setting = "steady" => SteadyInv)
  <1>1. MCInit => Inv
    <2> SUFFICES ASSUME MCInit
                 PROVE  Inv
      OBVIOUS
    <2>1. PolicyInv
      BY PolicyInitInv DEF MCInit
    <2>2. \A c \in Calls : callStatus[c] = "NONE"
      BY DEF MCInit, PolicyInit
    <2>3. setting = "steady" => SteadyInv
      BY <2>2 DEF MCInit, SteadyInv, OneLiveCall, Over, LiveCall, Live
    <2>4. QED
      BY <2>1, <2>3
  <1>2. Inv /\ [MCNext]_settingVars => Inv'
    <2> SUFFICES ASSUME Inv, [MCNext]_settingVars
                 PROVE  Inv'
      OBVIOUS
    <2>1. setting' = setting /\ [PolicyNext]_allVars
      BY DEF MCNext, settingVars
    <2>2. PolicyInv'
      BY <2>1, PolicyStepInv
    <2>3. setting = "steady" => unavailable' = {}
      BY DEF MCNext, Within, settingVars, allVars, policyVars, SteadyInv
    <2>4. QED
      BY <2>1, <2>2, <2>3, SteadyStep
  <1>3. Inv => SteadyCallHoldsJob
    BY DEF SteadyInv, LiveCall, HoldDue, Held, Live, SteadyCallHoldsJob, PendingCallHoldsJob
  <1>4. QED
    BY <1>1, <1>2, <1>3, PTL DEF MCSpec
===============================================================================
