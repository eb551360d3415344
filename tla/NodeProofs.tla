------------------------------ MODULE NodeProofs ------------------------------
(***************************************************************************)
(* What holds on a node, for any bounds: the model tokens the broker gives *)
(* out for its job, the one container a professional job is run in, the    *)
(* device key, the list of workspaces, and the releases its scripts        *)
(* install.                                                                *)
(***************************************************************************)
EXTENDS ModelAccess, SandboxJob, NodeEnrolment, WorkspaceList, NodeRelease,
        FiniteSetTheorems, TLAPS

(***************************************************************************)
(* The broker.  Its maps agree only because a grant is kept under its own  *)
(* request and pruned from both maps at once.                              *)
(***************************************************************************)
Grant == [request : AccessRequests, lease : 1..LastLease, until : Int]

BrokerType ==
    /\ maTick \in 0..LastTick
    /\ maJob \in [status : {"active", "held", "waiting", "ended"}, lease : 1..LastLease, ends : Nat]
    /\ maTokens \subseteq Grant
    /\ DOMAIN maByRequest = AccessRequests
    /\ \A g \in maTokens : g.until <= LastTick + TokenTtl

KeptUnderRequest ==
    \A r \in AccessRequests : maByRequest[r] \in maTokens => maByRequest[r].request = r

\* A call is let through under the lease the job has, and its own lease never changes.
CallsOfTheirLease == \A call \in maCalls : call.token.lease = call.lease

BrokerInv == BrokerType /\ KeptUnderRequest /\ OneTokenPerRequest /\ CallsOfTheirLease

LEMMA WithoutKeeps ==
    ASSUME BrokerType, KeptUnderRequest, OneTokenPerRequest, NEW gone \in SUBSET maTokens,
           Without(gone)
    PROVE  /\ maTokens' \subseteq maTokens
           /\ DOMAIN maByRequest' = AccessRequests
           /\ \A g \in maTokens' : maByRequest'[g.request] = g
           /\ \A r \in AccessRequests :
                /\ maByRequest'[r] \in maTokens' \union {NoGrant}
                /\ maByRequest'[r] \in maTokens' => maByRequest'[r].request = r
  <1>1. /\ maTokens' = maTokens \ gone
        /\ maByRequest' = [r \in AccessRequests |->
                             IF \E g \in gone : g.request = r THEN NoGrant ELSE maByRequest[r]]
    BY DEF Without
  <1>2. \A g \in maTokens : g.request \in AccessRequests /\ maByRequest[g.request] = g
    BY DEF BrokerType, Grant, OneTokenPerRequest
  <1>3. NoGrant \notin maTokens
    BY ModelAccessAssumption DEF BrokerType, Grant, NoGrant
  <1>4. \A g \in maTokens' : maByRequest'[g.request] = g
    BY <1>1, <1>2
  <1>5. ASSUME NEW r \in AccessRequests
        PROVE  /\ maByRequest'[r] \in maTokens' \union {NoGrant}
               /\ maByRequest'[r] \in maTokens' => maByRequest'[r].request = r
    BY <1>1, <1>3 DEF KeptUnderRequest, OneTokenPerRequest
  <1>6. QED
    BY <1>1, <1>4, <1>5

LEMMA SameJobInv ==
    ASSUME BrokerInv, NEW gone \in SUBSET maTokens, Without(gone), maTick' \in 0..LastTick,
           maJob' \in [status : {"active", "held", "waiting", "ended"}, lease : 1..LastLease, ends : Nat],
           maJob'.status = "ended" => maTokens' = {}, CallsOfTheirLease'
    PROVE  BrokerInv'
  BY WithoutKeeps DEF BrokerInv, BrokerType, KeptUnderRequest, OneTokenPerRequest, NoGrant

LEMMA IssueInv ==
    ASSUME BrokerInv, NEW r \in AccessRequests, NEW l \in 1..LastLease, Issue(r, l)
    PROVE  BrokerInv'
  <1> DEFINE grant == [request |-> r, lease |-> l, until |-> Smaller(maTick + TokenTtl, maJob.ends)]
  <1> USE DEF BrokerInv
  <1>1. UNCHANGED <<maTick, maJob>> /\ CallsOfTheirLease'
    BY DEF Issue, CallsOfTheirLease
  <1>2. CASE Without(Expired)
    <2>1. Expired \in SUBSET maTokens
      BY DEF Expired
    <2>2. maTokens' \subseteq maTokens
      BY <1>2, <2>1, WithoutKeeps
    <2>3. QED
      BY <1>1, <1>2, <2>1, <2>2, SameJobInv DEF BrokerType, OneTokenPerRequest
  <1>3. CASE /\ ~AlreadyGranted(r) /\ ActiveLease(l)
             /\ maTokens' = (maTokens \ Expired) \union {grant}
             /\ maByRequest' = [q \in AccessRequests |->
                  IF q = r THEN grant ELSE IF maByRequest[q] \in Expired THEN NoGrant ELSE maByRequest[q]]
    <2>1. maTick \in Nat /\ TokenTtl \in Nat /\ LastTick \in Nat /\ maJob.ends \in Nat
      BY ModelAccessAssumption DEF BrokerType
    <2>2. grant \in Grant /\ grant.until <= LastTick + TokenTtl
      <3>1. grant.until \in Int /\ grant.until <= maTick + TokenTtl
        BY <2>1 DEF Smaller
      <3>2. maTick <= LastTick
        BY DEF BrokerType
      <3> DEFINE u == grant.until
      <3>3. u <= LastTick + TokenTtl
        <4> HIDE DEF u, grant
        <4>1. QED
          BY <2>1, <3>1, <3>2 DEF u
      <3>4. QED
        BY <3>1, <3>3 DEF Grant
    <2>3. BrokerType'
      BY <1>1, <1>3, <2>2 DEF BrokerType
    <2>4. \A g \in maTokens : g.request \in AccessRequests /\ maByRequest[g.request] = g
      BY DEF BrokerType, Grant, OneTokenPerRequest
    <2>5. \A g \in maTokens \ Expired : g.request # r
      BY <1>3, <2>4 DEF AlreadyGranted
    <2>6. grant.request = r
      OBVIOUS
    <2> HIDE DEF grant
    <2>7. \A g \in maTokens' : maByRequest'[g.request] = g
      <3> SUFFICES ASSUME NEW g \in maTokens'
                   PROVE  maByRequest'[g.request] = g
        OBVIOUS
      <3>1. CASE g = grant
        BY <1>3, <2>6, <3>1
      <3>2. CASE g \in maTokens \ Expired
        BY <1>3, <2>4, <2>5, <3>2
      <3>3. QED
        BY <1>3, <3>1, <3>2
    <2>8. NoGrant \notin maTokens'
      <3>1. NoGrant \notin Grant
        BY ModelAccessAssumption DEF Grant, NoGrant
      <3>2. QED
        BY <2>3, <3>1 DEF BrokerType
    <2>9. \A q \in AccessRequests :
             /\ maByRequest'[q] \in maTokens' \union {NoGrant}
             /\ maByRequest'[q] \in maTokens' => maByRequest'[q].request = q
      <3> SUFFICES ASSUME NEW q \in AccessRequests
                   PROVE  /\ maByRequest'[q] \in maTokens' \union {NoGrant}
                          /\ maByRequest'[q] \in maTokens' => maByRequest'[q].request = q
        OBVIOUS
      <3>1. CASE q = r
        BY <1>3, <2>6, <3>1
      <3>2. CASE q # r /\ maByRequest[q] \in Expired
        BY <1>3, <2>8, <3>2
      <3>3. CASE q # r /\ maByRequest[q] \notin Expired
        <4>1. maByRequest'[q] = maByRequest[q] /\ maByRequest[q] \in maTokens \union {NoGrant}
          BY <1>3, <3>3 DEF OneTokenPerRequest
        <4>2. CASE maByRequest[q] \in maTokens
          BY <1>3, <3>3, <4>1, <4>2 DEF KeptUnderRequest
        <4>3. CASE maByRequest[q] = NoGrant
          BY <2>8, <4>1, <4>3
        <4>4. QED
          BY <4>1, <4>2, <4>3
      <3>4. QED
        BY <3>1, <3>2, <3>3
    <2>10. maJob'.status # "ended"
      BY <1>1, <1>3 DEF ActiveLease
    <2>11. OneTokenPerRequest'
      BY <2>7, <2>9, <2>10 DEF OneTokenPerRequest, NoGrant
    <2>12. KeptUnderRequest'
      BY <2>9 DEF KeptUnderRequest
    <2>13. QED
      BY <1>1, <2>3, <2>11, <2>12
  <1>4. QED
    BY <1>2, <1>3 DEF Issue

LEMMA BrokerInitInv == MAInit => BrokerInv
  BY ModelAccessAssumption
  DEF MAInit, BrokerInv, BrokerType, KeptUnderRequest, OneTokenPerRequest, CallsOfTheirLease

LEMMA BrokerStepInv == BrokerInv /\ [MANext]_maVars => BrokerInv'
  <1> SUFFICES ASSUME BrokerInv, [MANext]_maVars
               PROVE  BrokerInv'
    OBVIOUS
  <1> USE DEF BrokerInv
  <1>1. ASSUME NEW r \in AccessRequests, NEW l \in 1..LastLease, Issue(r, l)
        PROVE  BrokerInv'
    BY <1>1, IssueInv
  <1>2. ASSUME NEW g \in maTokens, Authorize(g)
        PROVE  BrokerInv'
    <2>1. Expired \in SUBSET maTokens /\ Without(Expired) /\ UNCHANGED <<maTick, maJob>>
      BY <1>2 DEF Authorize, Expired
    <2>2. maTokens' \subseteq maTokens
      BY <2>1, WithoutKeeps
    <2>3. CallsOfTheirLease'
      <3>1. CASE g \notin Expired /\ ActiveLease(g.lease)
        <4>1. maCalls' = maCalls \union {[token |-> g, lease |-> maJob.lease, sent |-> FALSE]} /\ maJob.lease = g.lease
          BY <1>2, <3>1 DEF Authorize, LetThrough, ActiveLease
        <4>2. QED
          BY <4>1 DEF CallsOfTheirLease
      <3>2. CASE ~(g \notin Expired /\ ActiveLease(g.lease))
        <4>1. maCalls' = maCalls
          BY <1>2, <3>2 DEF Authorize
        <4>2. QED
          BY <4>1 DEF CallsOfTheirLease
      <3>3. QED
        BY <3>1, <3>2
    <2>4. QED
      BY <2>1, <2>2, <2>3, SameJobInv DEF BrokerType, OneTokenPerRequest
  <1>3. ASSUME NEW call \in maCalls, Forward(call) \/ Finish(call)
        PROVE  BrokerInv'
    <2>1. CallsOfTheirLease'
      <3>1. CASE Forward(call)
        <4> DEFINE sent == [call EXCEPT !.sent = TRUE]
        <4>1. maCalls' = (maCalls \ {call}) \union {sent} /\ sent.token = call.token /\ sent.lease = call.lease
          BY <3>1 DEF Forward
        <4> HIDE DEF sent
        <4>2. QED
          BY <4>1 DEF CallsOfTheirLease
      <3>2. CASE Finish(call)
        BY <3>2 DEF Finish, CallsOfTheirLease
      <3>3. QED
        BY <1>3, <3>1, <3>2
    <2>2. UNCHANGED <<maTick, maJob, maTokens, maByRequest>>
      BY <1>3 DEF Forward, Finish
    <2>3. QED
      BY <2>1, <2>2 DEF BrokerType, KeptUnderRequest, OneTokenPerRequest
  <1>4. ASSUME NEW s \in {"held", "ended"}, Revoke(s)
        PROVE  BrokerInv'
    <2>1. Without(maTokens) /\ maTokens' = {} /\ UNCHANGED maTick
      BY <1>4 DEF Revoke, Without
    <2>2. maJob' \in [status : {"active", "held", "waiting", "ended"}, lease : 1..LastLease, ends : Nat]
      BY <1>4 DEF Revoke, BrokerType
    <2>3. CallsOfTheirLease'
      BY <1>4 DEF Revoke, CallsOfTheirLease
    <2>4. QED
      BY <2>1, <2>2, <2>3, SameJobInv DEF BrokerType
  <1>5. CASE ReportWaiting \/ Release \/ NewLease
    <2>1. /\ maJob' \in [status : {"active", "held", "waiting", "ended"}, lease : 1..LastLease, ends : Nat]
          /\ maJob'.status # "ended"
      <3>1. maTick \in Nat /\ LeaseTerm \in Nat /\ LastLease \in Nat
        BY ModelAccessAssumption DEF BrokerType
      <3>2. CASE ReportWaiting \/ Release
        BY <3>2 DEF ReportWaiting, Release, BrokerType
      <3>3. CASE NewLease
        <4>1. maJob' = [maJob EXCEPT !.status = "active", !.lease = @ + 1, !.ends = maTick + LeaseTerm]
          BY <3>3 DEF NewLease, Renewed
        <4>2. maJob.lease + 1 \in 1..LastLease /\ maTick + LeaseTerm \in Nat
          BY <3>1, <3>3 DEF NewLease, BrokerType
        <4>3. QED
          BY <4>1, <4>2 DEF BrokerType
      <3>4. QED
        BY <1>5, <3>2, <3>3
    <2>2. UNCHANGED <<maTick, maTokens, maByRequest, maCalls>>
      BY <1>5 DEF ReportWaiting, Release, NewLease
    <2>3. QED
      BY <2>1, <2>2 DEF BrokerType, KeptUnderRequest, OneTokenPerRequest, CallsOfTheirLease
  <1>6. CASE TickMA
    <2>1. maTick' \in 0..LastTick
      BY <1>6, ModelAccessAssumption DEF TickMA, BrokerType
    <2>2. QED
      BY <1>6, <2>1 DEF TickMA, BrokerType, KeptUnderRequest, OneTokenPerRequest, CallsOfTheirLease
  <1>7. CASE RestartMA
    BY <1>7 DEF RestartMA, BrokerType, KeptUnderRequest, OneTokenPerRequest, CallsOfTheirLease
  <1>8. CASE UNCHANGED maVars
    BY <1>8 DEF maVars, BrokerType, KeptUnderRequest, OneTokenPerRequest, CallsOfTheirLease
  <1>9. QED
    BY <1>1, <1>2, <1>3, <1>4, <1>5, <1>6, <1>7, <1>8 DEF MANext

(***************************************************************************)
(* A request has one token at a time, every token can be revoked by its    *)
(* request, a job that ended has none, and no call was let through with a  *)
(* token of a lease the job no longer had.                                 *)
(***************************************************************************)
THEOREM TokensAreRevocable == MASpec => [](MATypeOK /\ AccessFollowsJob)
  <1>1. BrokerInv => MATypeOK /\ AccessFollowsJob
    BY DEF BrokerInv, BrokerType, MATypeOK, AccessFollowsJob, CallsOfTheirLease
  <1>2. QED
    BY <1>1, BrokerInitInv, BrokerStepInv, PTL DEF MASpec

-----------------------------------------------------------------------------
(***************************************************************************)
(* The professional job.  The worktree is what makes the run the only one: *)
(* it exists from the first preparation on, and a Runner that finds it     *)
(* does not ask for a container.  What the Runner still has to upload says *)
(* what the Hub already keeps, and the tree no longer changes then because *)
(* the container is over.                                                  *)
(***************************************************************************)
BeforeRun == {"running", "access", "execute"}
AfterOkRun == {"diff", "upload diff", "name diff", "upload evidence", "name evidence", "success"}

HasDiff == "diff" \in sjHub.stored \intersect sjHub.named
HasEvidence == "evidence" \in sjHub.stored \intersect sjHub.named

OneContainer ==
    /\ sjRuns <= 1
    /\ sjTree = "absent" => sjRuns = 0
    /\ sjRunner.at \in BeforeRun => sjRuns = 0 /\ sjTree # "absent"
    /\ sjRunner.at = "wait" => sjRuns = 1
    /\ sjRun.heard => sjRunner.at = "wait"
    /\ sjRunner.at \in AfterOkRun \union {"output"} => sjRuns = 1 /\ sjRun.at = "over"
    /\ sjRunner.at \in AfterOkRun => sjRun.ok

ArtifactsFollow ==
    /\ sjRunner.at = "name diff" => "diff" \in sjHub.stored
    /\ sjRunner.at \in {"upload evidence", "name evidence"} => HasDiff
    /\ sjRunner.at = "name evidence" => "evidence" \in sjHub.stored
    /\ sjRunner.at = "success" /\ sjTree = "changed" => HasDiff /\ HasEvidence

SandboxInv == SandboxTypeOK /\ OneContainer /\ ArtifactsFollow /\ SuccessIsOfOneRun

HubRow ==
    [state : Terminal \union {"DISPATCHED", "RUNNING", "RECONCILING"}, lease : 1..MaxSandboxLease,
     live : BOOLEAN, last : Int, stored : SUBSET {"diff", "evidence"},
     named : SUBSET {"diff", "evidence"}]
RunnerRow == [at : RunnerPlaces, lease : 0..MaxSandboxLease, seq : Nat]

(***************************************************************************)
(* What a request to the Hub may leave: the row the Hub answered, whether  *)
(* or not the answer arrived, and the Runner one step further or resting.  *)
(***************************************************************************)
Asked(at, next, hub) ==
    /\ sjRunner.at = at
    /\ UNCHANGED <<sjTree, sjRun, sjRuns, sjDaemon>>
    /\ sjRunner' \in RunnerRow /\ sjFaults' \in 0..MaxSandboxFaults
    /\ \/ sjHub' = hub /\ sjRunner'.at \in {next, "error", "idle"}
       \/ sjHub' = sjHub /\ sjRunner'.at \in {"error", "idle"}

LEMMA RestingFacts == Resting \in RunnerRow /\ Resting.at = "idle"
  <1>1. "idle" \in RunnerPlaces
    BY DEF RunnerPlaces
  <1>2. 0 \in 0..MaxSandboxLease
    BY SandboxJobAssumption
  <1>3. QED
    BY <1>1, <1>2 DEF Resting, RunnerRow

LEMMA FailFacts ==
    ASSUME NEW runner \in RunnerRow
    PROVE  Fail(runner) \in RunnerRow /\ Fail(runner).at \in {"error", "idle"}
  <1>1. Resting \in RunnerRow /\ Resting.at = "idle"
    BY RestingFacts
  <1>2. [runner EXCEPT !.at = "error"] \in RunnerRow /\ [runner EXCEPT !.at = "error"].at = "error"
    BY DEF RunnerRow, RunnerPlaces
  <1>3. QED
    BY <1>1, <1>2 DEF Fail

LEMMA FaultFacts ==
    ASSUME SandboxTypeOK, UNCHANGED sjFaults \/ SandboxFault
    PROVE  sjFaults' \in 0..MaxSandboxFaults
  BY SandboxJobAssumption DEF SandboxTypeOK, SandboxFault

LEMMA ExchangeAsks ==
    ASSUME SandboxTypeOK, NEW at, NEW next \in RunnerPlaces, NEW allowed, NEW hub,
           NEW runner \in RunnerRow, Exchange(at, next, allowed, hub, runner)
    PROVE  /\ Asked(at, next, hub)
           /\ sjHub' = sjHub \/ allowed
  <1>1. sjFaults' \in 0..MaxSandboxFaults
    BY FaultFacts DEF Exchange
  <1>2. Resting \in RunnerRow /\ Resting.at = "idle"
    BY RestingFacts
  <1>3. [runner EXCEPT !.at = next] \in RunnerRow /\ [runner EXCEPT !.at = next].at = next
    BY DEF RunnerRow
  <1>4. \/ /\ allowed /\ sjHub' = hub
           /\ sjRunner' = IF next = "idle" THEN Resting ELSE [runner EXCEPT !.at = next]
        \/ allowed /\ sjHub' = hub /\ sjRunner' = Fail(runner)
        \/ sjHub' = sjHub /\ sjRunner' = Fail(runner)
    BY DEF Exchange
  <1>5. Fail(runner) \in RunnerRow /\ Fail(runner).at \in {"error", "idle"}
    BY FailFacts
  <1>6. sjRunner.at = at /\ UNCHANGED <<sjTree, sjRun, sjRuns, sjDaemon>>
    BY DEF Exchange
  <1>7. QED
    BY <1>1, <1>2, <1>3, <1>4, <1>5, <1>6 DEF Asked

LEMMA EventAsks ==
    ASSUME SandboxTypeOK, NEW at, NEW next \in RunnerPlaces, NEW allowed, NEW hub,
           SendEvent(at, next, allowed, hub)
    PROVE  /\ Asked(at, next, [hub EXCEPT !.last = sjRunner.seq])
           /\ sjHub' = sjHub \/ allowed
  <1>1. [sjRunner EXCEPT !.seq = @ + 1] \in RunnerRow
    BY DEF SandboxTypeOK, RunnerRow
  <1>2. QED
    BY <1>1, ExchangeAsks DEF SendEvent

(***************************************************************************)
(* A request keeps the invariant when it goes from one stage to the next   *)
(* and takes nothing from the Hub.                                         *)
(***************************************************************************)
Onwards(at, next) ==
    /\ at # "wait" /\ next \notin {"wait", "output"}
    /\ next \in BeforeRun => at \in BeforeRun
    /\ next \in AfterOkRun => at \in AfterOkRun \/ (at = "output" /\ sjRun.ok)

LEMMA AskedInv ==
    ASSUME SandboxInv, NEW at, NEW next, NEW hub \in HubRow, Asked(at, next, hub),
           Onwards(at, next),
           sjHub.stored \subseteq hub.stored, sjHub.named \subseteq hub.named,
           hub.state = "SUCCEEDED" => sjHub.state = "SUCCEEDED" \/ at = "success",
           sjHub' = hub /\ sjRunner'.at = next => ArtifactsFollow'
    PROVE  SandboxInv'
  <1>1. SandboxTypeOK'
    BY DEF SandboxInv, SandboxTypeOK, Asked, HubRow, RunnerRow
  <1>2. OneContainer'
    BY DEF SandboxInv, OneContainer, Asked, Onwards, BeforeRun, AfterOkRun
  <1>3. ArtifactsFollow'
    <2>1. CASE sjRunner'.at \in {"error", "idle"}
      BY <2>1 DEF ArtifactsFollow
    <2>2. QED
      BY <2>1 DEF Asked
  <1>4. SuccessIsOfOneRun'
    <2>1. UNCHANGED <<sjTree, sjRun, sjRuns>> /\ sjRunner.at = at
      BY DEF Asked
    <2>2. sjHub.stored \subseteq sjHub'.stored /\ sjHub.named \subseteq sjHub'.named
      BY DEF Asked
    <2>3. sjHub'.state = "SUCCEEDED" => sjHub.state = "SUCCEEDED" \/ sjRunner.at = "success"
      BY DEF Asked
    <2>4. sjRunner.at = "success" =>
             /\ sjRuns = 1 /\ sjRun.at = "over" /\ sjRun.ok
             /\ sjTree = "changed" => {"diff", "evidence"} \subseteq sjHub.stored \intersect sjHub.named
      BY DEF SandboxInv, OneContainer, AfterOkRun, ArtifactsFollow, HasDiff, HasEvidence
    <2>5. QED
      BY <2>1, <2>2, <2>3, <2>4 DEF SandboxInv, SuccessIsOfOneRun
  <1>5. QED
    BY <1>1, <1>2, <1>3, <1>4 DEF SandboxInv

-----------------------------------------------------------------------------
\* The requests of the Runner, one by one.
LEMMA HubRowFacts ==
    ASSUME SandboxTypeOK
    PROVE  /\ sjHub \in HubRow /\ sjRunner \in RunnerRow
           /\ \A st \in Terminal \union {"RUNNING", "RECONCILING"} :
                /\ [sjHub EXCEPT !.state = st] \in HubRow
                /\ [sjHub EXCEPT !.state = st].state = st
                /\ [sjHub EXCEPT !.state = st].stored = sjHub.stored
                /\ [sjHub EXCEPT !.state = st].named = sjHub.named
           /\ \A a \in {"diff", "evidence"} :
                /\ [sjHub EXCEPT !.stored = @ \union {a}] \in HubRow
                /\ [sjHub EXCEPT !.named = @ \union {a}] \in HubRow
  BY DEF SandboxTypeOK, HubRow, RunnerRow

LEMMA LastFacts ==
    ASSUME SandboxTypeOK, NEW hub \in HubRow
    PROVE  /\ [hub EXCEPT !.last = sjRunner.seq] \in HubRow
           /\ [hub EXCEPT !.last = sjRunner.seq].state = hub.state
           /\ [hub EXCEPT !.last = sjRunner.seq].stored = hub.stored
           /\ [hub EXCEPT !.last = sjRunner.seq].named = hub.named
  <1>1. sjRunner.seq \in Int
    BY DEF SandboxTypeOK
  <1>2. QED
    BY <1>1 DEF HubRow

LEMMA ReportStateInv ==
    ASSUME SandboxInv, NEW at, NEW next \in RunnerPlaces,
           NEW st \in Terminal \union {"RUNNING"}, NEW from,
           ReportState(at, next, st, from), Onwards(at, next),
           next \in {"access", "idle"}, st = "SUCCEEDED" => at = "success"
    PROVE  SandboxInv'
  <1> DEFINE row == [sjHub EXCEPT !.state = st]
             hub == [row EXCEPT !.last = sjRunner.seq]
  <1>1. SandboxTypeOK
    BY DEF SandboxInv
  <1>2. row \in HubRow /\ row.state = st /\ row.stored = sjHub.stored /\ row.named = sjHub.named
    BY <1>1, HubRowFacts
  <1>3. Asked(at, next, hub)
    BY <1>1, EventAsks DEF ReportState
  <1> HIDE DEF row
  <1>4. hub \in HubRow /\ hub.state = st /\ hub.stored = sjHub.stored /\ hub.named = sjHub.named
    BY <1>1, <1>2, LastFacts
  <1>5. sjRunner'.at = next => ArtifactsFollow'
    BY DEF ArtifactsFollow
  <1> HIDE DEF hub
  <1>6. QED
    BY <1>3, <1>4, <1>5, AskedInv

\* An artifact is uploaded, or named in an event, on the way to the next one.
LEMMA KeepArtifactInv ==
    ASSUME SandboxInv, NEW at \in AfterOkRun, NEW next \in AfterOkRun, NEW hub \in HubRow,
           Asked(at, next, hub), hub.state = sjHub.state,
           sjHub.stored \subseteq hub.stored, sjHub.named \subseteq hub.named,
           sjHub' = hub /\ sjRunner'.at = next => ArtifactsFollow'
    PROVE  SandboxInv'
  <1>1. "wait" \notin AfterOkRun /\ "output" \notin AfterOkRun
    BY DEF AfterOkRun
  <1>2. next \notin BeforeRun
    BY DEF AfterOkRun, BeforeRun
  <1>3. Onwards(at, next)
    BY <1>1, <1>2 DEF Onwards
  <1>4. QED
    BY <1>3, AskedInv

LEMMA ReportArtifactsInv ==
    ASSUME SandboxInv, ReportArtifacts
    PROVE  SandboxInv'
  <1> USE DEF HasDiff, HasEvidence
  <1> DEFINE stored(a) == [sjHub EXCEPT !.stored = @ \union {a}]
             named(a) == [sjHub EXCEPT !.named = @ \union {a}]
             sent(a) == [named(a) EXCEPT !.last = sjRunner.seq]
  <1>1. SandboxTypeOK /\ sjRunner \in RunnerRow /\ AfterOkRun \subseteq RunnerPlaces
    BY HubRowFacts DEF SandboxInv, AfterOkRun, RunnerPlaces
  <1>2. \A a \in {"diff", "evidence"} :
          /\ stored(a) \in HubRow /\ stored(a).state = sjHub.state
          /\ stored(a).stored = sjHub.stored \union {a} /\ stored(a).named = sjHub.named
    BY <1>1, HubRowFacts DEF SandboxTypeOK
  <1>3. \A a \in {"diff", "evidence"} :
          /\ named(a) \in HubRow /\ named(a).state = sjHub.state
          /\ named(a).stored = sjHub.stored /\ named(a).named = sjHub.named \union {a}
    BY <1>1, HubRowFacts DEF SandboxTypeOK
  <1>4. \A a \in {"diff", "evidence"} :
          /\ sent(a) \in HubRow /\ sent(a).state = sjHub.state
          /\ sent(a).stored = sjHub.stored /\ sent(a).named = sjHub.named \union {a}
    <2> HIDE DEF named
    <2>1. QED
      BY <1>1, <1>3, LastFacts
  <1>5. ASSUME NEW a \in {"diff", "evidence"}, NEW at \in AfterOkRun, NEW next \in AfterOkRun,
               Upload(a, at, next)
        PROVE  Asked(at, next, stored(a))
    BY <1>1, <1>5, ExchangeAsks DEF Upload
  <1>6. ASSUME NEW a \in {"diff", "evidence"}, NEW at \in AfterOkRun, NEW next \in AfterOkRun,
               Name(a, at, next)
        PROVE  Asked(at, next, sent(a))
    BY <1>1, <1>6, EventAsks DEF Name
  <1> HIDE DEF stored, named, sent
  <1>7. CASE Upload("diff", "upload diff", "name diff")
    <2>1. Asked("upload diff", "name diff", stored("diff"))
      BY <1>5, <1>7 DEF AfterOkRun
    <2>2. QED
      BY <1>2, <2>1, KeepArtifactInv DEF AfterOkRun, ArtifactsFollow
  <1>8. CASE Name("diff", "name diff", "upload evidence")
    <2>1. Asked("name diff", "upload evidence", sent("diff"))
      BY <1>6, <1>8 DEF AfterOkRun
    <2>2. "diff" \in sjHub.stored
      BY <2>1 DEF Asked, SandboxInv, ArtifactsFollow
    <2>3. QED
      BY <1>4, <2>1, <2>2, KeepArtifactInv DEF AfterOkRun, ArtifactsFollow
  <1>9. CASE Upload("evidence", "upload evidence", "name evidence")
    <2>1. Asked("upload evidence", "name evidence", stored("evidence"))
      BY <1>5, <1>9 DEF AfterOkRun
    <2>2. HasDiff
      BY <2>1 DEF Asked, SandboxInv, ArtifactsFollow
    <2>3. QED
      BY <1>2, <2>1, <2>2, KeepArtifactInv DEF AfterOkRun, ArtifactsFollow
  <1>10. CASE Name("evidence", "name evidence", "success")
    <2>1. Asked("name evidence", "success", sent("evidence"))
      BY <1>6, <1>10 DEF AfterOkRun
    <2>2. HasDiff /\ "evidence" \in sjHub.stored
      BY <2>1 DEF Asked, SandboxInv, ArtifactsFollow
    <2>3. QED
      BY <1>4, <2>1, <2>2, KeepArtifactInv DEF AfterOkRun, ArtifactsFollow
  <1>11. QED
    BY <1>7, <1>8, <1>9, <1>10 DEF ReportArtifacts

\* Every request of the Runner.
LEMMA RequestInv ==
    ASSUME SandboxInv,
           \/ ReportUnknown \/ ReportRunning \/ AskModelAccess \/ ReportOutput
           \/ ReportArtifacts \/ ReportSuccess \/ ReportError \/ ReportFailure
    PROVE  SandboxInv'
  <1>1. /\ SandboxTypeOK /\ sjHub \in HubRow /\ sjRunner \in RunnerRow
        /\ "idle" \in RunnerPlaces /\ "access" \in RunnerPlaces /\ "execute" \in RunnerPlaces
        /\ "failed" \in RunnerPlaces /\ "error" \in RunnerPlaces /\ "diff" \in RunnerPlaces
    BY HubRowFacts DEF SandboxInv, RunnerPlaces
  <1>2. CASE ReportUnknown
    <2> DEFINE st == IF sjHub.state \in {"RUNNING", "DISPATCHED"} THEN "RECONCILING" ELSE sjHub.state
               hub == [sjHub EXCEPT !.state = IF @ \in {"RUNNING", "DISPATCHED"} THEN "RECONCILING" ELSE @]
    <2>1. /\ hub \in HubRow /\ hub.stored = sjHub.stored /\ hub.named = sjHub.named
          /\ hub.state = "SUCCEEDED" => sjHub.state = "SUCCEEDED"
      BY <1>1 DEF HubRow, Terminal
    <2>2. Asked("reconcile", "idle", hub)
      BY <1>1, <1>2, ExchangeAsks DEF ReportUnknown
    <2>3. Onwards("reconcile", "idle")
      BY DEF Onwards, BeforeRun, AfterOkRun
    <2> HIDE DEF hub
    <2>4. QED
      BY <2>1, <2>2, <2>3, AskedInv DEF ArtifactsFollow
  <1>3. CASE ReportRunning
    <2>1. Onwards("running", "access")
      BY DEF Onwards, BeforeRun, AfterOkRun
    <2>2. QED
      BY <1>1, <1>3, <2>1, ReportStateInv DEF ReportRunning
  <1>4. CASE AskModelAccess
    <2>1. Asked("access", "execute", sjHub)
      BY <1>1, <1>4, ExchangeAsks DEF AskModelAccess
    <2>2. Onwards("access", "execute")
      BY DEF Onwards, BeforeRun, AfterOkRun
    <2>3. QED
      BY <1>1, <2>1, <2>2, AskedInv DEF ArtifactsFollow
  <1>5. CASE ReportOutput
    <2> DEFINE hub == [sjHub EXCEPT !.last = sjRunner.seq]
    <2>1. AfterRun \in {"diff", "error"} /\ AfterRun \in RunnerPlaces
      BY <1>1 DEF AfterRun
    <2>2. Asked("output", AfterRun, hub)
      BY <1>1, <1>5, <2>1, EventAsks DEF ReportOutput
    <2>3. /\ hub \in HubRow /\ hub.state = sjHub.state
          /\ hub.stored = sjHub.stored /\ hub.named = sjHub.named
      BY <1>1, LastFacts
    <2>4. Onwards("output", AfterRun)
      BY DEF Onwards, AfterRun, BeforeRun, AfterOkRun
    <2>5. sjRunner'.at = AfterRun => ArtifactsFollow'
      BY <2>1 DEF ArtifactsFollow
    <2> HIDE DEF hub
    <2>6. QED
      BY <2>2, <2>3, <2>4, <2>5, AskedInv
  <1>6. CASE ReportSuccess
    <2>1. Onwards("success", "idle")
      BY DEF Onwards, BeforeRun, AfterOkRun
    <2>2. "SUCCEEDED" \in Terminal
      BY DEF Terminal
    <2>3. QED
      BY <1>1, <1>6, <2>1, <2>2, ReportStateInv DEF ReportSuccess
  <1>7. CASE ReportError
    <2> DEFINE hub == [sjHub EXCEPT !.last = sjRunner.seq]
    <2>1. Asked("error", "failed", hub)
      BY <1>1, <1>7, EventAsks DEF ReportError
    <2>2. /\ hub \in HubRow /\ hub.state = sjHub.state
          /\ hub.stored = sjHub.stored /\ hub.named = sjHub.named
      BY <1>1, LastFacts
    <2>3. Onwards("error", "failed")
      BY DEF Onwards, BeforeRun, AfterOkRun
    <2> HIDE DEF hub
    <2>4. QED
      BY <2>1, <2>2, <2>3, AskedInv DEF ArtifactsFollow
  <1>8. CASE ReportFailure
    <2>1. Onwards("failed", "idle")
      BY DEF Onwards, BeforeRun, AfterOkRun
    <2>2. "FAILED" \in Terminal
      BY DEF Terminal
    <2>3. QED
      BY <1>1, <1>8, <2>1, <2>2, ReportStateInv DEF ReportFailure
  <1>9. CASE ReportArtifacts
    BY <1>9, ReportArtifactsInv
  <1>10. QED
    BY <1>2, <1>3, <1>4, <1>5, <1>6, <1>7, <1>8, <1>9

-----------------------------------------------------------------------------
\* What the Runner does by itself.
LEMMA AtFacts ==
    ASSUME SandboxTypeOK, NEW at \in RunnerPlaces
    PROVE  [sjRunner EXCEPT !.at = at] \in RunnerRow /\ [sjRunner EXCEPT !.at = at].at = at
  BY DEF SandboxTypeOK, RunnerRow

LEMMA RunnerAloneInv ==
    ASSUME SandboxInv,
           \/ PullSandbox \/ Prepare \/ Execute \/ RunnerTimesOut \/ NothingPrinted
           \/ CollectDiff \/ SandboxRunnerEnds
    PROVE  SandboxInv'
  <1> USE DEF SandboxInv
  <1>1. /\ SandboxTypeOK /\ sjHub \in HubRow /\ sjRunner \in RunnerRow
        /\ Resting \in RunnerRow /\ Resting.at = "idle"
        /\ Fail(sjRunner) \in RunnerRow /\ Fail(sjRunner).at \in {"error", "idle"}
    BY HubRowFacts, RestingFacts, FailFacts
  <1>2. UNCHANGED sjFaults \/ SandboxFault
    BY DEF PullSandbox, Prepare, Execute, RunnerTimesOut, NothingPrinted, CollectDiff,
           SandboxRunnerEnds
  <1>3. sjFaults' \in 0..MaxSandboxFaults
    BY <1>1, <1>2, FaultFacts
  <1>4. CASE PullSandbox
    <2> DEFINE lease == IF sjHub.live THEN sjHub.lease ELSE sjHub.lease + 1
               hub == [sjHub EXCEPT !.lease = lease, !.live = TRUE]
               puller == [Resting EXCEPT !.at = "prepare", !.lease = lease]
    <2>1. lease \in 1..MaxSandboxLease
      <3>1. sjHub.lease \in 1..MaxSandboxLease /\ MaxSandboxLease \in Nat
        BY <1>1, SandboxJobAssumption DEF HubRow
      <3>2. sjHub.live \/ sjHub.lease < MaxSandboxLease
        BY <1>4 DEF PullSandbox
      <3>3. QED
        BY <3>1, <3>2
    <2>2. sjHub' = hub /\ (sjRunner' = puller \/ sjRunner' = sjRunner) /\ sjRunner.at = "idle"
          /\ UNCHANGED <<sjTree, sjRun, sjRuns, sjDaemon>>
      BY <1>4 DEF PullSandbox
    <2> HIDE DEF lease
    <2>3. /\ hub \in HubRow /\ hub.state = sjHub.state
          /\ hub.stored = sjHub.stored /\ hub.named = sjHub.named
      BY <1>1, <2>1 DEF HubRow
    <2>4. puller \in RunnerRow /\ puller.at = "prepare"
      <3>1. lease \in 0..MaxSandboxLease /\ "prepare" \in RunnerPlaces
        BY <2>1, SandboxJobAssumption DEF RunnerPlaces
      <3>2. QED
        BY <1>1, <3>1 DEF RunnerRow
    <2> HIDE DEF hub, puller
    <2>5. SandboxTypeOK'
      BY <1>3, <2>2, <2>3, <2>4 DEF SandboxTypeOK, HubRow, RunnerRow
    <2>6. sjRunner'.at \in {"prepare", "idle"}
      BY <2>2, <2>4
    <2>7. OneContainer' /\ ArtifactsFollow' /\ SuccessIsOfOneRun'
      BY <2>2, <2>3, <2>6
      DEF OneContainer, BeforeRun, AfterOkRun, ArtifactsFollow, SuccessIsOfOneRun
    <2>8. QED
      BY <2>5, <2>7
  <1>5. CASE Prepare
    <2>1. \/ /\ sjTree = "absent" /\ sjTree' = "clean"
             /\ sjRunner' = [sjRunner EXCEPT !.at = "running"]
          \/ /\ sjTree # "absent" /\ UNCHANGED sjTree
             /\ sjRunner' = [sjRunner EXCEPT !.at = "reconcile"]
      BY <1>5 DEF Prepare, Onward
    <2>2. "running" \in RunnerPlaces /\ "reconcile" \in RunnerPlaces
      BY DEF RunnerPlaces
    <2>3. /\ sjRunner' \in RunnerRow /\ sjRunner.at = "prepare"
          /\ \/ sjRunner'.at = "running" /\ sjTree = "absent" /\ sjTree' = "clean"
             \/ sjRunner'.at = "reconcile" /\ sjTree' = sjTree
          /\ UNCHANGED <<sjHub, sjRun, sjRuns, sjDaemon>>
      BY <1>1, <1>5, <2>1, <2>2, AtFacts DEF Prepare
    <2>4. SandboxTypeOK'
      BY <1>1, <1>3, <2>3 DEF SandboxTypeOK, HubRow, RunnerRow
    <2>5. OneContainer' /\ ArtifactsFollow' /\ SuccessIsOfOneRun'
      BY <2>3 DEF OneContainer, BeforeRun, AfterOkRun, ArtifactsFollow, SuccessIsOfOneRun
    <2>6. QED
      BY <2>4, <2>5
  <1>6. CASE Execute
    <2>1. sjRunner.at = "execute" /\ UNCHANGED <<sjHub, sjTree, sjDaemon>>
      BY <1>6 DEF Execute
    <2>2. sjRuns = 0 /\ sjTree # "absent" /\ sjHub.state # "SUCCEEDED"
      BY <2>1 DEF OneContainer, BeforeRun, SuccessIsOfOneRun
    <2>3. CASE sjDaemon
      <3>1. /\ sjRun' = [NoRun EXCEPT !.at = "asked", !.heard = TRUE] /\ sjRuns' = 1
            /\ sjRunner' = [sjRunner EXCEPT !.at = "wait"]
        BY <1>6, <2>2, <2>3 DEF Execute, Onward
      <3>2. sjRunner' \in RunnerRow /\ sjRunner'.at = "wait"
        BY <1>1, <3>1, AtFacts DEF RunnerPlaces
      <3>3. SandboxTypeOK'
        BY <1>1, <1>3, <2>1, <3>1, <3>2 DEF SandboxTypeOK, HubRow, RunnerRow, NoRun
      <3>4. OneContainer' /\ ArtifactsFollow' /\ SuccessIsOfOneRun'
        BY <2>1, <2>2, <3>1, <3>2
        DEF OneContainer, BeforeRun, AfterOkRun, ArtifactsFollow, SuccessIsOfOneRun
      <3>5. QED
        BY <3>3, <3>4
    <2>4. CASE ~sjDaemon
      <3>1. sjRunner' = Fail(sjRunner) /\ UNCHANGED <<sjRun, sjRuns>>
        BY <1>6, <2>4 DEF Execute
      <3>2. SandboxTypeOK'
        BY <1>1, <1>3, <2>1, <3>1 DEF SandboxTypeOK, HubRow, RunnerRow
      <3>3. OneContainer' /\ ArtifactsFollow' /\ SuccessIsOfOneRun'
        BY <1>1, <2>1, <2>2, <3>1
        DEF OneContainer, BeforeRun, AfterOkRun, ArtifactsFollow, SuccessIsOfOneRun
      <3>4. QED
        BY <3>2, <3>3
    <2>5. QED
      BY <2>3, <2>4
  <1>7. CASE RunnerTimesOut \/ SandboxRunnerEnds
    <2>1. /\ sjRunner' \in RunnerRow /\ sjRunner'.at \in {"error", "idle"}
          /\ sjRun' = [sjRun EXCEPT !.heard = FALSE]
          /\ UNCHANGED <<sjHub, sjTree, sjRuns, sjDaemon>>
      BY <1>1, <1>7 DEF RunnerTimesOut, SandboxRunnerEnds
    <2>2. SandboxTypeOK'
      BY <1>1, <1>3, <2>1 DEF SandboxTypeOK, HubRow, RunnerRow
    <2>3. ~sjRun'.heard /\ sjRun'.at = sjRun.at /\ sjRun'.ok = sjRun.ok
      BY <1>1, <2>1 DEF SandboxTypeOK
    <2>4. OneContainer' /\ ArtifactsFollow' /\ SuccessIsOfOneRun'
      BY <2>1, <2>3 DEF OneContainer, BeforeRun, AfterOkRun, ArtifactsFollow, SuccessIsOfOneRun
    <2>5. QED
      BY <2>2, <2>4
  <1>8. CASE NothingPrinted \/ CollectDiff
    <2>1. /\ UNCHANGED <<sjHub, sjTree, sjRun, sjRuns, sjDaemon>>
          /\ \/ /\ sjRunner.at = "output" /\ sjRun.ok
                /\ sjRunner' = [sjRunner EXCEPT !.at = "diff"]
             \/ /\ sjRunner.at = "output" /\ sjRunner' = [sjRunner EXCEPT !.at = "error"]
             \/ /\ sjRunner.at = "diff" /\ sjTree = "clean"
                /\ sjRunner' = [sjRunner EXCEPT !.at = "success"]
             \/ /\ sjRunner.at = "diff" /\ sjRunner' = [sjRunner EXCEPT !.at = "upload diff"]
      BY <1>8 DEF NothingPrinted, CollectDiff, AfterRun, Onward
    <2>2. /\ sjRunner' \in RunnerRow
          /\ \/ sjRunner.at = "output" /\ sjRun.ok /\ sjRunner'.at = "diff"
             \/ sjRunner.at = "output" /\ sjRunner'.at = "error"
             \/ sjRunner.at = "diff" /\ sjTree = "clean" /\ sjRunner'.at = "success"
             \/ sjRunner.at = "diff" /\ sjRunner'.at = "upload diff"
      <3>1. \A at \in {"diff", "error", "success", "upload diff"} :
               /\ [sjRunner EXCEPT !.at = at] \in RunnerRow
               /\ [sjRunner EXCEPT !.at = at].at = at
        BY <1>1, AtFacts DEF RunnerPlaces
      <3> HIDE DEF SandboxInv
      <3>2. QED
        BY <2>1, <3>1
    <2>3. SandboxTypeOK'
      <3>1. sjRunner' \in RunnerRow /\ UNCHANGED <<sjHub, sjTree, sjRun, sjRuns, sjDaemon>>
        BY <2>1, <2>2
      <3> HIDE DEF SandboxInv
      <3>2. QED
        BY <1>1, <1>3, <3>1 DEF SandboxTypeOK, RunnerRow
    <2>4. OneContainer' /\ ArtifactsFollow' /\ SuccessIsOfOneRun'
      BY <2>1, <2>2 DEF OneContainer, BeforeRun, AfterOkRun, ArtifactsFollow, SuccessIsOfOneRun
    <2>5. QED
      BY <2>3, <2>4
  <1>9. QED
    BY <1>4, <1>5, <1>6, <1>7, <1>8

\* The container and the daemon, whose end the Runner may hear of.
LEMMA ContainerInv ==
    ASSUME SandboxInv,
           \/ Validate \/ Launch \/ RelayAnswers \/ ContainerWrites \/ ContainerEnds \/ OrphanEnds
           \/ Refuse \/ Respond \/ DaemonEnds \/ DaemonStarts
    PROVE  SandboxInv'
  <1> USE DEF SandboxInv
  <1> DEFINE RunRow == [at : {"none", "asked", "relay", "container", "orphan", "closing", "over"},
                        heard : BOOLEAN, answered : BOOLEAN, ok : BOOLEAN]
  <1>1. /\ SandboxTypeOK /\ sjHub \in HubRow /\ sjRunner \in RunnerRow /\ sjRun \in RunRow
        /\ Fail(sjRunner) \in RunnerRow /\ Fail(sjRunner).at \in {"error", "idle"}
    BY HubRowFacts, FailFacts DEF SandboxTypeOK
  <1>2. CASE \/ Validate \/ Launch \/ RelayAnswers \/ ContainerWrites \/ ContainerEnds
             \/ OrphanEnds \/ Refuse \/ DaemonStarts
    <2>1. UNCHANGED <<sjHub, sjRunner, sjRuns, sjFaults>>
      BY <1>2 DEF Validate, Launch, RelayAnswers, ContainerWrites, ContainerEnds, OrphanEnds,
                  Refuse, DaemonStarts, RunStep
    <2>2. /\ sjRun' \in RunRow /\ sjRun'.heard = sjRun.heard
          /\ sjRun.at = "over" => sjRun' = sjRun /\ sjTree' = sjTree
          /\ sjTree' \in {sjTree, "changed"}
      <3>1. CASE Validate \/ Launch \/ Refuse
        BY <1>1, <3>1 DEF Validate, Launch, Refuse, RunStep
      <3>2. CASE RelayAnswers \/ OrphanEnds \/ DaemonStarts
        BY <1>1, <3>2 DEF RelayAnswers, OrphanEnds, DaemonStarts
      <3>3. CASE ContainerWrites
        BY <1>1, <3>3 DEF ContainerWrites
      <3>4. CASE ContainerEnds
        BY <1>1, <3>4 DEF ContainerEnds
      <3>5. QED
        BY <1>2, <3>1, <3>2, <3>3, <3>4
    <2>3. sjDaemon' \in BOOLEAN
      BY <1>1, <1>2 DEF Validate, Launch, RelayAnswers, ContainerWrites, ContainerEnds, OrphanEnds,
                        Refuse, DaemonStarts, RunStep, SandboxTypeOK
    <2>4. SandboxTypeOK'
      BY <1>1, <2>1, <2>2, <2>3 DEF SandboxTypeOK
    <2>5. OneContainer' /\ ArtifactsFollow' /\ SuccessIsOfOneRun'
      BY <2>1, <2>2
      DEF OneContainer, BeforeRun, AfterOkRun, ArtifactsFollow, SuccessIsOfOneRun, HasDiff, HasEvidence
    <2>6. QED
      BY <2>4, <2>5
  <1>3. CASE Respond
    <2>1. /\ sjRun.at = "closing" /\ sjRun' = [sjRun EXCEPT !.at = "over", !.heard = FALSE]
          /\ sjRunner' = IF sjRun.heard THEN [sjRunner EXCEPT !.at = "output"] ELSE sjRunner
          /\ UNCHANGED <<sjHub, sjTree, sjRuns, sjDaemon, sjFaults>>
      BY <1>3 DEF Respond
    <2>2. /\ sjRun' \in RunRow /\ sjRun'.at = "over" /\ ~sjRun'.heard /\ sjRun'.ok = sjRun.ok
      BY <1>1, <2>1
    <2>3. /\ sjRunner' \in RunnerRow
          /\ \/ sjRun.heard /\ sjRunner'.at = "output"
             \/ ~sjRun.heard /\ sjRunner' = sjRunner
      BY <1>1, <2>1, AtFacts DEF RunnerPlaces
    <2>4. SandboxTypeOK'
      BY <1>1, <2>1, <2>2, <2>3 DEF SandboxTypeOK, RunnerRow
    <2>5. OneContainer' /\ ArtifactsFollow' /\ SuccessIsOfOneRun'
      BY <2>1, <2>2, <2>3
      DEF OneContainer, BeforeRun, AfterOkRun, ArtifactsFollow, SuccessIsOfOneRun, HasDiff, HasEvidence
    <2>6. QED
      BY <2>4, <2>5
  <1>4. CASE DaemonEnds
    <2>1. /\ SandboxFault /\ sjDaemon' = FALSE
          /\ sjRun' = [sjRun EXCEPT !.heard = FALSE,
                         !.at = CASE @ = "container" -> "orphan" [] @ = "none" -> "none" [] OTHER -> "over"]
          /\ sjRunner' = IF sjRun.heard THEN Fail(sjRunner) ELSE sjRunner
          /\ UNCHANGED <<sjHub, sjTree, sjRuns>>
      BY <1>4 DEF DaemonEnds
    <2>2. /\ sjRun' \in RunRow /\ ~sjRun'.heard /\ sjRun'.ok = sjRun.ok
          /\ sjRun.at = "over" => sjRun'.at = "over"
      BY <1>1, <2>1
    <2>3. /\ sjRunner' \in RunnerRow
          /\ \/ sjRunner'.at \in {"error", "idle"}
             \/ ~sjRun.heard /\ sjRunner' = sjRunner
      BY <1>1, <2>1
    <2>4. SandboxTypeOK'
      BY <1>1, <2>1, <2>2, <2>3, FaultFacts DEF SandboxTypeOK, RunnerRow
    <2>5. OneContainer' /\ ArtifactsFollow' /\ SuccessIsOfOneRun'
      BY <2>1, <2>2, <2>3
      DEF OneContainer, BeforeRun, AfterOkRun, ArtifactsFollow, SuccessIsOfOneRun, HasDiff, HasEvidence
    <2>6. QED
      BY <2>4, <2>5
  <1>5. QED
    BY <1>2, <1>3, <1>4

\* The Owner cancels, the lease runs out.
LEMMA OwnerInv ==
    ASSUME SandboxInv, CancelSandbox \/ LeaseRunsOut
    PROVE  SandboxInv'
  <1>1. /\ UNCHANGED <<sjRunner, sjTree, sjRun, sjRuns, sjDaemon, sjFaults>>
        /\ sjHub' = [sjHub EXCEPT !.state = "CANCELLED"] \/ sjHub' = [sjHub EXCEPT !.live = FALSE]
    BY DEF CancelSandbox, LeaseRunsOut
  <1>2. /\ sjHub' \in HubRow /\ sjHub'.stored = sjHub.stored /\ sjHub'.named = sjHub.named
        /\ sjHub'.state = "SUCCEEDED" => sjHub.state = "SUCCEEDED"
    <2>1. sjHub \in HubRow
      BY HubRowFacts DEF SandboxInv
    <2>2. "CANCELLED" \in Terminal
      BY DEF Terminal
    <2>3. QED
      BY <1>1, <2>1, <2>2 DEF HubRow
  <1>3. SandboxTypeOK'
    BY <1>1, <1>2 DEF SandboxInv, SandboxTypeOK, HubRow
  <1>4. OneContainer' /\ ArtifactsFollow' /\ SuccessIsOfOneRun'
    BY <1>1, <1>2
    DEF SandboxInv, OneContainer, ArtifactsFollow, SuccessIsOfOneRun, HasDiff, HasEvidence
  <1>5. QED
    BY <1>3, <1>4 DEF SandboxInv

LEMMA SandboxInitInv == SandboxJobInit => SandboxInv
  <1> SUFFICES ASSUME SandboxJobInit
               PROVE  SandboxInv
    OBVIOUS
  <1>1. sjRunner \in RunnerRow /\ sjRunner.at = "idle"
    BY RestingFacts DEF SandboxJobInit
  <1>2. 1 \in 1..MaxSandboxLease /\ 0 \in 0..MaxSandboxFaults
    BY SandboxJobAssumption
  <1>3. sjHub \in HubRow /\ sjHub.state = "DISPATCHED"
    BY <1>2 DEF SandboxJobInit, HubRow
  <1>4. SandboxTypeOK
    BY <1>1, <1>2, <1>3 DEF SandboxJobInit, SandboxTypeOK, HubRow, RunnerRow, NoRun
  <1>5. OneContainer /\ ArtifactsFollow /\ SuccessIsOfOneRun
    BY <1>1, <1>3
    DEF SandboxJobInit, NoRun, OneContainer, BeforeRun, AfterOkRun, ArtifactsFollow, SuccessIsOfOneRun
  <1>6. QED
    BY <1>4, <1>5 DEF SandboxInv

LEMMA SandboxStepInv == SandboxInv /\ [SandboxJobNext]_sjVars => SandboxInv'
  <1> SUFFICES ASSUME SandboxInv, [SandboxJobNext]_sjVars
               PROVE  SandboxInv'
    OBVIOUS
  <1>1. CASE UNCHANGED sjVars
    <2>1. UNCHANGED <<sjHub, sjRunner, sjTree, sjRun, sjRuns, sjDaemon, sjFaults>>
      BY <1>1 DEF sjVars
    <2>2. SandboxTypeOK'
      BY <2>1 DEF SandboxInv, SandboxTypeOK
    <2>3. OneContainer' /\ ArtifactsFollow' /\ SuccessIsOfOneRun'
      BY <2>1 DEF SandboxInv, OneContainer, ArtifactsFollow, SuccessIsOfOneRun, HasDiff, HasEvidence
    <2>4. QED
      BY <2>2, <2>3 DEF SandboxInv
  <1>2. CASE SandboxJobNext
    BY <1>2, RequestInv, RunnerAloneInv, ContainerInv, OwnerInv DEF SandboxJobNext
  <1>3. QED
    BY <1>1, <1>2

(***************************************************************************)
(* A professional job is run in one container at most, and succeeds on     *)
(* that container's word, with the diff and the evidence kept by the Hub.  *)
(***************************************************************************)
THEOREM OneRunOfOneJob == SandboxJobSpec => [](SandboxTypeOK /\ SuccessIsOfOneRun)
  <1>1. SandboxInv => SandboxTypeOK /\ SuccessIsOfOneRun
    BY DEF SandboxInv
  <1>2. QED
    BY <1>1, SandboxInitInv, SandboxStepInv, PTL DEF SandboxJobSpec

-----------------------------------------------------------------------------
(* The device key of a node.                                               *)

AtWork == {"loaded", "enrolled", "persisted"}
ProcState == [at : {"off", "generated", "writing"} \union AtWork,
              key : NodeKeys \union {NoKey}, enrolled : BOOLEAN, token : BOOLEAN]
Beside ==
    /\ neToken \in {"none", "issued", "expired", "consumed"}
    /\ neRevoked \in BOOLEAN /\ neTokenFile \in BOOLEAN /\ neFaults \in 0..MaxNodeFaults

\* The file has one writer, while it is torn; a process at work has its key from the kept
\* file; and what calls itself enrolled, file or process, is what the Hub knows.
KeyInv ==
    /\ Beside
    /\ neDevice \in NodeKeys \union {NoKey}
    /\ neFile \in [is : {"absent", "torn", "kept"}, key : NodeKeys \union {NoKey}, enrolled : BOOLEAN]
    /\ neProc \in [NodeProcs -> ProcState]
    /\ NodeKeepsItsKey
    /\ neFile.is # "kept" => ~neFile.enrolled
    /\ \A p, q \in NodeProcs : neProc[p].at = "writing" =>
          neFile.is = "torn" /\ (neProc[q].at = "writing" => q = p)
    /\ \A p \in NodeProcs : neProc[p].at \in {"generated", "writing"} => ~neProc[p].enrolled
    /\ \A p \in NodeProcs : neProc[p].at \in AtWork =>
          /\ neFile.is = "kept"
          /\ neProc[p].at # "loaded" \/ neProc[p].enrolled => neDevice = neProc[p].key

\* One process moves, the Hub and the file stay.
LEMMA ProcMoves ==
    ASSUME KeyInv, Beside', NEW p \in NodeProcs, NEW value \in ProcState, UNCHANGED <<neFile, neDevice>>,
           SetProc(p, value), value.at # "writing", value.at = "generated" => ~value.enrolled,
           value.at \in AtWork =>
             /\ neFile.is = "kept" /\ value.key = neFile.key
             /\ value.at # "loaded" \/ value.enrolled => neDevice = value.key
    PROVE  KeyInv'
  <1>1. neProc' \in [NodeProcs -> ProcState]
    BY DEF SetProc, KeyInv
  <1>2. neProc'[p] = value /\ \A q \in NodeProcs : q # p => neProc'[q] = neProc[q]
    BY DEF SetProc, KeyInv
  <1>3. \A q \in NodeProcs : neProc'[q].at \notin {"off", "generated", "writing"} => neProc'[q].key = neFile.key
    BY <1>1, <1>2 DEF KeyInv, NodeKeepsItsKey, ProcState
  <1>4. NodeKeepsItsKey'
    BY <1>3 DEF KeyInv, NodeKeepsItsKey
  <1>5. \A q, r \in NodeProcs : neProc'[q].at = "writing" =>
          neFile.is = "torn" /\ (neProc'[r].at = "writing" => r = q)
    BY <1>2 DEF KeyInv
  <1>6. \A q \in NodeProcs : neProc'[q].at \in AtWork =>
          /\ neFile.is = "kept"
          /\ neProc'[q].at # "loaded" \/ neProc'[q].enrolled => neDevice = neProc'[q].key
    BY <1>2 DEF KeyInv
  <1>7. \A q \in NodeProcs : neProc'[q].at \in {"generated", "writing"} => ~neProc'[q].enrolled
    BY <1>2 DEF KeyInv
  <1>8. QED
    BY <1>1, <1>4, <1>5, <1>6, <1>7 DEF KeyInv

LEMMA OffIsState == ProcOff \in ProcState /\ ProcOff.at = "off"
  BY DEF ProcOff, ProcState, AtWork

LEMMA ProcEndsStep ==
    ASSUME KeyInv, Beside', NEW p \in NodeProcs, UNCHANGED <<neFile, neDevice>>, SetProc(p, ProcOff)
    PROVE  KeyInv'
  BY ProcMoves, OffIsState DEF AtWork

\* A new process has the key of the kept file, or one of its own that no file has.
LEMMA StartNodeStep ==
    ASSUME KeyInv, NEW p \in NodeProcs, StartNode(p)
    PROVE  KeyInv'
  <1>1. Beside' /\ UNCHANGED <<neFile, neDevice>>
    BY DEF StartNode, KeyInv, Beside
  <1>2. ASSUME NEW token \in {FALSE, neTokenFile}, neFile.is = "kept",
               SetProc(p, [at |-> "loaded", key |-> neFile.key, enrolled |-> neFile.enrolled, token |-> token])
        PROVE  KeyInv'
    <2> DEFINE value == [at |-> "loaded", key |-> neFile.key, enrolled |-> neFile.enrolled, token |-> token]
    <2>1. value \in ProcState
      BY DEF KeyInv, Beside, ProcState, AtWork
    <2>2. value.at = "loaded" /\ value.key = neFile.key /\ (value.enrolled => neDevice = value.key)
      BY DEF KeyInv, NodeKeepsItsKey
    <2> HIDE DEF value
    <2>3. QED
      BY <1>1, <1>2, <2>1, <2>2, ProcMoves DEF value
  <1>3. ASSUME NEW token \in {FALSE, neTokenFile}, NEW key \in NodeKeys \ KeysSeen,
               SetProc(p, [at |-> "generated", key |-> key, enrolled |-> FALSE, token |-> token])
        PROVE  KeyInv'
    <2> DEFINE value == [at |-> "generated", key |-> key, enrolled |-> FALSE, token |-> token]
    <2>1. value \in ProcState /\ value.at = "generated" /\ ~value.enrolled
      BY DEF KeyInv, Beside, ProcState
    <2> HIDE DEF value
    <2>2. QED
      BY <1>1, <1>3, <2>1, ProcMoves DEF value, AtWork
  <1>4. QED
    BY <1>2, <1>3 DEF StartNode

LEMMA MakeFileStep ==
    ASSUME KeyInv, NEW p \in NodeProcs, MakeDeviceFile(p)
    PROVE  KeyInv'
  <1>1. Beside' /\ UNCHANGED neDevice /\ neProc[p].at = "generated" /\ neProc[p] \in ProcState
    BY DEF MakeDeviceFile, KeyInv, Beside
  <1>2. CASE neFile.is = "absent"
    <2>1. neFile' = TornFile /\ GoesTo(p, "writing")
      BY <1>2 DEF MakeDeviceFile
    <2>2. neFile' \in [is : {"absent", "torn", "kept"}, key : NodeKeys \union {NoKey}, enrolled : BOOLEAN]
          /\ neFile'.is = "torn" /\ neFile'.enrolled = FALSE
      BY <2>1 DEF TornFile
    <2>3. neProc' \in [NodeProcs -> ProcState] /\ neProc'[p].at = "writing"
          /\ neProc'[p].enrolled = neProc[p].enrolled /\ \A q \in NodeProcs : q # p => neProc'[q] = neProc[q]
      BY <2>1 DEF GoesTo, SetProc, KeyInv, ProcState
    <2>4. \A q \in NodeProcs : neProc[q].at \notin AtWork /\ neProc[q].at # "writing"
      BY <1>2 DEF KeyInv
    <2>5. \A q \in NodeProcs : neProc'[q].at \in {"off", "generated", "writing"} /\ neProc'[q].at \notin AtWork
          /\ (neProc'[q].at = "writing" => q = p)
      BY <2>3, <2>4 DEF ProcState, AtWork
    <2>6. \A q \in NodeProcs : neProc'[q].at \in {"generated", "writing"} => ~neProc'[q].enrolled
      BY <1>1, <2>3 DEF KeyInv
    <2>7. NodeKeepsItsKey'
      BY <1>1, <1>2, <2>2, <2>5 DEF KeyInv, NodeKeepsItsKey
    <2>8. QED
      BY <1>1, <2>2, <2>3, <2>5, <2>6, <2>7 DEF KeyInv
  <1>3. CASE neFile.is = "torn"
    <2>1. SetProc(p, ProcOff) /\ UNCHANGED neFile
      BY <1>3 DEF MakeDeviceFile
    <2>2. QED
      BY <1>1, <2>1, ProcEndsStep
  <1>4. CASE neFile.is = "kept"
    <2> DEFINE value == [neProc[p] EXCEPT !.at = "loaded", !.key = neFile.key, !.enrolled = neFile.enrolled]
    <2>1. SetProc(p, value) /\ UNCHANGED neFile
      BY <1>4 DEF MakeDeviceFile
    <2>2. value \in ProcState
      BY <1>1 DEF KeyInv, ProcState, AtWork
    <2>3. value.at = "loaded" /\ value.key = neFile.key /\ (value.enrolled => neDevice = value.key)
      BY <1>1 DEF KeyInv, NodeKeepsItsKey, ProcState
    <2> HIDE DEF value
    <2>4. QED
      BY <1>1, <1>4, <2>1, <2>2, <2>3, ProcMoves
  <1>5. QED
    BY <1>2, <1>3, <1>4 DEF KeyInv

\* The one writer: nobody works with the file it completes, and the Hub knows no key yet.
LEMMA WriteFileStep ==
    ASSUME KeyInv, NEW p \in NodeProcs, WriteDeviceFile(p)
    PROVE  KeyInv'
  <1>1. Beside' /\ UNCHANGED neDevice /\ neProc[p].at = "writing" /\ neProc[p] \in ProcState
        /\ neFile' = Kept(neProc[p].key, FALSE) /\ GoesTo(p, "loaded")
    BY DEF WriteDeviceFile, KeyInv, Beside
  <1>2. neFile.is = "torn" /\ neDevice = NoKey
    BY <1>1 DEF KeyInv, NodeKeepsItsKey
  <1>3. /\ neFile' \in [is : {"absent", "torn", "kept"}, key : NodeKeys \union {NoKey}, enrolled : BOOLEAN]
        /\ neFile'.is = "kept" /\ neFile'.enrolled = FALSE /\ neFile'.key = neProc[p].key
    BY <1>1 DEF Kept, ProcState
  <1>4. /\ neProc' \in [NodeProcs -> ProcState]
        /\ neProc'[p].at = "loaded" /\ neProc'[p].key = neProc[p].key /\ neProc'[p].enrolled = neProc[p].enrolled
        /\ \A q \in NodeProcs : q # p => neProc'[q] = neProc[q]
    BY <1>1 DEF GoesTo, SetProc, KeyInv, ProcState, AtWork
  <1>5. ~neProc[p].enrolled /\ \A q \in NodeProcs : neProc'[q].at \in {"generated", "writing"} => ~neProc'[q].enrolled
    BY <1>1, <1>4 DEF KeyInv
  <1>6. \A q \in NodeProcs : q # p => neProc'[q].at \in {"off", "generated"}
    BY <1>1, <1>2, <1>4 DEF KeyInv, ProcState, AtWork
  <1>7. NodeKeepsItsKey'
    BY <1>1, <1>2, <1>3, <1>4, <1>6 DEF NodeKeepsItsKey
  <1>8. QED
    BY <1>1, <1>2, <1>3, <1>4, <1>5, <1>6, <1>7 DEF KeyInv, AtWork

\* The token is exchanged for the key of the kept file, once.
LEMMA EnrolStep ==
    ASSUME KeyInv, NEW p \in NodeProcs, Enrol(p)
    PROVE  KeyInv'
  <1> DEFINE redeemed == neProc[p].token /\ Redeems(neProc[p].key)
  <1>1. /\ neProc[p].at = "loaded" /\ ~neProc[p].enrolled /\ neProc[p] \in ProcState /\ UNCHANGED neFile
        /\ neFile.is = "kept" /\ neProc[p].key = neFile.key
    BY DEF Enrol, KeyInv, NodeKeepsItsKey, AtWork
  <1>2. IF redeemed THEN neToken' = "consumed" /\ neDevice' = neProc[p].key ELSE UNCHANGED <<neToken, neDevice>>
    BY DEF Enrol
  <1>3. (redeemed /\ GoesTo(p, "enrolled")) \/ SetProc(p, ProcOff)
    BY DEF Enrol
  <1>4. redeemed => neDevice \in {NoKey, neFile.key}
    BY <1>1 DEF Redeems
  <1>5. Beside'
    <2>1. neToken' \in {"none", "issued", "expired", "consumed"} /\ UNCHANGED <<neRevoked, neTokenFile>>
      BY <1>2 DEF Enrol, KeyInv, Beside
    <2>2. UNCHANGED neFaults \/ NodeFault
      BY DEF Enrol
    <2>3. neFaults' \in 0..MaxNodeFaults
      BY <2>2, NodeEnrolmentAssumption DEF NodeFault, KeyInv, Beside
    <2>4. QED
      BY <2>1, <2>3 DEF KeyInv, Beside
  <1> HIDE DEF redeemed
  <1>6. /\ neProc' \in [NodeProcs -> ProcState]
        /\ neProc'[p].at = "off" \/ (redeemed /\ neProc'[p].at = "enrolled" /\ neProc'[p].key = neFile.key)
        /\ \A q \in NodeProcs : q # p => neProc'[q] = neProc[q]
    <2>1. CASE redeemed /\ GoesTo(p, "enrolled")
      BY <1>1, <2>1 DEF GoesTo, SetProc, KeyInv, ProcState, AtWork
    <2>2. CASE SetProc(p, ProcOff)
      BY <2>2, OffIsState DEF SetProc, KeyInv
    <2>3. QED
      BY <1>3, <2>1, <2>2
  <1>7. neDevice' \in NodeKeys \union {NoKey} /\ (IF redeemed THEN neDevice' = neFile.key ELSE neDevice' = neDevice)
    BY <1>1, <1>2 DEF KeyInv, ProcState
  <1>8. \A q \in NodeProcs : neProc'[q].at \notin {"off", "generated", "writing"} => neProc'[q].key = neFile.key
    BY <1>6 DEF KeyInv, NodeKeepsItsKey
  <1>9. NodeKeepsItsKey'
    BY <1>1, <1>7, <1>8 DEF KeyInv, NodeKeepsItsKey
  <1>10. \A q \in NodeProcs : neProc'[q].at \in AtWork => neProc'[q].key = neFile.key
    BY <1>8 DEF AtWork
  <1>11. \A q \in NodeProcs : neProc'[q].at \in AtWork =>
          (neProc'[q].at # "loaded" \/ neProc'[q].enrolled => neDevice' = neProc'[q].key)
    <2> SUFFICES ASSUME NEW q \in NodeProcs, neProc'[q].at \in AtWork, neProc'[q].at # "loaded" \/ neProc'[q].enrolled
                 PROVE  neDevice' = neProc'[q].key
      OBVIOUS
    <2>1. CASE redeemed
      BY <1>7, <1>10, <2>1
    <2>2. CASE ~redeemed
      BY <1>6, <1>7, <2>2 DEF KeyInv, AtWork
    <2>3. QED
      BY <2>1, <2>2
  <1>12. \A q, r \in NodeProcs : neProc'[q].at # "writing"
    BY <1>1, <1>6 DEF KeyInv
  <1>13. \A q \in NodeProcs : neProc'[q].at \in {"generated", "writing"} => ~neProc'[q].enrolled
    BY <1>6 DEF KeyInv
  <1>14. QED
    BY <1>1, <1>5, <1>6, <1>7, <1>9, <1>11, <1>12, <1>13 DEF KeyInv

\* The file is replaced by one with the same key that says enrolled.
LEMMA PersistStep ==
    ASSUME KeyInv, NEW p \in NodeProcs, PersistEnrolled(p)
    PROVE  KeyInv'
  <1>1. /\ neProc[p].at = "enrolled" /\ neProc[p] \in ProcState /\ Beside' /\ UNCHANGED neDevice
        /\ neFile' = Kept(neProc[p].key, TRUE) /\ GoesTo(p, "persisted")
    BY DEF PersistEnrolled, KeyInv, Beside
  <1>2. neFile.is = "kept" /\ neProc[p].key = neFile.key /\ neDevice = neFile.key
    BY <1>1 DEF KeyInv, NodeKeepsItsKey, AtWork
  <1>3. /\ neFile' \in [is : {"absent", "torn", "kept"}, key : NodeKeys \union {NoKey}, enrolled : BOOLEAN]
        /\ neFile'.is = "kept" /\ neFile'.key = neFile.key
    BY <1>1, <1>2 DEF Kept, ProcState
  <1>4. /\ neProc' \in [NodeProcs -> ProcState] /\ neProc'[p].at = "persisted" /\ neProc'[p].key = neFile.key
        /\ \A q \in NodeProcs : q # p => neProc'[q] = neProc[q]
    BY <1>1, <1>2 DEF GoesTo, SetProc, KeyInv, ProcState, AtWork
  <1>5. \A q \in NodeProcs : neProc'[q].at \notin {"off", "generated", "writing"} => neProc'[q].key = neFile.key
    BY <1>4 DEF KeyInv, NodeKeepsItsKey
  <1>6. NodeKeepsItsKey'
    BY <1>1, <1>2, <1>3, <1>5 DEF NodeKeepsItsKey
  <1>7. \A q \in NodeProcs : neProc'[q].at # "writing"
    BY <1>2, <1>4 DEF KeyInv
  <1>8. \A q \in NodeProcs : neProc'[q].at \in AtWork => neDevice = neProc'[q].key
    BY <1>2, <1>5 DEF AtWork
  <1>9. \A q \in NodeProcs : neProc'[q].at \in {"generated", "writing"} => ~neProc'[q].enrolled
    BY <1>4 DEF KeyInv
  <1>10. QED
    BY <1>1, <1>3, <1>4, <1>6, <1>7, <1>8, <1>9 DEF KeyInv

LEMMA RemoveTokenStep ==
    ASSUME KeyInv, NEW p \in NodeProcs, RemoveTokenFile(p)
    PROVE  KeyInv'
  <1>1. Beside' /\ UNCHANGED <<neFile, neDevice>> /\ neProc[p].at = "persisted" /\ neProc[p] \in ProcState
    BY DEF RemoveTokenFile, KeyInv, Beside
  <1> DEFINE value == [neProc[p] EXCEPT !.at = "loaded", !.enrolled = TRUE]
  <1>2. SetProc(p, value) \/ SetProc(p, ProcOff)
    BY DEF RemoveTokenFile
  <1>3. value \in ProcState /\ value.at = "loaded" /\ value.key = neProc[p].key
    BY <1>1 DEF ProcState, AtWork
  <1>4. neFile.is = "kept" /\ neProc[p].key = neFile.key /\ neDevice = neFile.key
    BY <1>1 DEF KeyInv, NodeKeepsItsKey, AtWork
  <1> HIDE DEF value
  <1>5. CASE SetProc(p, value)
    BY <1>1, <1>3, <1>4, <1>5, ProcMoves
  <1>6. QED
    BY <1>1, <1>2, <1>5, ProcEndsStep

\* The Hub: an issued or expired token and a revocation change no key.
LEMMA HubTokenStep ==
    ASSUME KeyInv, IssueToken \/ EnrolmentExpires \/ RevokeDevice \/ UNCHANGED neVars
    PROVE  KeyInv'
  <1>1. UNCHANGED <<neDevice, neFile, neProc>> /\ Beside'
    BY DEF IssueToken, EnrolmentExpires, RevokeDevice, neVars, KeyInv, Beside
  <1>2. QED
    BY <1>1 DEF KeyInv, NodeKeepsItsKey

LEMMA KeyKept == KeyInv /\ [EnrolmentNext]_neVars => KeyInv'
  <1> SUFFICES ASSUME KeyInv, [EnrolmentNext]_neVars PROVE KeyInv'
    OBVIOUS
  <1>1. CASE IssueToken \/ EnrolmentExpires \/ RevokeDevice \/ UNCHANGED neVars
    BY <1>1, HubTokenStep
  <1>2. ASSUME NEW p \in NodeProcs, StartNode(p) PROVE KeyInv'
    BY <1>2, StartNodeStep
  <1>3. ASSUME NEW p \in NodeProcs, MakeDeviceFile(p) PROVE KeyInv'
    BY <1>3, MakeFileStep
  <1>4. ASSUME NEW p \in NodeProcs, WriteDeviceFile(p) PROVE KeyInv'
    BY <1>4, WriteFileStep
  <1>5. ASSUME NEW p \in NodeProcs, Enrol(p) PROVE KeyInv'
    BY <1>5, EnrolStep
  <1>6. ASSUME NEW p \in NodeProcs, PersistEnrolled(p) PROVE KeyInv'
    BY <1>6, PersistStep
  <1>7. ASSUME NEW p \in NodeProcs, RemoveTokenFile(p) PROVE KeyInv'
    BY <1>7, RemoveTokenStep
  <1>8. ASSUME NEW p \in NodeProcs, RequestNotSent(p) \/ Register(p) \/ NodeProcEnds(p) PROVE KeyInv'
    <2>1. UNCHANGED <<neFile, neDevice, neToken, neRevoked, neTokenFile>> /\ SetProc(p, ProcOff) /\ neFaults' \in 0..MaxNodeFaults
      BY <1>8, NodeEnrolmentAssumption DEF RequestNotSent, Register, NodeProcEnds, NodeFault, KeyInv, Beside
    <2>2. QED
      BY <2>1, ProcEndsStep DEF KeyInv, Beside
  <1>9. QED
    BY <1>1, <1>2, <1>3, <1>4, <1>5, <1>6, <1>7, <1>8 DEF EnrolmentNext

LEMMA KeyStart == EnrolmentInit => KeyInv
  <1> SUFFICES ASSUME EnrolmentInit PROVE KeyInv
    OBVIOUS
  <1>1. Beside
    <2>1. 0 \in 0..MaxNodeFaults
      BY NodeEnrolmentAssumption
    <2>2. QED
      BY <2>1 DEF EnrolmentInit, Beside
  <1>2. neProc \in [NodeProcs -> ProcState] /\ \A p \in NodeProcs : neProc[p].at = "off"
    BY OffIsState DEF EnrolmentInit
  <1>3. /\ neFile \in [is : {"absent", "torn", "kept"}, key : NodeKeys \union {NoKey}, enrolled : BOOLEAN]
        /\ ~neFile.enrolled /\ neDevice = NoKey
    BY DEF EnrolmentInit, NoFile
  <1>4. QED
    BY <1>1, <1>2, <1>3 DEF KeyInv, NodeKeepsItsKey, AtWork

(***************************************************************************)
(* However the installer and the service interleave, and wherever one of   *)
(* them ends, the key the Hub knows is in the device file, and whoever     *)
(* works under the Runner's id has it (resolveRunnerDevice,                *)
(* #ensureEnrolled).                                                       *)
(***************************************************************************)
THEOREM KeysAreKept == EnrolmentSpec => [](EnrolmentTypeOK /\ NodeKeepsItsKey)
  <1>1. KeyInv => EnrolmentTypeOK /\ NodeKeepsItsKey
    BY DEF KeyInv, Beside, EnrolmentTypeOK, ProcState, AtWork
  <1>2. QED
    BY <1>1, KeyStart, KeyKept, PTL DEF EnrolmentSpec

-----------------------------------------------------------------------------
(* The list of workspaces of a node.                                       *)

ValidList(list) ==
    /\ list \subseteq Entries /\ IsFiniteSet(list)
    /\ \A e, f \in list : e.id = f.id \/ e.root = f.root => e = f
    /\ Cardinality(list) <= MostWorkspaces

\* A command works on a list that was valid when it was read.
UnderWay(command) ==
    /\ command # NoCommand /\ command.entry \in Entries /\ ValidList(command.read)

ListInv ==
    /\ ValidList(wlFile) /\ DOMAIN wlCommand = ListCommands
    /\ \A p \in ListCommands : wlCommand[p] = NoCommand \/ UnderWay(wlCommand[p])

LEMMA RegisteredIsValid ==
    ASSUME NEW list, ValidList(list), NEW entry \in Entries, Registers(entry, list)
    PROVE  ValidList(list \union {entry})
  <1>1. entry \notin list /\ Cardinality(list) \in Nat /\ Cardinality(list) + 1 <= MostWorkspaces
    BY FS_CardinalityType, WorkspaceListAssumption DEF ValidList, Registers
  <1>2. IsFiniteSet(list \union {entry}) /\ Cardinality(list \union {entry}) = Cardinality(list) + 1
    BY <1>1, FS_AddElement DEF ValidList
  <1>3. \A e, f \in list \union {entry} : e.id = f.id \/ e.root = f.root => e = f
    BY DEF ValidList, Registers
  <1>4. QED
    BY <1>1, <1>2, <1>3 DEF ValidList

LEMMA RemainingIsValid ==
    ASSUME NEW list, ValidList(list), NEW entry
    PROVE  ValidList(Remaining(list, entry))
  <1>1. Remaining(list, entry) \subseteq list
    BY DEF Remaining
  <1>2. IsFiniteSet(Remaining(list, entry)) /\ Cardinality(Remaining(list, entry)) <= Cardinality(list)
    BY <1>1, FS_Subset DEF ValidList
  <1>3. Cardinality(Remaining(list, entry)) \in Nat /\ Cardinality(list) \in Nat
    BY <1>2, FS_CardinalityType DEF ValidList
  <1>4. QED
    BY <1>1, <1>2, <1>3, WorkspaceListAssumption DEF ValidList

LEMMA BeginListStep ==
    ASSUME ListInv, NEW p \in ListCommands, BeginCommand(p)
    PROVE  ListInv'
  <1>1. PICK e \in Entries, does \in {"register", "remove"} :
          wlCommand' = [wlCommand EXCEPT ![p] = [does |-> does, entry |-> e, read |-> wlFile]]
    BY DEF BeginCommand
  <1>2. UnderWay([does |-> does, entry |-> e, read |-> wlFile])
    BY DEF UnderWay, NoCommand, ListInv
  <1>3. DOMAIN wlCommand' = ListCommands /\ \A q \in ListCommands : wlCommand'[q] = NoCommand \/ UnderWay(wlCommand'[q])
    BY <1>1, <1>2 DEF ListInv
  <1>4. QED
    BY <1>3 DEF ListInv, BeginCommand

LEMMA EndListStep ==
    ASSUME ListInv, NEW p \in ListCommands, EndCommand(p)
    PROVE  ListInv'
  <1> DEFINE c == wlCommand[p]
  <1>1. UnderWay(c)
    BY DEF ListInv, EndCommand
  <1>2. \/ Registers(c.entry, c.read) /\ wlFile' = c.read \union {c.entry}
        \/ wlFile' = Remaining(c.read, c.entry)
        \/ wlFile' = wlFile
    BY DEF EndCommand
  <1> HIDE DEF c
  <1>3. ValidList(wlFile')
    BY <1>1, <1>2, RegisteredIsValid, RemainingIsValid DEF UnderWay, ListInv
  <1>4. DOMAIN wlCommand' = ListCommands /\ \A q \in ListCommands : wlCommand'[q] = NoCommand \/ UnderWay(wlCommand'[q])
    BY DEF EndCommand, ListInv
  <1>5. QED
    BY <1>3, <1>4 DEF ListInv

LEMMA ListStart == WorkspaceListInit => ListInv
  <1> SUFFICES ASSUME WorkspaceListInit PROVE ListInv
    OBVIOUS
  <1>1. ValidList({})
    BY FS_EmptySet, WorkspaceListAssumption DEF ValidList
  <1>2. QED
    BY <1>1 DEF WorkspaceListInit, ListInv

LEMMA ListKept == ListInv /\ [WorkspaceListNext]_wlVars => ListInv'
  <1> SUFFICES ASSUME ListInv, [WorkspaceListNext]_wlVars PROVE ListInv'
    OBVIOUS
  <1>1. ASSUME NEW p \in ListCommands, BeginCommand(p) PROVE ListInv'
    BY <1>1, BeginListStep
  <1>2. ASSUME NEW p \in ListCommands, EndCommand(p) PROVE ListInv'
    BY <1>2, EndListStep
  <1>3. CASE RunnerReadsList \/ (\E root \in WorkspaceRoots : DirectoryMoves(root)) \/ UNCHANGED wlVars
    <2>1. UNCHANGED <<wlFile, wlCommand>>
      BY <1>3 DEF RunnerReadsList, DirectoryMoves, wlVars
    <2>2. QED
      BY <2>1 DEF ListInv
  <1>4. QED
    BY <1>1, <1>2, <1>3 DEF WorkspaceListNext

(***************************************************************************)
(* However the commands interleave, what one writes from the list it read  *)
(* is a list the next one accepts: one directory for an id, one id for a   *)
(* directory, within the limit (workspace-registry.ts).                    *)
(***************************************************************************)
THEOREM ListsStayValid == WorkspaceListSpec => []ListStaysValid
  <1>1. ListInv => ListStaysValid
    BY DEF ListInv, ValidList, ListStaysValid
  <1>2. QED
    BY <1>1, ListStart, ListKept, PTL DEF WorkspaceListSpec

-----------------------------------------------------------------------------
(* The type of the list of workspaces.                                     *)

ListRow == {NoCommand} \union [does : {"register", "remove"}, entry : Entries, read : SUBSET Entries]

LEMMA ListTypeStart == WorkspaceListInit => WorkspaceListTypeOK
  <1>1. 0 \in 0..MaxListSteps
    BY WorkspaceListAssumption
  <1>2. QED
    BY <1>1 DEF WorkspaceListInit, WorkspaceListTypeOK

LEMMA ListTypeKept == WorkspaceListTypeOK /\ [WorkspaceListNext]_wlVars => WorkspaceListTypeOK'
  <1> SUFFICES ASSUME WorkspaceListTypeOK, [WorkspaceListNext]_wlVars PROVE WorkspaceListTypeOK'
    OBVIOUS
  <1>1. Counted => wlSteps' \in 0..MaxListSteps
    BY WorkspaceListAssumption DEF Counted, WorkspaceListTypeOK
  <1>2. ASSUME NEW p \in ListCommands, BeginCommand(p) PROVE WorkspaceListTypeOK'
    <2>1. PICK e \in Entries, does \in {"register", "remove"} :
            wlCommand' = [wlCommand EXCEPT ![p] = [does |-> does, entry |-> e, read |-> wlFile]]
      BY <1>2 DEF BeginCommand
    <2>2. [does |-> does, entry |-> e, read |-> wlFile] \in ListRow
      BY DEF ListRow, WorkspaceListTypeOK
    <2>3. wlCommand' \in [ListCommands -> ListRow]
      BY <2>1, <2>2 DEF WorkspaceListTypeOK, ListRow
    <2>4. QED
      BY <1>1, <1>2, <2>3 DEF BeginCommand, WorkspaceListTypeOK, ListRow
  <1>3. ASSUME NEW p \in ListCommands, EndCommand(p) PROVE WorkspaceListTypeOK'
    <2>1. wlCommand[p].entry \in Entries /\ wlCommand[p].read \subseteq Entries
      BY <1>3 DEF EndCommand, WorkspaceListTypeOK
    <2>2. wlFile' \in {wlFile, wlCommand[p].read \union {wlCommand[p].entry}, Remaining(wlCommand[p].read, wlCommand[p].entry)}
      BY <1>3 DEF EndCommand
    <2>3. wlFile' \subseteq Entries
      BY <2>1, <2>2 DEF Remaining, WorkspaceListTypeOK
    <2>4. QED
      BY <1>3, <2>3 DEF EndCommand, WorkspaceListTypeOK
  <1>4. CASE RunnerReadsList
    BY <1>4 DEF RunnerReadsList, Entries, WorkspaceListTypeOK
  <1>5. ASSUME NEW root \in WorkspaceRoots, DirectoryMoves(root) PROVE WorkspaceListTypeOK'
    BY <1>1, <1>5 DEF DirectoryMoves, WorkspaceListTypeOK
  <1>6. CASE UNCHANGED wlVars
    BY <1>6 DEF wlVars, WorkspaceListTypeOK
  <1>7. QED
    BY <1>2, <1>3, <1>4, <1>5, <1>6 DEF WorkspaceListNext

-----------------------------------------------------------------------------
(***************************************************************************)
(* The releases of a node.  A script that is under way carries releases    *)
(* and files of their types, and is at one of its own changes, whether or  *)
(* not another is at work.                                                 *)
(***************************************************************************)
ScriptKinds == {"bootstrap", "upgrade", "sandbox"}
FileNames == {"link", "unit", "env", "box"}
NodeFiles == [link : RunnerReleases \union {NoRelease}, unit : RunnerReleases \union {NoRelease},
              env : {"none", "plain", "bound"}, box : SandboxReleases \union {NoRelease}]
Ways == {"stopped", "active", "failed"}
Places == {"unpack", "enrol", "save", "change", "start", "verify", "undo", "done", "failed", "broken"}
ScriptRecord == [does : ScriptKinds, release : RunnerReleases \union SandboxReleases, id : Nat, at : Places,
                 step : Nat, found : NodeFiles, saved : NodeFiles, was : Ways, alone : BOOLEAN]

LEMMA FilesAreFour ==
    ASSUME NEW f \in NodeFiles
    PROVE  DOMAIN f = FileNames
  BY DEF NodeFiles, FileNames

LEMMA ServiceRuns ==
    ASSUME NEW files \in NodeFiles
    PROVE  Service(files) \in [is : Ways, release : RunnerReleases \union {NoRelease}]
  <1>1. files.link \in RunnerReleases \union {NoRelease}
    BY DEF NodeFiles
  <1>2. QED
    BY <1>1 DEF Service, Ways

LEMMA NoScriptIsOver == NoScript.at = "off" /\ ScriptOver(NoScript)
  BY DEF NoScript, ScriptOver

ScriptTyped(script) ==
    /\ script \in ScriptRecord /\ script.id \in 0..MaxReleaseSteps
    /\ script.release \in (IF script.does = "sandbox" THEN SandboxReleases ELSE RunnerReleases)
    /\ script.at = "change" => script.step \in 1..(IF script.does = "bootstrap" THEN 3 ELSE 2)
    /\ script.at \in {"unpack", "enrol", "save"} => script.step = 1

NRTyped ==
    /\ NodeReleaseTypeOK /\ DOMAIN nrScripts = Sessions
    /\ \A s \in Sessions : nrScripts[s] = NoScript \/ ScriptTyped(nrScripts[s])

LEMMA NRScriptAt == \A script : script = NoScript \/ ScriptTyped(script) =>
        script.at \in {"off", "unpack", "enrol", "save", "change", "start", "verify", "undo",
                       "done", "failed", "broken"}
  BY NoScriptIsOver DEF ScriptTyped, ScriptRecord, Places

LEMMA NRTypeOfParts ==
    ASSUME NRTyped, nrEnrolled' \in BOOLEAN, nrTorn' \in BOOLEAN, nrFiles' \in NodeFiles,
           nrStored' \subseteq RunnerReleases \union SandboxReleases,
           nrDevice' \in 0..MaxReleaseSteps, nrSteps' \in 0..MaxReleaseSteps,
           nrRuns' \in [is : Ways, release : RunnerReleases \union {NoRelease}],
           DOMAIN nrScripts' = Sessions,
           \A s \in Sessions : nrScripts'[s] = NoScript \/ ScriptTyped(nrScripts'[s])
    PROVE  NRTyped'
  BY NRScriptAt DEF NRTyped, NodeReleaseTypeOK, NodeFiles, Ways

LEMMA NRFacts ==
    ASSUME NRTyped
    PROVE  /\ nrFiles \in NodeFiles /\ nrStored \subseteq RunnerReleases \union SandboxReleases
           /\ nrDevice \in 0..MaxReleaseSteps /\ nrSteps \in 0..MaxReleaseSteps
           /\ nrRuns \in [is : Ways, release : RunnerReleases \union {NoRelease}]
           /\ nrEnrolled \in BOOLEAN /\ nrTorn \in BOOLEAN
           /\ ReleaseStep => nrSteps' \in 0..MaxReleaseSteps
  BY NodeReleaseAssumption DEF NRTyped, NodeReleaseTypeOK, NodeFiles, Ways, ReleaseStep, ReleaseSteps

\* One script goes on, with the files and the service of their types.
LEMMA NRScriptMoves ==
    ASSUME NRTyped, NEW s \in Sessions, NEW next, nrScripts' = [nrScripts EXCEPT ![s] = next],
           next = NoScript \/ ScriptTyped(next),
           nrEnrolled' \in BOOLEAN, nrTorn' \in BOOLEAN,
           nrFiles' \in NodeFiles, nrStored' \subseteq RunnerReleases \union SandboxReleases,
           nrDevice' \in 0..MaxReleaseSteps, nrSteps' \in 0..MaxReleaseSteps,
           nrRuns' \in [is : Ways, release : RunnerReleases \union {NoRelease}]
    PROVE  NRTyped'
  <1>1. DOMAIN nrScripts' = Sessions /\ \A t \in Sessions : nrScripts'[t] = NoScript \/ ScriptTyped(nrScripts'[t])
    BY DEF NRTyped
  <1>2. QED
    BY <1>1, NRTypeOfParts

LEMMA NRGoing ==
    ASSUME NRTyped, NEW s \in Sessions, nrScripts[s].at # "off"
    PROVE  ScriptTyped(nrScripts[s])
  BY NoScriptIsOver DEF NRTyped

\* A script at a step that is none of its changes.
LEMMA AtTyped ==
    ASSUME NEW script, ScriptTyped(script), NEW at \in {"enrol", "save", "start", "verify", "undo", "done", "failed", "broken"},
           at \in {"enrol", "save"} => script.step = 1
    PROVE  ScriptTyped([script EXCEPT !.at = at])
  <1>1. [script EXCEPT !.at = at] \in ScriptRecord
    BY DEF ScriptTyped, ScriptRecord, Places
  <1>2. /\ [script EXCEPT !.at = at].at = at /\ [script EXCEPT !.at = at].does = script.does
        /\ [script EXCEPT !.at = at].release = script.release /\ [script EXCEPT !.at = at].step = script.step
        /\ [script EXCEPT !.at = at].id = script.id
    BY DEF ScriptTyped, ScriptRecord
  <1>3. QED
    BY <1>1, <1>2 DEF ScriptTyped

LEMMA NRGoesStep ==
    ASSUME NRTyped, NEW s \in Sessions, nrScripts[s].at # "off",
           NEW at \in {"enrol", "save", "start", "verify", "undo", "done", "failed", "broken"}, Goes(s, at),
           at \in {"enrol", "save"} => nrScripts[s].step = 1,
           nrEnrolled' \in BOOLEAN, nrTorn' \in BOOLEAN,
           nrFiles' \in NodeFiles, nrStored' \subseteq RunnerReleases \union SandboxReleases,
           nrDevice' \in 0..MaxReleaseSteps, nrSteps' \in 0..MaxReleaseSteps,
           nrRuns' \in [is : Ways, release : RunnerReleases \union {NoRelease}]
    PROVE  NRTyped'
  <1>1. nrScripts' = [nrScripts EXCEPT ![s] = [nrScripts[s] EXCEPT !.at = at]]
    BY DEF Goes
  <1>2. ScriptTyped([nrScripts[s] EXCEPT !.at = at])
    BY NRGoing, AtTyped
  <1>3. QED
    BY <1>1, <1>2, NRScriptMoves

LEMMA RestoredTyped ==
    ASSUME NEW files \in NodeFiles, NEW script, script.saved \in NodeFiles
    PROVE  RestoredBy(script, files) \in NodeFiles
  <1>1. DOMAIN files = FileNames
    BY FilesAreFour
  <1> DEFINE r == RestoredBy(script, files)
  <1>2. r = [what \in FileNames |-> r[what]] /\ \A what \in FileNames : r[what] \in {script.saved[what], files[what]}
    BY <1>1 DEF RestoredBy
  <1> HIDE DEF r
  <1>3. /\ r["link"] \in RunnerReleases \union {NoRelease} /\ r["unit"] \in RunnerReleases \union {NoRelease}
        /\ r["env"] \in {"none", "plain", "bound"} /\ r["box"] \in SandboxReleases \union {NoRelease}
    BY <1>2 DEF FileNames, NodeFiles
  <1>4. r \in NodeFiles
    BY <1>2, <1>3 DEF FileNames, NodeFiles
  <1>5. QED
    BY <1>4 DEF r

LEMMA NRBeginStep ==
    ASSUME NRTyped, NEW s \in Sessions, NEW does \in ScriptKinds, NEW id \in Nat, id = nrSteps + 1 \/ id = nrDevice,
           NEW release \in (IF does = "sandbox" THEN SandboxReleases ELSE RunnerReleases), Begin(s, does, release, id)
    PROVE  NRTyped'
  <1> DEFINE alone == \A t \in Sessions : ScriptOver(nrScripts[t])
             script == [does |-> does, release |-> release, id |-> id, at |-> "unpack", step |-> 1, found |-> nrFiles,
                        saved |-> nrFiles, was |-> nrRuns.is, alone |-> alone]
             beside == [t \in Sessions |-> [nrScripts[t] EXCEPT !.alone = FALSE]]
  <1>1. /\ UNCHANGED <<nrFiles, nrStored, nrRuns, nrDevice, nrEnrolled>> /\ nrTorn' = (nrTorn \/ ~alone)
        /\ ReleaseSteps(1) \/ ReleaseSteps(2)
        /\ nrScripts' = [t \in Sessions |-> IF t = s THEN script
                                            ELSE IF ScriptOver(nrScripts[t]) THEN NoScript ELSE beside[t]]
    BY DEF Begin
  <1>2. id \in 0..MaxReleaseSteps /\ nrSteps' \in 0..MaxReleaseSteps
    <2>1. nrSteps \in Nat /\ MaxReleaseSteps \in Nat /\ nrDevice \in 0..MaxReleaseSteps
      BY NRFacts, NodeReleaseAssumption
    <2>2. nrSteps + 1 <= MaxReleaseSteps /\ nrSteps' \in 0..MaxReleaseSteps
      BY <1>1, <2>1 DEF ReleaseSteps
    <2>3. QED
      BY <2>1, <2>2
  <1> HIDE DEF alone
  <1>7. alone \in BOOLEAN /\ nrTorn' \in BOOLEAN
    BY <1>1, NRFacts DEF alone
  <1>3. script \in ScriptRecord
    BY <1>7, NRFacts DEF ScriptRecord, Places
  <1>8. ASSUME NEW t \in Sessions, ~ScriptOver(nrScripts[t])
        PROVE  ScriptTyped(beside[t])
    <2>1. ScriptTyped(nrScripts[t])
      BY <1>8, NoScriptIsOver DEF NRTyped
    <2>2. /\ beside[t] \in ScriptRecord /\ beside[t].id = nrScripts[t].id /\ beside[t].release = nrScripts[t].release
          /\ beside[t].does = nrScripts[t].does /\ beside[t].at = nrScripts[t].at /\ beside[t].step = nrScripts[t].step
      BY <2>1 DEF ScriptTyped, ScriptRecord
    <2>3. QED
      BY <2>1, <2>2 DEF ScriptTyped
  <1>4. ScriptTyped(script)
    BY <1>2, <1>3 DEF ScriptTyped
  <1> HIDE DEF script, beside
  <1>5. DOMAIN nrScripts' = Sessions /\ \A t \in Sessions : nrScripts'[t] = NoScript \/ ScriptTyped(nrScripts'[t])
    BY <1>1, <1>4, <1>8
  <1>6. QED
    BY <1>1, <1>2, <1>5, <1>7, NRFacts, NRTypeOfParts

LEMMA NRChangeStep ==
    ASSUME NRTyped, NEW s \in Sessions, ChangeFile(s)
    PROVE  NRTyped'
  <1> DEFINE script == nrScripts[s]
             limit == IF script.does = "bootstrap" THEN 3 ELSE 2
             at == IF script.step = limit THEN "start" ELSE "change"
             next == [script EXCEPT !.step = script.step + 1, !.at = at]
  <1>1. script.at = "change" /\ UNCHANGED <<nrStored, nrRuns, nrDevice, nrEnrolled, nrTorn, nrSteps>>
    BY DEF ChangeFile
  <1>2. ScriptTyped(script)
    BY <1>1, NRGoing
  <1>3. script.does \in ScriptKinds /\ script.step \in 1..limit /\ Len(Changes[script.does]) = limit
    <2>1. script.does \in {"bootstrap", "upgrade", "sandbox"} /\ script.step \in 1..limit
      BY <1>1, <1>2 DEF ScriptTyped, ScriptRecord, ScriptKinds
    <2> HIDE DEF script
    <2>2. CASE script.does = "bootstrap"
      BY <2>1, <2>2 DEF Changes, ScriptKinds
    <2>3. CASE script.does = "upgrade"
      BY <2>1, <2>3 DEF Changes, ScriptKinds
    <2>4. CASE script.does = "sandbox"
      BY <2>1, <2>4 DEF Changes, ScriptKinds
    <2>5. QED
      BY <2>1, <2>2, <2>3, <2>4
  <1>4. nrScripts' = [nrScripts EXCEPT ![s] = next]
    BY <1>1, <1>3 DEF ChangeFile
  <1>5. next \in ScriptRecord
    <2>1. script.step + 1 \in Nat /\ at \in {"start", "change"} /\ script \in ScriptRecord
      BY <1>2, <1>3 DEF ScriptTyped
    <2> HIDE DEF script, at, limit
    <2>2. QED
      BY <2>1 DEF ScriptRecord, Places
  <1>6. next.at = at /\ next.does = script.does /\ next.release = script.release /\ next.step = script.step + 1 /\ next.id = script.id
    BY <1>2 DEF ScriptTyped, ScriptRecord
  <1>7. ScriptTyped(next)
    BY <1>2, <1>3, <1>5, <1>6 DEF ScriptTyped
  <1>8. Changes[script.does][script.step] \in
          (IF script.does = "sandbox" THEN {"socket", "box"} ELSE {"link", "env", "unit"})
    BY <1>3 DEF Changes, ScriptKinds
  <1>9. nrFiles' \in NodeFiles
    <2> DEFINE what == Changes[script.does][script.step]
    <2>1. nrFiles' = Changed(nrFiles, what, script.release) /\ nrFiles \in NodeFiles
      BY NRFacts DEF ChangeFile
    <2>2. CASE script.does = "sandbox"
      <3>1. script.release \in SandboxReleases /\ what \in {"socket", "box"}
        BY <1>2, <1>8, <2>2 DEF ScriptTyped
      <3> HIDE DEF what, script
      <3>2. QED
        BY <2>1, <3>1 DEF Changed, NodeFiles
    <2>3. CASE script.does # "sandbox"
      <3>1. script.release \in RunnerReleases /\ what \in {"link", "env", "unit"}
        BY <1>2, <1>8, <2>3 DEF ScriptTyped
      <3> HIDE DEF what, script
      <3>2. QED
        BY <2>1, <3>1 DEF Changed, NodeFiles
    <2>4. QED
      BY <2>2, <2>3
  <1> HIDE DEF next
  <1>10. QED
    BY <1>1, <1>4, <1>7, <1>9, NRFacts, NRScriptMoves

LEMMA NRSaveStep ==
    ASSUME NRTyped, NEW s \in Sessions, SaveFiles(s)
    PROVE  NRTyped'
  <1> DEFINE saved == IF nrScripts[s].does = "upgrade" THEN [nrFiles EXCEPT !.link = nrScripts[s].saved.link] ELSE nrFiles
             next == [nrScripts[s] EXCEPT !.at = "change", !.saved = saved, !.was = nrRuns.is]
  <1>1. /\ nrScripts[s].at = "save" /\ nrScripts' = [nrScripts EXCEPT ![s] = next]
        /\ UNCHANGED <<nrFiles, nrStored, nrRuns, nrDevice, nrEnrolled, nrTorn, nrSteps>>
    BY DEF SaveFiles
  <1>2. ScriptTyped(nrScripts[s]) /\ nrScripts[s].step = 1
    BY <1>1, NRGoing DEF ScriptTyped
  <1>7. saved \in NodeFiles
    BY <1>2, NRFacts DEF ScriptTyped, ScriptRecord, NodeFiles
  <1> HIDE DEF saved
  <1>3. next \in ScriptRecord
    BY <1>2, <1>7, NRFacts DEF ScriptTyped, ScriptRecord, Places
  <1>4. /\ next.at = "change" /\ next.does = nrScripts[s].does /\ next.release = nrScripts[s].release
        /\ next.step = 1 /\ next.id = nrScripts[s].id
    BY <1>2 DEF ScriptTyped, ScriptRecord
  <1>5. ScriptTyped(next)
    BY <1>2, <1>3, <1>4 DEF ScriptTyped
  <1> HIDE DEF next
  <1>6. QED
    BY <1>1, <1>5, NRFacts, NRScriptMoves

\* What a rollback that stops halfway, or a kill during it, leaves.
LEMMA PartlyRestored ==
    ASSUME NRTyped, NEW s \in Sessions, nrScripts[s] # NoScript, RestoredInPart(s)
    PROVE  /\ nrFiles' \in NodeFiles
           /\ \A what \in FileNames : nrFiles'[what] \in {nrFiles[what], RestoredBy(nrScripts[s], nrFiles)[what]}
  <1> DEFINE restored == RestoredBy(nrScripts[s], nrFiles)
  <1>1. ScriptTyped(nrScripts[s])
    BY DEF NRTyped
  <1>2. restored \in NodeFiles /\ nrFiles \in NodeFiles /\ DOMAIN nrFiles = FileNames
    BY <1>1, RestoredTyped, FilesAreFour, NRFacts DEF ScriptTyped, ScriptRecord
  <1>3. PICK kept : nrFiles' = [what \in FileNames |-> IF what \in kept THEN nrFiles[what] ELSE restored[what]]
    BY <1>2 DEF RestoredInPart
  <1>4. \A what \in FileNames : nrFiles'[what] \in {nrFiles[what], restored[what]}
    BY <1>3
  <1> HIDE DEF restored
  <1>5. nrFiles' \in NodeFiles
    BY <1>2, <1>3 DEF FileNames, NodeFiles
  <1>6. QED
    BY <1>4, <1>5 DEF restored

LEMMA EnrolledTyped ==
    ASSUME NRTyped, NEW s \in Sessions, nrScripts[s] # NoScript, EnrolledHalfway(s)
    PROVE  nrDevice' \in 0..MaxReleaseSteps /\ nrEnrolled' \in BOOLEAN
  BY NRFacts DEF EnrolledHalfway, NRTyped, ScriptTyped

LEMMA NRKilledStep ==
    ASSUME NRTyped, NEW s \in Sessions, ScriptKilled(s)
    PROVE  NRTyped'
  <1>1. nrScripts[s] # NoScript
    BY NoScriptIsOver DEF ScriptKilled
  <1>2. /\ nrScripts' = [nrScripts EXCEPT ![s] = NoScript] /\ UNCHANGED <<nrStored, nrRuns>> /\ ReleaseStep
        /\ nrTorn' = (nrTorn \/ Tears(nrScripts[s])) /\ EnrolledHalfway(s)
        /\ RestoredInPart(s) \/ UNCHANGED nrFiles
    BY DEF ScriptKilled
  <1>3. nrFiles' \in NodeFiles
    BY <1>1, <1>2, PartlyRestored, NRFacts
  <1>4. nrTorn' \in BOOLEAN /\ nrDevice' \in 0..MaxReleaseSteps /\ nrEnrolled' \in BOOLEAN
    BY <1>1, <1>2, EnrolledTyped, NRFacts DEF Tears
  <1>5. QED
    BY <1>2, <1>3, <1>4, NRFacts, NRScriptMoves

LEMMA NRUndoFailsStep ==
    ASSUME NRTyped, NEW s \in Sessions, UndoFails(s)
    PROVE  NRTyped'
  <1>1. nrScripts[s] # NoScript
    BY NoScriptIsOver DEF UndoFails
  <1>2. /\ nrScripts[s].at = "undo" /\ Goes(s, "broken") /\ UNCHANGED <<nrStored, nrRuns, nrDevice, nrEnrolled>>
        /\ ReleaseStep /\ nrTorn' = (nrTorn \/ Tears(nrScripts[s])) /\ RestoredInPart(s)
    BY DEF UndoFails
  <1>3. nrFiles' \in NodeFiles /\ nrTorn' \in BOOLEAN
    BY <1>1, <1>2, PartlyRestored, NRFacts DEF Tears
  <1>4. QED
    BY <1>2, <1>3, NRFacts, NRGoesStep

LEMMA NRTypeStart == NodeReleaseInit => NRTyped
  <1> SUFFICES ASSUME NodeReleaseInit PROVE NRTyped
    OBVIOUS
  <1>1. 0 \in 0..MaxReleaseSteps
    BY NodeReleaseAssumption
  <1>2. QED
    BY <1>1, NoScriptIsOver DEF NodeReleaseInit, NRTyped, NodeReleaseTypeOK, Stopped

LEMMA NRTypeKept == NRTyped /\ [NodeReleaseNext]_nrVars => NRTyped'
  <1> SUFFICES ASSUME NRTyped, [NodeReleaseNext]_nrVars PROVE NRTyped'
    OBVIOUS
  <1>1. /\ nrFiles \in NodeFiles /\ nrStored \subseteq RunnerReleases \union SandboxReleases
        /\ nrDevice \in 0..MaxReleaseSteps /\ nrSteps \in 0..MaxReleaseSteps
        /\ nrRuns \in [is : Ways, release : RunnerReleases \union {NoRelease}]
        /\ nrEnrolled \in BOOLEAN /\ nrTorn \in BOOLEAN
    BY NRFacts
  <1>2. ASSUME NEW s \in Sessions, BootstrapRunner(s) PROVE NRTyped'
    <2>1. PICK release \in RunnerReleases, id \in {NewEnrolment} \union HandoffEnrolment : Begin(s, "bootstrap", release, id)
      BY <1>2 DEF BootstrapRunner
    <2>2. id \in Nat /\ (id = nrSteps + 1 \/ id = nrDevice)
      BY <1>1, NodeReleaseAssumption DEF NewEnrolment, HandoffEnrolment
    <2>3. QED
      BY <2>1, <2>2, NRBeginStep DEF ScriptKinds
  <1>3. ASSUME NEW s \in Sessions, UpgradeRunner(s) \/ InstallSandbox(s) PROVE NRTyped'
    <2>1. nrDevice \in Nat
      BY <1>1, NodeReleaseAssumption
    <2>2. QED
      BY <1>3, <2>1, NRBeginStep DEF UpgradeRunner, InstallSandbox, ScriptKinds
  <1>4. ASSUME NEW s \in Sessions, Unpack(s) PROVE NRTyped'
    <2>1. nrScripts[s].at # "off" /\ ScriptTyped(nrScripts[s]) /\ nrScripts[s].step = 1
      BY <1>4, NRGoing DEF Unpack, ScriptTyped
    <2>2. nrStored' \subseteq RunnerReleases \union SandboxReleases
      BY <1>1, <1>4, <2>1 DEF Unpack, ScriptTyped
    <2>3. \E at \in {"enrol", "save"} : Goes(s, at)
      BY <1>4 DEF Unpack
    <2>4. QED
      BY <1>1, <1>4, <2>1, <2>2, <2>3, NRGoesStep DEF Unpack
  <1>5. ASSUME NEW s \in Sessions, EnrolNode(s) PROVE NRTyped'
    <2>1. nrScripts[s].at # "off" /\ ScriptTyped(nrScripts[s]) /\ nrScripts[s].step = 1
      BY <1>5, NRGoing DEF EnrolNode, ScriptTyped
    <2>2. nrDevice' \in 0..MaxReleaseSteps /\ nrEnrolled' \in BOOLEAN
      BY <1>1, <1>5, <2>1 DEF EnrolNode, ScriptTyped
    <2>3. \E at \in {"save", "failed"} : Goes(s, at)
      BY <1>5 DEF EnrolNode
    <2>4. QED
      BY <1>1, <1>5, <2>1, <2>2, <2>3, NRGoesStep DEF EnrolNode
  <1>6. ASSUME NEW s \in Sessions, StartService(s) PROVE NRTyped'
    <2>1. nrRuns' \in [is : Ways, release : RunnerReleases \union {NoRelease}]
      BY <1>1, <1>6, ServiceRuns DEF StartService
    <2>2. QED
      BY <1>1, <1>6, <2>1, NRGoesStep DEF StartService
  <1>7. ASSUME NEW s \in Sessions, VerifyRelease(s) PROVE NRTyped'
    <2>1. \E at \in {"done", "undo"} : Goes(s, at)
      BY <1>7 DEF VerifyRelease
    <2>2. nrTorn' \in BOOLEAN
      BY <1>1, <1>7 DEF VerifyRelease
    <2>3. QED
      BY <1>1, <1>7, <2>1, <2>2, NRGoesStep DEF VerifyRelease
  <1>8. ASSUME NEW s \in Sessions, StepFails(s) PROVE NRTyped'
    <2>1. \E at \in {"failed", "undo"} : Goes(s, at)
      BY <1>8 DEF StepFails
    <2>2. /\ nrScripts[s].at # "off" /\ nrSteps' \in 0..MaxReleaseSteps
          /\ nrDevice' \in 0..MaxReleaseSteps /\ nrEnrolled' \in BOOLEAN
      BY <1>8, NRFacts, NoScriptIsOver, EnrolledTyped DEF StepFails
    <2>3. QED
      BY <1>1, <1>8, <2>1, <2>2, NRGoesStep DEF StepFails
  <1>9. ASSUME NEW s \in Sessions, Undo(s) PROVE NRTyped'
    <2>1. nrScripts[s].at # "off" /\ ScriptTyped(nrScripts[s])
      BY <1>9, NRGoing DEF Undo
    <2>2. nrFiles' \in NodeFiles
      BY <1>1, <1>9, <2>1, RestoredTyped DEF Undo, ScriptTyped, ScriptRecord
    <2>4. Stopped \in [is : Ways, release : RunnerReleases \union {NoRelease}]
      BY DEF Stopped, Ways
    <2>5. nrRuns' \in {Service(nrFiles'), Stopped}
      BY <1>9 DEF Undo
    <2>6. nrRuns' \in [is : Ways, release : RunnerReleases \union {NoRelease}]
      BY <2>2, <2>4, <2>5, ServiceRuns
    <2>7. QED
      BY <1>1, <1>9, <2>1, <2>2, <2>6, NRGoesStep DEF Undo
  <1>10. CASE NodeReboots
    <2>1. nrRuns' \in [is : Ways, release : RunnerReleases \union {NoRelease}] /\ nrSteps' \in 0..MaxReleaseSteps
      BY <1>1, <1>10, ServiceRuns, NRFacts DEF NodeReboots
    <2>2. QED
      BY <1>1, <1>10, <2>1, NRTypeOfParts DEF NodeReboots, NRTyped
  <1>11. CASE UNCHANGED nrVars
    BY <1>1, <1>11, NRTypeOfParts DEF nrVars, NRTyped
  <1>12. QED
    BY <1>2, <1>3, <1>4, <1>5, <1>6, <1>7, <1>8, <1>9, <1>10, <1>11, NRChangeStep, NRSaveStep,
       NRKilledStep, NRUndoFailsStep
       DEF NodeReleaseNext

-----------------------------------------------------------------------------
(***************************************************************************)
(* What the links name, what a script that is alone has done so far, and   *)
(* what is of one release until something leaves two.                      *)
(***************************************************************************)
StoredScript(script, stored) ==
    /\ {script.saved.link, script.saved.box} \subseteq stored \union {NoRelease}
    /\ script.at \in {"enrol", "save", "change"} => script.release \in stored
StoredInv ==
    /\ {nrFiles.link, nrFiles.box} \subseteq nrStored \union {NoRelease}
    /\ \A s \in Sessions : nrScripts[s] = NoScript \/ StoredScript(nrScripts[s], nrStored)

\* What a script of its kind does not touch is as it was saved.
Untouched(script, files) ==
    /\ script.does = "sandbox" => files.link = script.saved.link /\ files.unit = script.saved.unit
    /\ script.does # "sandbox" => files.box = script.saved.box
    /\ script.does = "upgrade" => files.env = script.saved.env
Halfway(script, files) ==
    /\ script.does = "sandbox" /\ script.step # 1 => files.env = "bound"
    /\ script.does # "sandbox" /\ script.step # 1 => files.link = script.release
Installed(script, files) ==
    IF script.does = "sandbox" THEN files.env = "bound" /\ files.box = script.release
    ELSE files.link = script.release /\ files.unit = script.release

\* Until it is done, a script that is alone can put back all it found.
AloneOK(script, files, runs) ==
    /\ script.saved = script.found
    /\ script.at \in {"unpack", "enrol", "save", "failed"} => files = script.found
    /\ script.at \in {"change", "start", "verify", "undo"} => Untouched(script, files)
    /\ script.at = "change" => Halfway(script, files)
    /\ script.at \in {"start", "verify", "done"} => Installed(script, files)
    /\ script.at \in {"verify", "done"} /\ script.does = "upgrade" => runs = Service(files)
    /\ script.at = "done" /\ script.does = "upgrade" => runs.is = "active"
AloneInv ==
    \A s \in Sessions : nrScripts[s] # NoScript /\ nrScripts[s].alone =>
        /\ \A t \in Sessions : t # s => nrScripts[t] = NoScript
        /\ AloneOK(nrScripts[s], nrFiles, nrRuns)

\* While nothing is torn, what is saved and what is not being changed is of one release.
Coherent(script, files) ==
    /\ script.at \notin {"done", "failed", "broken"} => script.saved.link = script.saved.unit
    /\ (script.does # "sandbox" /\ script.at \in {"change", "undo"}) \/ files.link = files.unit
TornInv ==
    ~nrTorn =>
        /\ \A s \in Sessions : nrScripts[s] # NoScript => nrScripts[s].alone /\ Coherent(nrScripts[s], nrFiles)
        /\ (\A s \in Sessions : nrScripts[s] = NoScript) => nrFiles.link = nrFiles.unit

ReleaseInv == NRTyped /\ StoredInv /\ AloneInv /\ TornInv

LEMMA RestoredFields ==
    ASSUME NEW f \in NodeFiles, NEW script, script.saved \in NodeFiles, Untouched(script, f)
    PROVE  RestoredBy(script, f) = script.saved
  <1> DEFINE r == RestoredBy(script, f)
  <1>1. r = [what \in FileNames |->
     IF what \in (IF script.does = "sandbox" THEN {"env", "box"}
                  ELSE IF script.does = "upgrade" THEN {"link", "unit"} ELSE {"link", "unit", "env"})
     THEN script.saved[what] ELSE f[what]]
    BY FilesAreFour DEF RestoredBy
  <1>2. script.saved = [what \in FileNames |-> script.saved[what]]
    BY DEF NodeFiles, FileNames
  <1>3. \A what \in FileNames : r[what] = script.saved[what]
    BY <1>1 DEF Untouched, FileNames
  <1>4. QED
    BY <1>1, <1>2, <1>3

\* A file put back is as it is or as it was saved; a sandbox script leaves link and unit alone.
LEMMA RestoredFrom ==
    ASSUME NEW f \in NodeFiles, NEW script
    PROVE  /\ \A what \in FileNames : RestoredBy(script, f)[what] \in {f[what], script.saved[what]}
           /\ script.does = "sandbox" => RestoredBy(script, f)["link"] = f["link"] /\ RestoredBy(script, f)["unit"] = f["unit"]
           /\ script.does # "sandbox" => /\ RestoredBy(script, f)["link"] = script.saved["link"]
                                         /\ RestoredBy(script, f)["unit"] = script.saved["unit"]
  <1> DEFINE r == RestoredBy(script, f)
  <1>1. r = [what \in FileNames |->
     IF what \in (IF script.does = "sandbox" THEN {"env", "box"}
                  ELSE IF script.does = "upgrade" THEN {"link", "unit"} ELSE {"link", "unit", "env"})
     THEN script.saved[what] ELSE f[what]]
    BY FilesAreFour DEF RestoredBy
  <1>2. QED
    BY <1>1 DEF FileNames

\* A script moves on: what holds of it where it is, and of the files it leaves, is what is to show.
LEMMA ScriptMoves ==
    ASSUME ReleaseInv, NRTyped', NEW s \in Sessions, nrScripts[s] # NoScript, NEW next,
           nrScripts' = [nrScripts EXCEPT ![s] = next],
           nrStored \subseteq nrStored', {nrFiles'.link, nrFiles'.box} \subseteq nrStored' \union {NoRelease},
           next = NoScript \/ (StoredScript(next, nrStored') /\ next.alone = nrScripts[s].alone),
           next # NoScript /\ nrScripts[s].alone => AloneOK(next, nrFiles', nrRuns'),
           ~nrTorn' => nrScripts[s].alone /\ (IF next = NoScript THEN nrFiles'.link = nrFiles'.unit ELSE Coherent(next, nrFiles'))
    PROVE  ReleaseInv'
  <1>1. nrScripts'[s] = next /\ \A t \in Sessions : t # s => nrScripts'[t] = nrScripts[t]
    BY DEF ReleaseInv, NRTyped
  <1>2. StoredInv'
    <2>1. ASSUME NEW t \in Sessions, nrScripts'[t] # NoScript
          PROVE  StoredScript(nrScripts'[t], nrStored')
      <3>1. CASE t = s
        BY <1>1, <2>1, <3>1
      <3>2. CASE t # s
        BY <1>1, <2>1, <3>2 DEF ReleaseInv, StoredInv, StoredScript
      <3>3. QED
        BY <3>1, <3>2
    <2>2. QED
      BY <2>1 DEF StoredInv
  <1>3. CASE nrScripts[s].alone
    <2>1. \A t \in Sessions : t # s => nrScripts'[t] = NoScript
      BY <1>1, <1>3 DEF ReleaseInv, AloneInv
    <2>2. AloneInv'
      <3>1. ASSUME NEW t \in Sessions, nrScripts'[t] # NoScript
            PROVE  t = s /\ next # NoScript
        BY <1>1, <2>1, <3>1
      <3>2. QED
        BY <1>1, <1>3, <2>1, <3>1 DEF AloneInv
    <2>3. TornInv'
      BY <1>1, <1>3, <2>1 DEF TornInv
    <2>4. QED
      BY <1>2, <2>2, <2>3 DEF ReleaseInv
  <1>4. CASE ~nrScripts[s].alone
    <2>1. \A t \in Sessions : nrScripts[t] # NoScript => ~nrScripts[t].alone
      BY <1>4 DEF ReleaseInv, AloneInv
    <2>2. AloneInv'
      BY <1>1, <1>4, <2>1 DEF AloneInv
    <2>3. TornInv'
      BY <1>4 DEF TornInv
    <2>4. QED
      BY <1>2, <2>2, <2>3 DEF ReleaseInv
  <1>5. QED
    BY <1>3, <1>4

\* What is known of a script that is under way.
LEMMA Known ==
    ASSUME ReleaseInv, NEW s \in Sessions, nrScripts[s].at # "off"
    PROVE  /\ nrScripts[s] # NoScript /\ ScriptTyped(nrScripts[s]) /\ StoredScript(nrScripts[s], nrStored)
           /\ nrScripts[s].alone => AloneOK(nrScripts[s], nrFiles, nrRuns)
           /\ ~nrTorn => nrScripts[s].alone /\ Coherent(nrScripts[s], nrFiles)
           /\ {nrFiles.link, nrFiles.box} \subseteq nrStored \union {NoRelease} /\ nrFiles \in NodeFiles
  BY NoScriptIsOver, NRFacts DEF ReleaseInv, NRTyped, StoredInv, AloneInv, TornInv

LEMMA GoneTo ==
    ASSUME NEW script, ScriptTyped(script), NEW at
    PROVE  LET next == [script EXCEPT !.at = at] IN
           /\ next.at = at /\ next.does = script.does /\ next.release = script.release /\ next.step = script.step
           /\ next.saved = script.saved /\ next.found = script.found /\ next.alone = script.alone /\ next.was = script.was
  BY DEF ScriptTyped, ScriptRecord

\* It goes to another place: only what depends on the place is to show.
LEMMA ScriptGoes ==
    ASSUME ReleaseInv, NRTyped', NEW s \in Sessions, nrScripts[s].at # "off", NEW at, at # "off", Goes(s, at),
           nrStored \subseteq nrStored', {nrFiles'.link, nrFiles'.box} \subseteq nrStored' \union {NoRelease},
           at \in {"enrol", "save", "change"} => nrScripts[s].release \in nrStored',
           \A next : /\ next.at = at /\ next.does = nrScripts[s].does /\ next.release = nrScripts[s].release
                     /\ next.step = nrScripts[s].step /\ next.saved = nrScripts[s].saved
                     /\ next.found = nrScripts[s].found
                     => /\ nrScripts[s].alone => AloneOK(next, nrFiles', nrRuns')
                        /\ ~nrTorn' => nrScripts[s].alone /\ Coherent(next, nrFiles')
    PROVE  ReleaseInv'
  <1> DEFINE next == [nrScripts[s] EXCEPT !.at = at]
  <1>1. nrScripts[s] # NoScript /\ ScriptTyped(nrScripts[s]) /\ StoredScript(nrScripts[s], nrStored)
    BY Known
  <1>2. nrScripts' = [nrScripts EXCEPT ![s] = next]
    BY DEF Goes
  <1>3. /\ next.at = at /\ next.does = nrScripts[s].does /\ next.release = nrScripts[s].release
        /\ next.step = nrScripts[s].step /\ next.saved = nrScripts[s].saved
        /\ next.found = nrScripts[s].found /\ next.alone = nrScripts[s].alone
    BY <1>1, GoneTo
  <1> HIDE DEF next
  <1>4. StoredScript(next, nrStored')
    BY <1>1, <1>3 DEF StoredScript
  <1>5. next # NoScript
    BY <1>3, NoScriptIsOver
  <1>6. /\ nrScripts[s].alone => AloneOK(next, nrFiles', nrRuns')
        /\ ~nrTorn' => nrScripts[s].alone /\ Coherent(next, nrFiles')
    BY <1>3
  <1>7. QED
    BY <1>1, <1>2, <1>3, <1>4, <1>5, <1>6, ScriptMoves

LEMMA ScriptBeginsStep ==
    ASSUME ReleaseInv, NRTyped', NEW s \in Sessions, NEW does, NEW release, NEW id, Begin(s, does, release, id)
    PROVE  ReleaseInv'
  <1> DEFINE alone == \A t \in Sessions : ScriptOver(nrScripts[t])
             script == [does |-> does, release |-> release, id |-> id, at |-> "unpack", step |-> 1, found |-> nrFiles,
                        saved |-> nrFiles, was |-> nrRuns.is, alone |-> alone]
  <1>1. /\ UNCHANGED <<nrFiles, nrStored, nrRuns, nrDevice, nrEnrolled>> /\ nrTorn' = (nrTorn \/ ~alone)
        /\ nrScripts' = [t \in Sessions |-> IF t = s THEN script
             ELSE IF ScriptOver(nrScripts[t]) THEN NoScript ELSE [nrScripts[t] EXCEPT !.alone = FALSE]]
    BY DEF Begin
  <1>2. /\ script.at = "unpack" /\ script.does = does /\ script.saved = nrFiles /\ script.found = nrFiles /\ script.alone = alone
        /\ script # NoScript
    BY DEF NoScript
  <1> HIDE DEF script
  <1>3. nrScripts'[s] = script
        /\ \A t \in Sessions : t # s => nrScripts'[t] = IF ScriptOver(nrScripts[t]) THEN NoScript
                                                        ELSE [nrScripts[t] EXCEPT !.alone = FALSE]
    BY <1>1
  <1>4. StoredInv'
    <2>1. {nrFiles'.link, nrFiles'.box} \subseteq nrStored' \union {NoRelease}
      BY <1>1 DEF ReleaseInv, StoredInv
    <2>2. StoredScript(script, nrStored')
      BY <1>1, <1>2, <2>1 DEF StoredScript
    <2>3. ASSUME NEW t \in Sessions, t # s, ~ScriptOver(nrScripts[t])
          PROVE  StoredScript(nrScripts'[t], nrStored')
      <3>1. ScriptTyped(nrScripts[t]) /\ StoredScript(nrScripts[t], nrStored)
        BY <2>3, NoScriptIsOver DEF ReleaseInv, NRTyped, StoredInv
      <3>2. nrScripts'[t].saved = nrScripts[t].saved /\ nrScripts'[t].at = nrScripts[t].at
            /\ nrScripts'[t].release = nrScripts[t].release
        BY <1>3, <2>3, <3>1 DEF ScriptTyped, ScriptRecord
      <3>3. QED
        BY <1>1, <3>1, <3>2 DEF StoredScript
    <2>4. \A t \in Sessions : nrScripts'[t] = NoScript \/ StoredScript(nrScripts'[t], nrStored')
      BY <1>3, <2>2, <2>3
    <2>5. QED
      BY <2>1, <2>4 DEF StoredInv
  <1>5. CASE alone
    <2>1. \A t \in Sessions : t # s => nrScripts'[t] = NoScript
      BY <1>3, <1>5
    <2> HIDE DEF alone
    <2>2. AloneOK(script, nrFiles', nrRuns')
      BY <1>1, <1>2 DEF AloneOK
    <2>3. AloneInv'
      BY <1>3, <2>1, <2>2 DEF AloneInv
    <2>4. ~nrTorn => nrFiles.link = nrFiles.unit
      <3>1. CASE \E t \in Sessions : nrScripts[t] # NoScript
        BY <1>5, <3>1 DEF alone, ScriptOver, ReleaseInv, TornInv, Coherent
      <3>2. CASE \A t \in Sessions : nrScripts[t] = NoScript
        BY <3>2 DEF ReleaseInv, TornInv
      <3>3. QED
        BY <3>1, <3>2
    <2>5. ~nrTorn' => Coherent(script, nrFiles')
      BY <1>1, <1>2, <2>4 DEF Coherent
    <2>6. TornInv'
      BY <1>2, <1>3, <1>5, <2>1, <2>5 DEF TornInv
    <2>7. QED
      BY <1>4, <2>3, <2>6 DEF ReleaseInv
  <1>6. CASE ~alone
    <2>1. \A t \in Sessions : nrScripts'[t] # NoScript => ~nrScripts'[t].alone
      <3>1. ASSUME NEW t \in Sessions, t # s, ~ScriptOver(nrScripts[t])
            PROVE  ~nrScripts'[t].alone
        <4>1. ScriptTyped(nrScripts[t])
          BY <3>1, NoScriptIsOver DEF ReleaseInv, NRTyped
        <4>2. QED
          BY <1>3, <3>1, <4>1 DEF ScriptTyped, ScriptRecord
      <3> HIDE DEF alone
      <3>2. QED
        BY <1>2, <1>3, <1>6, <3>1
    <2> HIDE DEF alone
    <2>2. AloneInv'
      BY <2>1 DEF AloneInv
    <2>3. TornInv'
      BY <1>1, <1>6 DEF TornInv
    <2>4. QED
      BY <1>4, <2>2, <2>3 DEF ReleaseInv
  <1>7. QED
    BY <1>5, <1>6

LEMMA UnpackStep ==
    ASSUME ReleaseInv, NRTyped', NEW s \in Sessions, Unpack(s)
    PROVE  ReleaseInv'
  <1> DEFINE at == IF nrScripts[s].does = "bootstrap" THEN "enrol" ELSE "save"
  <1>1. /\ nrScripts[s].at = "unpack" /\ nrStored' = nrStored \union {nrScripts[s].release} /\ Goes(s, at)
        /\ UNCHANGED <<nrFiles, nrRuns, nrTorn>> /\ at \in {"enrol", "save"}
    BY DEF Unpack
  <1> HIDE DEF at
  <1>2. /\ nrScripts[s].alone => AloneOK(nrScripts[s], nrFiles, nrRuns)
        /\ ~nrTorn => nrScripts[s].alone /\ Coherent(nrScripts[s], nrFiles)
        /\ {nrFiles.link, nrFiles.box} \subseteq nrStored \union {NoRelease}
    BY <1>1, Known
  <1>3. ASSUME NEW next, next.at = at, next.does = nrScripts[s].does, next.step = nrScripts[s].step,
               next.saved = nrScripts[s].saved, next.found = nrScripts[s].found
        PROVE  /\ nrScripts[s].alone => AloneOK(next, nrFiles', nrRuns')
               /\ ~nrTorn' => nrScripts[s].alone /\ Coherent(next, nrFiles')
    BY <1>1, <1>2, <1>3 DEF AloneOK, Coherent
  <1>4. QED
    BY <1>1, <1>2, <1>3, ScriptGoes

\* A script that has touched nothing goes on or gives up.
LEMMA EnrolNodeStep ==
    ASSUME ReleaseInv, NRTyped', NEW s \in Sessions, EnrolNode(s)
    PROVE  ReleaseInv'
  <1>1. PICK at \in {"save", "failed"} : Goes(s, at)
    BY DEF EnrolNode
  <1>2. nrScripts[s].at = "enrol" /\ UNCHANGED <<nrFiles, nrStored, nrRuns, nrTorn>>
    BY DEF EnrolNode
  <1>3. /\ nrScripts[s].alone => AloneOK(nrScripts[s], nrFiles, nrRuns)
        /\ ~nrTorn => nrScripts[s].alone /\ Coherent(nrScripts[s], nrFiles)
        /\ {nrFiles.link, nrFiles.box} \subseteq nrStored \union {NoRelease}
        /\ nrScripts[s].release \in nrStored
    BY <1>2, Known DEF StoredScript
  <1>4. ASSUME NEW next, next.at = at, next.does = nrScripts[s].does, next.step = nrScripts[s].step,
               next.saved = nrScripts[s].saved, next.found = nrScripts[s].found
        PROVE  /\ nrScripts[s].alone => AloneOK(next, nrFiles', nrRuns')
               /\ ~nrTorn' => nrScripts[s].alone /\ Coherent(next, nrFiles')
    BY <1>2, <1>3, <1>4 DEF AloneOK, Coherent
  <1>5. QED
    BY <1>1, <1>2, <1>3, <1>4, ScriptGoes

\* A script that is alone saves what it found, the link it read earlier included.
LEMMA SaveStep ==
    ASSUME ReleaseInv, NRTyped', NEW s \in Sessions, SaveFiles(s)
    PROVE  ReleaseInv'
  <1> DEFINE script == nrScripts[s]
             saved == IF script.does = "upgrade" THEN [nrFiles EXCEPT !.link = script.saved.link] ELSE nrFiles
             next == [script EXCEPT !.at = "change", !.saved = saved, !.was = nrRuns.is]
  <1>1. /\ script.at = "save" /\ nrScripts' = [nrScripts EXCEPT ![s] = next]
        /\ UNCHANGED <<nrFiles, nrStored, nrRuns, nrTorn>>
    BY DEF SaveFiles
  <1>2. /\ script # NoScript /\ ScriptTyped(script) /\ script.step = 1 /\ script.release \in nrStored
        /\ {script.saved.link, script.saved.box} \subseteq nrStored \union {NoRelease}
        /\ script.alone => AloneOK(script, nrFiles, nrRuns)
        /\ ~nrTorn => script.alone /\ Coherent(script, nrFiles)
        /\ {nrFiles.link, nrFiles.box} \subseteq nrStored \union {NoRelease} /\ nrFiles \in NodeFiles
    BY <1>1, Known DEF StoredScript, ScriptTyped
  <1>3. /\ next.at = "change" /\ next.does = script.does /\ next.release = script.release /\ next.step = script.step
        /\ next.saved = saved /\ next.found = script.found /\ next.alone = script.alone
    BY <1>2 DEF ScriptTyped, ScriptRecord
  <1>4. {saved.link, saved.box} \subseteq nrStored \union {NoRelease}
    BY <1>2 DEF NodeFiles
  <1>5. script.alone => saved = nrFiles /\ nrFiles = script.found
    <2>1. ASSUME script.alone
          PROVE  script.saved = script.found /\ nrFiles = script.found
      BY <1>1, <1>2, <2>1 DEF AloneOK
    <2>2. [nrFiles EXCEPT !.link = nrFiles.link] = nrFiles
      BY <1>2 DEF NodeFiles
    <2>3. QED
      BY <2>1, <2>2
  <1> HIDE DEF script, saved, next
  <1>6. StoredScript(next, nrStored') /\ next # NoScript
    BY <1>1, <1>2, <1>3, <1>4, NoScriptIsOver DEF StoredScript
  <1>7. script.alone => AloneOK(next, nrFiles', nrRuns')
    BY <1>1, <1>2, <1>3, <1>5 DEF AloneOK, Untouched, Halfway
  <1>8. ~nrTorn' => script.alone /\ Coherent(next, nrFiles')
    BY <1>1, <1>2, <1>3, <1>5 DEF Coherent
  <1>9. QED
    BY <1>1, <1>2, <1>3, <1>6, <1>7, <1>8, ScriptMoves DEF script

\* What one change does: each script goes through its own, in order, and the last leaves it installed.
LEMMA OneChange ==
    ASSUME NEW files \in NodeFiles, NEW script, ScriptTyped(script), script.at = "change"
    PROVE  LET last == Len(Changes[script.does])
               after == Changed(files, Changes[script.does][script.step], script.release) IN
           /\ {after.link, after.box} \subseteq {files.link, files.box, script.release}
           /\ Untouched(script, files) => Untouched(script, after)
           /\ script.does = "sandbox" => after.link = files.link /\ after.unit = files.unit
           /\ Halfway(script, files) =>
                IF script.step = last THEN Installed(script, after)
                ELSE /\ script.does = "sandbox" => after.env = "bound"
                     /\ script.does # "sandbox" => after.link = script.release
  <1>1. CASE script.does = "bootstrap"
    <2> DEFINE changes == Changes[script.does]
    <2>1. changes = <<"link", "env", "unit">> /\ Len(changes) = 3 /\ changes[1] = "link" /\ changes[2] = "env" /\ changes[3] = "unit"
      BY <1>1 DEF Changes
    <2>2. script.step \in {1, 2, 3}
      BY <1>1 DEF ScriptTyped
    <2> HIDE DEF changes
    <2>3. CASE script.step = 1
      <3>1. Changed(files, changes[script.step], script.release) = [files EXCEPT !.link = script.release]
        BY <2>1, <2>3 DEF Changed
      <3>2. QED
        BY <1>1, <2>1, <2>3, <3>1 DEF NodeFiles, Untouched, Halfway, changes
    <2>4. CASE script.step = 2
      <3>1. Changed(files, changes[script.step], script.release) = [files EXCEPT !.env = "plain"]
        BY <2>1, <2>4 DEF Changed
      <3>2. QED
        BY <1>1, <2>1, <2>4, <3>1 DEF NodeFiles, Untouched, Halfway, changes
    <2>5. CASE script.step = 3
      <3>1. Changed(files, changes[script.step], script.release) = [files EXCEPT !.unit = script.release]
        BY <2>1, <2>5 DEF Changed
      <3>2. QED
        BY <1>1, <2>1, <2>5, <3>1 DEF NodeFiles, Untouched, Halfway, Installed, changes
    <2>6. QED
      BY <2>2, <2>3, <2>4, <2>5
  <1>2. CASE script.does = "upgrade"
    <2> DEFINE changes == Changes[script.does]
    <2>1. changes = <<"link", "unit">> /\ Len(changes) = 2 /\ changes[1] = "link" /\ changes[2] = "unit"
      BY <1>2 DEF Changes
    <2>2. script.step \in {1, 2}
      BY <1>2 DEF ScriptTyped
    <2> HIDE DEF changes
    <2>3. CASE script.step = 1
      <3>1. Changed(files, changes[script.step], script.release) = [files EXCEPT !.link = script.release]
        BY <2>1, <2>3 DEF Changed
      <3>2. QED
        BY <1>2, <2>1, <2>3, <3>1 DEF NodeFiles, Untouched, Halfway, changes
    <2>4. CASE script.step = 2
      <3>1. Changed(files, changes[script.step], script.release) = [files EXCEPT !.unit = script.release]
        BY <2>1, <2>4 DEF Changed
      <3>2. QED
        BY <1>2, <2>1, <2>4, <3>1 DEF NodeFiles, Untouched, Halfway, Installed, changes
    <2>5. QED
      BY <2>2, <2>3, <2>4
  <1>3. CASE script.does = "sandbox"
    <2> DEFINE changes == Changes[script.does]
    <2>1. changes = <<"socket", "box">> /\ Len(changes) = 2 /\ changes[1] = "socket" /\ changes[2] = "box"
      BY <1>3 DEF Changes
    <2>2. script.step \in {1, 2}
      BY <1>3 DEF ScriptTyped
    <2> HIDE DEF changes
    <2>3. CASE script.step = 1
      <3>1. Changed(files, changes[script.step], script.release) = [files EXCEPT !.env = "bound"]
        BY <2>1, <2>3 DEF Changed
      <3>2. QED
        BY <1>3, <2>1, <2>3, <3>1 DEF NodeFiles, Untouched, Halfway, changes
    <2>4. CASE script.step = 2
      <3>1. Changed(files, changes[script.step], script.release) = [files EXCEPT !.box = script.release]
        BY <2>1, <2>4 DEF Changed
      <3>2. QED
        BY <1>3, <2>1, <2>4, <3>1 DEF NodeFiles, Untouched, Halfway, Installed, changes
    <2>5. QED
      BY <2>2, <2>3, <2>4
  <1>4. script.does \in {"bootstrap", "upgrade", "sandbox"}
    BY DEF ScriptTyped, ScriptRecord, ScriptKinds
  <1>5. QED
    BY <1>1, <1>2, <1>3, <1>4

LEMMA ChangeStep ==
    ASSUME ReleaseInv, NRTyped', NEW s \in Sessions, ChangeFile(s)
    PROVE  ReleaseInv'
  <1> DEFINE script == nrScripts[s]
             last == Len(Changes[script.does])
             after == Changed(nrFiles, Changes[script.does][script.step], script.release)
             at == IF script.step = last THEN "start" ELSE "change"
             next == [script EXCEPT !.step = script.step + 1, !.at = at]
  <1>1. /\ script.at = "change" /\ nrFiles' = after /\ nrScripts' = [nrScripts EXCEPT ![s] = next]
        /\ UNCHANGED <<nrStored, nrRuns, nrTorn>>
    BY DEF ChangeFile
  <1>2. /\ script # NoScript /\ ScriptTyped(script) /\ script.release \in nrStored
        /\ {script.saved.link, script.saved.box} \subseteq nrStored \union {NoRelease}
        /\ script.alone => AloneOK(script, nrFiles, nrRuns)
        /\ ~nrTorn => script.alone /\ Coherent(script, nrFiles)
        /\ {nrFiles.link, nrFiles.box} \subseteq nrStored \union {NoRelease} /\ nrFiles \in NodeFiles
    BY <1>1, Known DEF StoredScript
  <1>3. /\ next.at = at /\ next.does = script.does /\ next.release = script.release /\ next.step = script.step + 1
        /\ next.saved = script.saved /\ next.found = script.found /\ next.alone = script.alone
    BY <1>2 DEF ScriptTyped, ScriptRecord
  <1>4. /\ {after.link, after.box} \subseteq {nrFiles.link, nrFiles.box, script.release}
        /\ Untouched(script, nrFiles) => Untouched(script, after)
        /\ script.does = "sandbox" => after.link = nrFiles.link /\ after.unit = nrFiles.unit
        /\ Halfway(script, nrFiles) =>
             IF script.step = last THEN Installed(script, after)
             ELSE /\ script.does = "sandbox" => after.env = "bound"
                  /\ script.does # "sandbox" => after.link = script.release
    BY <1>1, <1>2, OneChange
  <1>5. at \in {"start", "change"} /\ (at = "start" <=> script.step = last)
    OBVIOUS
  <1> HIDE DEF script, last, after, at, next
  <1>6. StoredScript(next, nrStored') /\ next # NoScript
    BY <1>1, <1>2, <1>3, <1>5, NoScriptIsOver DEF StoredScript
  <1>7. {nrFiles'.link, nrFiles'.box} \subseteq nrStored' \union {NoRelease}
    BY <1>1, <1>2, <1>4
  <1>8. ASSUME script.alone
        PROVE  /\ next.saved = next.found /\ Untouched(next, nrFiles')
               /\ next.at = "change" => Halfway(next, nrFiles')
               /\ next.at = "start" => Installed(next, nrFiles')
    <2>1. script.saved = script.found /\ Untouched(script, nrFiles) /\ Halfway(script, nrFiles)
      BY <1>1, <1>2, <1>8 DEF AloneOK
    <2>2. Untouched(next, nrFiles')
      BY <1>1, <1>3, <1>4, <2>1 DEF Untouched
    <2>3. next.at = "change" => Halfway(next, nrFiles')
      BY <1>1, <1>3, <1>4, <1>5, <2>1 DEF Halfway
    <2>4. next.at = "start" => Installed(next, nrFiles')
      BY <1>1, <1>3, <1>4, <1>5, <2>1 DEF Installed
    <2>5. QED
      BY <1>3, <2>1, <2>2, <2>3, <2>4
  <1>9. script.alone => AloneOK(next, nrFiles', nrRuns')
    BY <1>3, <1>5, <1>8 DEF AloneOK
  <1>10. ~nrTorn' => script.alone /\ Coherent(next, nrFiles')
    <2>1. SUFFICES ASSUME ~nrTorn PROVE script.alone /\ Coherent(next, nrFiles')
      BY <1>1
    <2>2. script.alone /\ Coherent(script, nrFiles)
      BY <1>2, <2>1
    <2>3. next.saved.link = next.saved.unit
      BY <1>1, <1>3, <2>2 DEF Coherent
    <2>4. next.does = "sandbox" => nrFiles'.link = nrFiles'.unit
      BY <1>1, <1>3, <1>4, <2>2 DEF Coherent
    <2>5. next.does # "sandbox" /\ next.at = "start" => nrFiles'.link = nrFiles'.unit
      BY <1>8, <2>2 DEF Installed
    <2>6. QED
      BY <1>3, <1>5, <2>2, <2>3, <2>4, <2>5 DEF Coherent
  <1>11. QED
    BY <1>1, <1>2, <1>3, <1>6, <1>7, <1>9, <1>10, ScriptMoves DEF script

LEMMA StartServiceStep ==
    ASSUME ReleaseInv, NRTyped', NEW s \in Sessions, StartService(s)
    PROVE  ReleaseInv'
  <1>1. /\ nrScripts[s].at = "start" /\ Goes(s, "verify") /\ UNCHANGED <<nrFiles, nrStored, nrTorn>>
        /\ nrScripts[s].does = "upgrade" => nrRuns' = Service(nrFiles)
    BY DEF StartService
  <1>2. /\ nrScripts[s].alone => AloneOK(nrScripts[s], nrFiles, nrRuns)
        /\ ~nrTorn => nrScripts[s].alone /\ Coherent(nrScripts[s], nrFiles)
        /\ {nrFiles.link, nrFiles.box} \subseteq nrStored \union {NoRelease}
    BY <1>1, Known
  <1>3. Service(nrFiles)' = Service(nrFiles)
    BY <1>1 DEF Service
  <1>4. ASSUME NEW next, next.at = "verify", next.does = nrScripts[s].does, next.release = nrScripts[s].release,
               next.step = nrScripts[s].step, next.saved = nrScripts[s].saved, next.found = nrScripts[s].found
        PROVE  /\ nrScripts[s].alone => AloneOK(next, nrFiles', nrRuns')
               /\ ~nrTorn' => nrScripts[s].alone /\ Coherent(next, nrFiles')
    <2>1. nrScripts[s].alone => Untouched(next, nrFiles) /\ Installed(next, nrFiles)
      BY <1>1, <1>2, <1>4 DEF AloneOK, Untouched, Installed
    <2>2. nrScripts[s].alone => AloneOK(next, nrFiles', nrRuns')
      BY <1>1, <1>2, <1>4, <2>1 DEF AloneOK
    <2>3. ~nrTorn' => nrScripts[s].alone /\ Coherent(next, nrFiles')
      BY <1>1, <1>2, <1>4 DEF Coherent
    <2>4. QED
      BY <2>2, <2>3
  <1>5. QED
    BY <1>1, <1>2, <1>4, ScriptGoes

\* A script that was alone and holds leaves link and unit at its release: nothing is torn any more.
LEMMA ReleaseVerifiedStep ==
    ASSUME ReleaseInv, NRTyped', NEW s \in Sessions, VerifyRelease(s)
    PROVE  ReleaseInv'
  <1>1. PICK at \in {"done", "undo"} :
          /\ Goes(s, at) /\ (at = "done" => nrRuns.is = "active")
          /\ nrTorn' = (nrTorn /\ ~(at = "done" /\ nrScripts[s].alone /\ nrScripts[s].does # "sandbox"))
    BY DEF VerifyRelease
  <1>2. nrScripts[s].at = "verify" /\ UNCHANGED <<nrFiles, nrStored, nrRuns>>
    BY DEF VerifyRelease
  <1>3. /\ nrScripts[s].alone => AloneOK(nrScripts[s], nrFiles, nrRuns)
        /\ ~nrTorn => nrScripts[s].alone /\ Coherent(nrScripts[s], nrFiles)
        /\ {nrFiles.link, nrFiles.box} \subseteq nrStored \union {NoRelease}
    BY <1>2, Known
  <1>4. ASSUME NEW next, next.at = at, next.does = nrScripts[s].does, next.release = nrScripts[s].release,
               next.step = nrScripts[s].step, next.saved = nrScripts[s].saved, next.found = nrScripts[s].found
        PROVE  /\ nrScripts[s].alone => AloneOK(next, nrFiles', nrRuns')
               /\ ~nrTorn' => nrScripts[s].alone /\ Coherent(next, nrFiles')
    <2>1. nrScripts[s].alone => Untouched(next, nrFiles) /\ Installed(next, nrFiles)
      BY <1>2, <1>3, <1>4 DEF AloneOK, Untouched, Installed
    <2>2. nrScripts[s].alone => AloneOK(next, nrFiles, nrRuns)
      BY <1>1, <1>2, <1>3, <1>4, <2>1 DEF AloneOK
    <2>3. ~nrTorn => nrScripts[s].alone /\ Coherent(next, nrFiles)
      BY <1>2, <1>3, <1>4 DEF Coherent
    <2>4. at = "done" /\ nrScripts[s].alone /\ nrScripts[s].does # "sandbox" => nrScripts[s].alone /\ Coherent(next, nrFiles)
      BY <1>4, <2>1 DEF Coherent, Installed
    <2>5. nrFiles' = nrFiles /\ nrRuns' = nrRuns
      BY <1>2
    <2>6. QED
      BY <1>1, <2>2, <2>3, <2>4, <2>5
  <1>5. QED
    BY <1>1, <1>2, <1>3, <1>4, ScriptGoes

LEMMA FailStep ==
    ASSUME ReleaseInv, NRTyped', NEW s \in Sessions, StepFails(s)
    PROVE  ReleaseInv'
  <1> DEFINE at == IF nrScripts[s].at \in {"unpack", "enrol", "save"} THEN "failed" ELSE "undo"
  <1>1. /\ nrScripts[s].at \in {"unpack", "enrol", "save", "change", "start", "verify"} /\ Goes(s, at)
        /\ UNCHANGED <<nrFiles, nrStored, nrRuns, nrTorn>>
        /\ \/ at = "failed" /\ nrScripts[s].at \in {"unpack", "enrol", "save"}
           \/ at = "undo" /\ nrScripts[s].at \in {"change", "start", "verify"}
    BY DEF StepFails
  <1> HIDE DEF at
  <1>2. /\ nrScripts[s].alone => AloneOK(nrScripts[s], nrFiles, nrRuns)
        /\ ~nrTorn => nrScripts[s].alone /\ Coherent(nrScripts[s], nrFiles)
        /\ {nrFiles.link, nrFiles.box} \subseteq nrStored \union {NoRelease}
    BY <1>1, Known
  <1>3. ASSUME NEW next, next.at = at, next.does = nrScripts[s].does, next.release = nrScripts[s].release,
               next.step = nrScripts[s].step, next.saved = nrScripts[s].saved, next.found = nrScripts[s].found
        PROVE  /\ nrScripts[s].alone => AloneOK(next, nrFiles', nrRuns')
               /\ ~nrTorn' => nrScripts[s].alone /\ Coherent(next, nrFiles')
    <2>1. nrScripts[s].alone /\ at = "undo" => Untouched(next, nrFiles)
      BY <1>1, <1>2, <1>3 DEF AloneOK, Untouched
    <2>2. nrScripts[s].alone => AloneOK(next, nrFiles', nrRuns')
      BY <1>1, <1>2, <1>3, <2>1 DEF AloneOK
    <2>3. ~nrTorn' => nrScripts[s].alone /\ Coherent(next, nrFiles')
      BY <1>1, <1>2, <1>3 DEF Coherent
    <2>4. QED
      BY <2>2, <2>3
  <1>4. QED
    BY <1>1, <1>2, <1>3, ScriptGoes

\* The files are put back: what was touched from the copy, and the rest is as it was.
LEMMA UndoStep ==
    ASSUME ReleaseInv, NRTyped', NEW s \in Sessions, Undo(s)
    PROVE  ReleaseInv'
  <1>1. /\ nrScripts[s].at = "undo" /\ nrFiles' = RestoredBy(nrScripts[s], nrFiles) /\ Goes(s, "failed")
        /\ UNCHANGED <<nrStored, nrTorn>>
    BY DEF Undo
  <1>2. /\ nrScripts[s].alone => AloneOK(nrScripts[s], nrFiles, nrRuns)
        /\ ~nrTorn => nrScripts[s].alone /\ Coherent(nrScripts[s], nrFiles)
        /\ {nrFiles.link, nrFiles.box} \subseteq nrStored \union {NoRelease}
        /\ {nrScripts[s].saved.link, nrScripts[s].saved.box} \subseteq nrStored \union {NoRelease}
        /\ nrFiles \in NodeFiles /\ nrScripts[s].saved \in NodeFiles
    BY <1>1, Known DEF StoredScript, ScriptTyped, ScriptRecord
  <1>3. {nrFiles'.link, nrFiles'.box} \subseteq nrStored' \union {NoRelease}
    <2>1. nrFiles'["link"] \in {nrFiles["link"], nrScripts[s].saved["link"]} /\ nrFiles'["box"] \in {nrFiles["box"], nrScripts[s].saved["box"]}
      BY <1>1, <1>2, RestoredFrom DEF FileNames
    <2>2. QED
      BY <1>1, <1>2, <2>1
  <1>4. nrScripts[s].alone => nrFiles' = nrScripts[s].found
    BY <1>1, <1>2, RestoredFields DEF AloneOK
  <1>5. ~nrTorn' => nrScripts[s].alone /\ nrFiles'.link = nrFiles'.unit
    BY <1>1, <1>2, <1>4 DEF AloneOK, Coherent
  <1>6. ASSUME NEW next, next.at = "failed", next.does = nrScripts[s].does,
               next.saved = nrScripts[s].saved, next.found = nrScripts[s].found
        PROVE  /\ nrScripts[s].alone => AloneOK(next, nrFiles', nrRuns')
               /\ ~nrTorn' => nrScripts[s].alone /\ Coherent(next, nrFiles')
    BY <1>2, <1>4, <1>5, <1>6 DEF AloneOK, Coherent
  <1>7. QED
    BY <1>1, <1>3, <1>6, ScriptGoes

\* Half a rollback, of a sandbox, leaves link and unit as they are; a link is still to a stored release.
LEMMA HalfRestored ==
    ASSUME ReleaseInv, NEW s \in Sessions, nrScripts[s].at = "undo", RestoredInPart(s)
    PROVE  /\ {nrFiles'.link, nrFiles'.box} \subseteq nrStored \union {NoRelease}
           /\ nrScripts[s].does = "sandbox" => nrFiles'.link = nrFiles.link /\ nrFiles'.unit = nrFiles.unit
  <1> DEFINE restored == RestoredBy(nrScripts[s], nrFiles)
  <1>1. /\ nrScripts[s] # NoScript
        /\ {nrFiles.link, nrFiles.box} \subseteq nrStored \union {NoRelease} /\ nrFiles \in NodeFiles
        /\ {nrScripts[s].saved.link, nrScripts[s].saved.box} \subseteq nrStored \union {NoRelease}
    BY Known DEF StoredScript
  <1>2. \A what \in FileNames : nrFiles'[what] \in {nrFiles[what], restored[what]}
    BY <1>1, PartlyRestored DEF ReleaseInv
  <1>3. /\ \A what \in FileNames : restored[what] \in {nrFiles[what], nrScripts[s].saved[what]}
        /\ nrScripts[s].does = "sandbox" => restored["link"] = nrFiles["link"] /\ restored["unit"] = nrFiles["unit"]
    BY <1>1, RestoredFrom
  <1> HIDE DEF restored
  <1>4. /\ nrFiles'["link"] \in {nrFiles["link"], nrScripts[s].saved["link"]}
        /\ nrFiles'["box"] \in {nrFiles["box"], nrScripts[s].saved["box"]}
        /\ nrScripts[s].does = "sandbox" => nrFiles'["link"] = nrFiles["link"] /\ nrFiles'["unit"] = nrFiles["unit"]
    BY <1>2, <1>3 DEF FileNames
  <1>5. QED
    BY <1>1, <1>4

LEMMA UndoFailsStep ==
    ASSUME ReleaseInv, NRTyped', NEW s \in Sessions, UndoFails(s)
    PROVE  ReleaseInv'
  <1>1. /\ nrScripts[s].at = "undo" /\ RestoredInPart(s) /\ Goes(s, "broken") /\ UNCHANGED <<nrStored, nrRuns>>
        /\ nrTorn' = (nrTorn \/ Tears(nrScripts[s]))
    BY DEF UndoFails
  <1>2. /\ nrScripts[s].alone => AloneOK(nrScripts[s], nrFiles, nrRuns)
        /\ ~nrTorn => nrScripts[s].alone /\ Coherent(nrScripts[s], nrFiles)
    BY <1>1, Known
  <1>3. /\ {nrFiles'.link, nrFiles'.box} \subseteq nrStored' \union {NoRelease}
        /\ nrScripts[s].does = "sandbox" => nrFiles'.link = nrFiles.link /\ nrFiles'.unit = nrFiles.unit
    BY <1>1, HalfRestored
  <1>4. ~nrTorn' => nrScripts[s].alone /\ nrFiles'.link = nrFiles'.unit
    BY <1>1, <1>2, <1>3 DEF Tears, Coherent
  <1>5. ASSUME NEW next, next.at = "broken", next.does = nrScripts[s].does,
               next.saved = nrScripts[s].saved, next.found = nrScripts[s].found
        PROVE  /\ nrScripts[s].alone => AloneOK(next, nrFiles', nrRuns')
               /\ ~nrTorn' => nrScripts[s].alone /\ Coherent(next, nrFiles')
    BY <1>2, <1>4, <1>5 DEF AloneOK, Coherent
  <1>6. QED
    BY <1>1, <1>3, <1>5, ScriptGoes

LEMMA KilledStep ==
    ASSUME ReleaseInv, NRTyped', NEW s \in Sessions, ScriptKilled(s)
    PROVE  ReleaseInv'
  <1>1. /\ ~ScriptOver(nrScripts[s]) /\ nrScripts' = [nrScripts EXCEPT ![s] = NoScript] /\ UNCHANGED <<nrStored, nrRuns>>
        /\ nrTorn' = (nrTorn \/ Tears(nrScripts[s]))
        /\ IF nrScripts[s].at = "undo" THEN RestoredInPart(s) ELSE UNCHANGED nrFiles
    BY DEF ScriptKilled
  <1>2. /\ nrScripts[s] # NoScript
        /\ ~nrTorn => nrScripts[s].alone /\ Coherent(nrScripts[s], nrFiles)
        /\ {nrFiles.link, nrFiles.box} \subseteq nrStored \union {NoRelease}
    BY <1>1, Known DEF ScriptOver
  <1>3. /\ {nrFiles'.link, nrFiles'.box} \subseteq nrStored' \union {NoRelease}
        /\ nrScripts[s].does = "sandbox" => nrFiles'.link = nrFiles.link /\ nrFiles'.unit = nrFiles.unit
    BY <1>1, <1>2, HalfRestored
  <1>4. ~nrTorn' => nrScripts[s].alone /\ nrFiles'.link = nrFiles'.unit
    <2>1. SUFFICES ASSUME ~nrTorn, ~Tears(nrScripts[s])
                   PROVE  nrScripts[s].alone /\ nrFiles'.link = nrFiles'.unit
      BY <1>1
    <2>2. nrScripts[s].alone /\ nrFiles.link = nrFiles.unit
      BY <1>2, <2>1 DEF Tears, Coherent
    <2>3. nrScripts[s].at = "undo" => nrScripts[s].does = "sandbox"
      BY <2>1 DEF Tears
    <2>4. QED
      BY <1>1, <1>3, <2>2, <2>3
  <1>5. QED
    BY <1>1, <1>2, <1>3, <1>4, ScriptMoves

LEMMA RebootStep ==
    ASSUME ReleaseInv, NRTyped', NodeReboots
    PROVE  ReleaseInv'
  <1>1. /\ UNCHANGED <<nrFiles, nrStored, nrScripts, nrTorn>> /\ nrRuns' = Service(nrFiles)
        /\ \A s \in Sessions : ScriptOver(nrScripts[s])
    BY DEF NodeReboots
  <1>2. StoredInv' /\ TornInv'
    BY <1>1 DEF ReleaseInv, StoredInv, TornInv
  <1>3. Service(nrFiles)' = Service(nrFiles)
    BY <1>1 DEF Service
  <1>4. ASSUME NEW s \in Sessions, nrScripts[s] # NoScript, nrScripts[s].alone
        PROVE  AloneOK(nrScripts[s], nrFiles', nrRuns')
    <2>1. AloneOK(nrScripts[s], nrFiles, nrRuns) /\ nrScripts[s].at \in {"off", "done", "failed", "broken"}
      BY <1>1, <1>4 DEF ReleaseInv, AloneInv, ScriptOver
    <2>2. nrScripts[s].at = "done" /\ nrScripts[s].does = "upgrade" => nrRuns' = nrRuns
      BY <1>1, <2>1 DEF AloneOK
    <2>3. QED
      BY <1>1, <1>3, <2>1, <2>2 DEF AloneOK
  <1>5. AloneInv'
    BY <1>1, <1>4 DEF ReleaseInv, AloneInv
  <1>6. QED
    BY <1>2, <1>5 DEF ReleaseInv

LEMMA ReleaseStart == NodeReleaseInit => ReleaseInv
  BY NRTypeStart DEF NodeReleaseInit, ReleaseInv, StoredInv, AloneInv, TornInv

LEMMA ReleaseKept == ReleaseInv /\ [NodeReleaseNext]_nrVars => ReleaseInv'
  <1> SUFFICES ASSUME ReleaseInv, [NodeReleaseNext]_nrVars PROVE ReleaseInv'
    OBVIOUS
  <1>1. NRTyped'
    BY NRTypeKept DEF ReleaseInv
  <1>2. CASE NodeReboots
    BY <1>1, <1>2, RebootStep
  <1>3. ASSUME NEW s \in Sessions, BootstrapRunner(s) \/ UpgradeRunner(s) \/ InstallSandbox(s)
        PROVE  ReleaseInv'
    BY <1>1, <1>3, ScriptBeginsStep DEF BootstrapRunner, UpgradeRunner, InstallSandbox
  <1>4. ASSUME NEW s \in Sessions, Unpack(s) \/ EnrolNode(s) \/ SaveFiles(s) \/ ChangeFile(s)
        PROVE  ReleaseInv'
    BY <1>1, <1>4, UnpackStep, EnrolNodeStep, SaveStep, ChangeStep
  <1>5. ASSUME NEW s \in Sessions, StartService(s) \/ VerifyRelease(s) \/ StepFails(s)
        PROVE  ReleaseInv'
    BY <1>1, <1>5, StartServiceStep, ReleaseVerifiedStep, FailStep
  <1>6. ASSUME NEW s \in Sessions, Undo(s) \/ UndoFails(s) \/ ScriptKilled(s)
        PROVE  ReleaseInv'
    BY <1>1, <1>6, UndoStep, UndoFailsStep, KilledStep
  <1>7. CASE UNCHANGED nrVars
    <2>1. Service(nrFiles)' = Service(nrFiles)
      BY <1>7 DEF nrVars, Service
    <2>2. AloneInv'
      BY <1>7, <2>1 DEF nrVars, ReleaseInv, AloneInv, AloneOK
    <2>3. StoredInv' /\ TornInv'
      BY <1>7 DEF nrVars, ReleaseInv, StoredInv, TornInv
    <2>4. QED
      BY <1>1, <2>2, <2>3 DEF ReleaseInv
  <1>8. QED
    BY <1>2, <1>3, <1>4, <1>5, <1>6, <1>7 DEF NodeReleaseNext

LEMMA ReleaseShown == ReleaseInv => ReleaseIsWhole
  <1> SUFFICES ASSUME ReleaseInv PROVE ReleaseIsWhole
    OBVIOUS
  <1>1. ASSUME NEW s \in Sessions, nrScripts[s].at # "off", nrScripts[s].alone
        PROVE  LET script == nrScripts[s] IN
               /\ script.at = "failed" => nrFiles = script.found
               /\ script.at = "done" =>
                    IF script.does = "sandbox" THEN nrFiles.env = "bound" /\ nrFiles.box = script.release
                    ELSE nrFiles.link = script.release /\ nrFiles.unit = script.release
               /\ script.at = "done" /\ script.does = "upgrade" => nrRuns = [is |-> "active", release |-> script.release]
    <2>1. AloneOK(nrScripts[s], nrFiles, nrRuns)
      BY <1>1, Known
    <2>2. ASSUME nrScripts[s].at = "done", nrScripts[s].does = "upgrade"
          PROVE  nrRuns = [is |-> "active", release |-> nrScripts[s].release]
      <3>1. nrRuns = Service(nrFiles) /\ nrRuns.is = "active" /\ nrFiles.link = nrScripts[s].release
        BY <2>1, <2>2 DEF AloneOK, Installed
      <3>2. QED
        BY <3>1 DEF Service
    <2>3. QED
      BY <2>1, <2>2 DEF AloneOK, Installed
  <1>2. ASSUME ~nrTorn, \A s \in Sessions : ScriptOver(nrScripts[s])
        PROVE  nrFiles.link = nrFiles.unit
    <2>1. CASE \E s \in Sessions : nrScripts[s] # NoScript
      BY <1>2, <2>1 DEF ScriptOver, ReleaseInv, TornInv, Coherent
    <2>2. CASE \A s \in Sessions : nrScripts[s] = NoScript
      BY <1>2, <2>2 DEF ReleaseInv, TornInv
    <2>3. QED
      BY <2>1, <2>2
  <1>3. {nrFiles.link, nrFiles.box} \subseteq nrStored \union {NoRelease}
    BY DEF ReleaseInv, StoredInv
  <1>4. QED
    BY <1>1, <1>2, <1>3 DEF ReleaseIsWhole

(***************************************************************************)
(* A link names a complete release, whoever is at work and whatever is     *)
(* killed.  A script that was alone and failed has put back what it found, *)
(* one that succeeded is installed; and link and unit are of one release   *)
(* until a kill, a broken rollback or a second script at work leaves two,  *)
(* and again once a script that is alone has installed a Runner.           *)
(***************************************************************************)
THEOREM ReleasesAreWhole == NodeReleaseSpec => []ReleaseIsWhole
  BY ReleaseStart, ReleaseKept, ReleaseShown, PTL DEF NodeReleaseSpec
=============================================================================
