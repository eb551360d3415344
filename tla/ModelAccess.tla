----------------------------- MODULE ModelAccess -----------------------------
(* Model access for one job: RunnerModelAccessBroker keeps the tokens it gave   *)
(* out in memory, under the token and under the request that asked for it, and *)
(* looks at the job again whenever a token is used.  A proxied call waits for  *)
(* its body after its token was checked.                                        *)
EXTENDS Integers, FiniteSets
CONSTANTS AccessRequests,    \* request ids of the Runner
          NoLease,
          LastLease,         \* bound: leases 1..LastLease of the job
          LeaseTerm,         \* how long a lease runs
          TokenTtl,          \* FRIDAY_RUNNER_MODEL_TOKEN_TTL
          LastTick,          \* bound on the clock
          MaxCalls           \* bound: calls under way in the proxy
ASSUME ModelAccessAssumption ==
  /\ LastLease \in Nat \ {0} /\ LeaseTerm \in Nat /\ TokenTtl \in Nat /\ LastTick \in Nat
  /\ MaxCalls \in Nat
  /\ NoLease \notin 1..LastLease
VARIABLES maTick,
          maJob,         \* status, lease and end of the lease in the job registry
          maTokens,      \* grants by token
          maByRequest,   \* request -> its grant, or NoGrant
          maCalls        \* calls the proxy let through: token, the job's lease then, and whether it
                         \* is at the provider
maVars == <<maTick, maJob, maTokens, maByRequest, maCalls>>
NoGrant == [request |-> NoLease, lease |-> NoLease, until |-> 0]
MAInit == /\ maTick = 0 /\ maJob = [status |-> "active", lease |-> 1, ends |-> LeaseTerm]
          /\ maTokens = {} /\ maByRequest = [r \in AccessRequests |-> NoGrant] /\ maCalls = {}
Smaller(a, b) == IF a < b THEN a ELSE b

ActiveLease(lease) == maJob.lease = lease /\ maTick <= maJob.ends /\ maJob.status # "ended"
Expired == {g \in maTokens : g.until <= maTick}
Without(gone) == /\ maTokens' = maTokens \ gone
                 /\ maByRequest' = [r \in AccessRequests |->
                      IF \E g \in gone : g.request = r THEN NoGrant ELSE maByRequest[r]]
\* Faulty variant: a request is always granted anew.
NeverGranted(r) == FALSE
(* A request whose grant is still there gets it again, or is refused when it    *)
(* names another lease; a new one gets a token that ends with the ttl or the    *)
(* lease.                                                                       *)
AlreadyGranted(r) == maByRequest[r] \in maTokens \ Expired
Issue(r, lease) ==
  LET grant == [request |-> r, lease |-> lease, until |-> Smaller(maTick + TokenTtl, maJob.ends)] IN
  /\ IF AlreadyGranted(r) \/ ~ActiveLease(lease) \/ grant.until <= maTick
     THEN Without(Expired)
     ELSE /\ maTokens' = (maTokens \ Expired) \union {grant}
          /\ maByRequest' = [q \in AccessRequests |->
               IF q = r THEN grant ELSE IF maByRequest[q] \in Expired THEN NoGrant ELSE maByRequest[q]]
  /\ UNCHANGED <<maTick, maJob, maCalls>>
LetThrough(g) == maCalls \union {[token |-> g, lease |-> maJob.lease, sent |-> FALSE]}
\* Faulty variant: a token is good until its own end.
AuthorizeUnexpired(g) ==
  /\ Without(Expired)
  /\ Cardinality(maCalls) < MaxCalls
  /\ maCalls' = (IF g \notin Expired THEN LetThrough(g) ELSE maCalls)
  /\ UNCHANGED <<maTick, maJob>>
Authorize(g) ==
  /\ Without(Expired)
  /\ Cardinality(maCalls) < MaxCalls
  /\ maCalls' = (IF g \notin Expired /\ ActiveLease(g.lease) THEN LetThrough(g) ELSE maCalls)
  /\ UNCHANGED <<maTick, maJob>>
Forward(call) == /\ call \in maCalls /\ ~call.sent
                 /\ maCalls' = (maCalls \ {call}) \union {[call EXCEPT !.sent = TRUE]}
                 /\ UNCHANGED <<maTick, maJob, maTokens, maByRequest>>
Finish(call) == /\ call \in maCalls /\ call.sent /\ maCalls' = maCalls \ {call}
                /\ UNCHANGED <<maTick, maJob, maTokens, maByRequest>>

(* The job ends, or is held for the Owner: its tokens are revoked with it.      *)
Revoke(status) == /\ maJob.status # "ended" /\ (status = "held" => maJob.status = "active")
                  /\ maJob' = [maJob EXCEPT !.status = status]
                  /\ Without(maTokens) /\ UNCHANGED <<maTick, maCalls>>
(* A professional job may report that it waits, and keeps its tokens.           *)
ReportWaiting == /\ maJob.status = "active" /\ maTick <= maJob.ends /\ maJob' = [maJob EXCEPT !.status = "waiting"]
                 /\ UNCHANGED <<maTick, maTokens, maByRequest, maCalls>>
(* A new lease: of a job that is held past the end of its lease, of one that is *)
(* pulled after it, and of one that waits and is approved again, at any time.   *)
Renewed == [maJob EXCEPT !.status = "active", !.lease = @ + 1, !.ends = maTick + LeaseTerm]
NewLease == /\ maJob.lease < LastLease /\ maJob' = Renewed
            /\ \/ maJob.status \in {"active", "held"} /\ maTick >= maJob.ends
               \/ maJob.status = "waiting"
            /\ UNCHANGED <<maTick, maTokens, maByRequest, maCalls>>
Release == /\ maJob.status = "held" /\ maTick < maJob.ends /\ maJob' = [maJob EXCEPT !.status = "active"]
           /\ UNCHANGED <<maTick, maTokens, maByRequest, maCalls>>
TickMA == /\ maTick < LastTick /\ maTick' = maTick + 1
          /\ UNCHANGED <<maJob, maTokens, maByRequest, maCalls>>
RestartMA == /\ maTokens' = {} /\ maByRequest' = [r \in AccessRequests |-> NoGrant]
             /\ maCalls' = {} /\ UNCHANGED <<maTick, maJob>>

MANext == \/ \E r \in AccessRequests, lease \in 1..LastLease : Issue(r, lease)
          \/ \E g \in maTokens : Authorize(g)
          \/ \E call \in maCalls : Forward(call) \/ Finish(call)
          \/ \E status \in {"held", "ended"} : Revoke(status)
          \/ ReportWaiting
          \/ Release
          \/ NewLease
          \/ TickMA
          \/ RestartMA
MASpec == MAInit /\ [][MANext]_maVars

MATypeOK == /\ maTick \in 0..LastTick /\ maJob.status \in {"active", "held", "waiting", "ended"}
            /\ maJob.lease \in 1..LastLease
            /\ \A g \in maTokens : g.until <= LastTick + TokenTtl
(* The two maps of the broker agree: a repeated request never leaves a second  *)
(* token behind, every token can be revoked with its request, and no token is  *)
(* kept for a job that ended (model-access.ts: issue, #prune, revokeJob).      *)
OneTokenPerRequest ==
  /\ \A g \in maTokens : maByRequest[g.request] = g
  /\ \A r \in AccessRequests : maByRequest[r] \in maTokens \union {NoGrant}
  /\ maJob.status = "ended" => maTokens = {}
(* And a token that outlives its lease, which a job that is approved again      *)
(* makes possible, lets no call through: each call was let through under the    *)
(* lease the job had then (#assertGrantActive).                                 *)
AccessFollowsJob == OneTokenPerRequest /\ \A call \in maCalls : call.token.lease = call.lease
=============================================================================
