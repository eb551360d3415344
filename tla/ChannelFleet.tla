---------------------------- MODULE ChannelFleet ----------------------------
(***************************************************************************)
(* Managing the fleet: enrolment and revocation of Runners                 *)
(* (runner-registry.ts), the choice of a Runner for a job                  *)
(* (fleet-scheduler.ts) and the two-step commands an Owner sends over a    *)
(* private chat (channel-fleet-management.ts,                              *)
(* channel-platform-management.ts) with the callbacks of server.ts.        *)
(*                                                                         *)
(* A confirmed revocation waits for its turn behind the mutation barrier   *)
(* and for two events to be written; other chat messages, Web requests and *)
(* jobs are handled meanwhile.  A chat key is a channel and its paired     *)
(* sender.  Two minutes pass whenever Expire says so.                      *)
(***************************************************************************)
EXTENDS Naturals, FiniteSets, FiniteSetsExt

CONSTANTS
    FleetRunners,   \* Runner ids, in their order
    FleetJobs, ChatKeys, DeviceKeys,
    NotAny          \* no Runner, job, chat key or device key

ASSUME FleetAssumption ==
    /\ FleetRunners \subseteq Nat
    /\ NotAny \notin FleetRunners \cup FleetJobs \cup ChatKeys \cup DeviceKeys

VARIABLES
    token,          \* runner_enrollments: "none", "issued", "expired", "consumed"
    device,         \* runner_devices: the public key, or NotAny
    revoked,        \* devices with revoked_at
    reachable,      \* Runners that are online, compatible, with an enabled adapter
    jobOn,          \* the Runner each open job is assigned to
    asked,          \* pendingByOwner: what each chat key asked to revoke
    confirming,     \* whether its confirmation came
    withdrawn,      \* pendingRunnerIds
    revoking,       \* revocations in revokeRunner: <<chat key, Runner, how far>>
    stopAsked       \* the job each chat key asked to stop

fleetVars == <<token, device, revoked, reachable, jobOn, asked, confirming, withdrawn, revoking, stopAsked>>

RevokeSteps == {"queued", "checked"}

FleetTypeOK ==
    /\ token \in [FleetRunners -> {"none", "issued", "expired", "consumed"}]
    /\ device \in [FleetRunners -> DeviceKeys \cup {NotAny}] /\ revoked \subseteq FleetRunners
    /\ reachable \subseteq FleetRunners /\ withdrawn \subseteq FleetRunners
    /\ jobOn \in [FleetJobs -> FleetRunners \cup {NotAny}]
    /\ asked \in [ChatKeys -> FleetRunners \cup {NotAny}] /\ confirming \in [ChatKeys -> BOOLEAN]
    /\ revoking \subseteq ChatKeys \X FleetRunners \X RevokeSteps
    /\ stopAsked \in [ChatKeys -> FleetJobs \cup {NotAny}]

FleetInit ==
    /\ token = [r \in FleetRunners |-> "none"] /\ device = [r \in FleetRunners |-> NotAny]
    /\ revoked = {} /\ reachable = {} /\ withdrawn = {} /\ revoking = {}
    /\ jobOn = [j \in FleetJobs |-> NotAny] /\ stopAsked = [o \in ChatKeys |-> NotAny]
    /\ asked = [o \in ChatKeys |-> NotAny] /\ confirming = [o \in ChatKeys |-> FALSE]

chatVars == <<asked, confirming, withdrawn, revoking, stopAsked>>
deviceVars == <<token, device, revoked>>

Enrolled(r) == device[r] # NotAny /\ r \notin revoked
Load(r) == Cardinality({j \in FleetJobs : jobOn[j] = r})

IssueEnrollment(r) ==
    /\ token[r] = "none" /\ token' = [token EXCEPT ![r] = "issued"]
    /\ UNCHANGED <<device, revoked, reachable, jobOn, chatVars>>

TokenExpires(r) ==
    /\ token[r] = "issued" /\ token' = [token EXCEPT ![r] = "expired"]
    /\ UNCHANGED <<device, revoked, reachable, jobOn, chatVars>>

TokenUsable(r) == token[r] = "issued" /\ device[r] = NotAny

\* A second try with the same key, after a lost answer, changes nothing; any other is refused.
ConsumeEnrollment(r, key) ==
    /\ TokenUsable(r)
    /\ token' = [token EXCEPT ![r] = "consumed"] /\ device' = [device EXCEPT ![r] = key]
    /\ revoked' = revoked \ {r}
    /\ UNCHANGED <<reachable, jobOn, chatVars>>

\* Heartbeats, and the adapters the Owner enables and disables.
Reachability(r) ==
    /\ reachable' = IF r \in reachable THEN reachable \ {r}
                    ELSE IF Enrolled(r) THEN reachable \cup {r} ELSE reachable
    /\ UNCHANGED <<deviceVars, jobOn, chatVars>>

\* Faulty variant: a Runner whose revocation is pending gets jobs.
ScheduleRevoking(r) == Enrolled(r)

\* runnerEnrolledForScheduling: not while a revocation is asked for or under way.
Schedulable(r) == Enrolled(r) /\ r \notin withdrawn

Eligible == {r \in reachable : Schedulable(r)}
Before(r, s) == Load(r) < Load(s) \/ (Load(r) = Load(s) /\ r <= s)

\* selectFleetRunner, for a proposal or a job without a target.
CreateAuto(j) ==
    /\ jobOn[j] = NotAny
    /\ \E r \in Eligible :
         /\ \A s \in Eligible : Before(r, s)
         /\ jobOn' = [jobOn EXCEPT ![j] = r]
    /\ UNCHANGED <<deviceVars, reachable, chatVars>>

\* A job for a named Runner only asks whether a revocation is pending.
CreateExplicit(j, r) ==
    /\ jobOn[j] = NotAny /\ r \notin withdrawn
    /\ jobOn' = [jobOn EXCEPT ![j] = r]
    /\ UNCHANGED <<deviceVars, reachable, chatVars>>

JobEnds(j) ==
    /\ jobOn[j] # NotAny /\ jobOn' = [jobOn EXCEPT ![j] = NotAny]
    /\ UNCHANGED <<deviceVars, reachable, chatVars>>

\* checkChannelRunnerRevocation
Revocable(r) == Enrolled(r) /\ Load(r) = 0

\* POST /v1/runners/:id/revoke checks and revokes without waiting.
RevokeFromWeb(r) ==
    /\ Revocable(r) /\ revoked' = revoked \cup {r}
    /\ UNCHANGED <<token, device, reachable, jobOn, chatVars>>

\* clearPending takes the entry of the chat key, whatever it is by now, and the given Runner.
Clear(o, r) ==
    /\ asked' = [asked EXCEPT ![o] = NotAny] /\ confirming' = [confirming EXCEPT ![o] = FALSE]
    /\ withdrawn' = withdrawn \ {r}

\* Any command but a confirmation drops what its sender asked before.
DropAsked(o) ==
    IF asked[o] # NotAny /\ ~confirming[o] THEN Clear(o, asked[o])
    ELSE UNCHANGED <<asked, confirming, withdrawn>>

\* A message of any other kind, or /cancel, which also drops the job to be stopped.
OtherMessage(o, cancel) ==
    /\ DropAsked(o)
    /\ stopAsked' = IF cancel THEN [stopAsked EXCEPT ![o] = NotAny] ELSE stopAsked
    /\ UNCHANGED <<deviceVars, reachable, jobOn, revoking>>

\* A request over one that is being confirmed replaces its entry.
RequestRevocation(o, r) ==
    /\ Revocable(r)
    /\ LET left == IF confirming[o] THEN withdrawn ELSE withdrawn \ {asked[o]} IN
         /\ r \notin left
         /\ withdrawn' = left \cup {r}
    /\ asked' = [asked EXCEPT ![o] = r] /\ confirming' = [confirming EXCEPT ![o] = FALSE]
    /\ UNCHANGED <<deviceVars, reachable, jobOn, revoking, stopAsked>>

\* Two minutes have passed (purgeExpired, and the stop of channel-platform-management.ts).
Expire(o) ==
    /\ \/ asked[o] # NotAny /\ ~confirming[o] /\ Clear(o, asked[o]) /\ UNCHANGED stopAsked
       \/ stopAsked[o] # NotAny /\ stopAsked' = [stopAsked EXCEPT ![o] = NotAny]
          /\ UNCHANGED <<asked, confirming, withdrawn>>
    /\ UNCHANGED <<deviceVars, reachable, jobOn, revoking>>

\* A confirmation that names another Runner, or a Runner that may no longer go, drops the request.
ConfirmRevocation(o, r) ==
    /\ asked[o] # NotAny /\ ~confirming[o]
    /\ IF asked[o] = r /\ Revocable(r)
       THEN /\ confirming' = [confirming EXCEPT ![o] = TRUE]
            /\ revoking' = revoking \cup {<<o, r, "queued">>}
            /\ UNCHANGED <<asked, withdrawn>>
       ELSE Clear(o, asked[o]) /\ UNCHANGED revoking
    /\ UNCHANGED <<deviceVars, reachable, jobOn, stopAsked>>

\* revokeRunner, when its turn behind the barrier comes; the request is written first.
CheckRevocation(o, r) ==
    /\ <<o, r, "queued">> \in revoking
    /\ \A other \in revoking : other[3] = "queued"
    /\ IF Revocable(r)
       THEN /\ revoking' = (revoking \ {<<o, r, "queued">>}) \cup {<<o, r, "checked">>}
            /\ UNCHANGED <<asked, confirming, withdrawn>>
       ELSE revoking' = revoking \ {<<o, r, "queued">>} /\ Clear(o, r)
    /\ UNCHANGED <<deviceVars, reachable, jobOn, stopAsked>>

\* The event was written, or writing it failed and nothing is revoked.
FinishRevocation(o, r) ==
    /\ <<o, r, "checked">> \in revoking
    /\ revoking' = revoking \ {<<o, r, "checked">>} /\ Clear(o, r)
    /\ revoked' = revoked \cup {r} \/ UNCHANGED revoked
    /\ UNCHANGED <<token, device, reachable, jobOn, stopAsked>>

\* The answer to either stop command ends the handling of the message: what its sender
\* asked to revoke stays.  The name of a job that has ended drops what was asked before.
AskStop(o, j) ==
    /\ jobOn[j] # NotAny \/ stopAsked[o] # NotAny
    /\ stopAsked' = [stopAsked EXCEPT ![o] = IF jobOn[j] # NotAny THEN j ELSE NotAny]
    /\ UNCHANGED <<deviceVars, reachable, jobOn, asked, confirming, withdrawn, revoking>>

ConfirmStop(o, j) ==
    /\ jobOn[j] # NotAny
    /\ stopAsked' = [stopAsked EXCEPT ![o] = NotAny]
    /\ jobOn' = IF stopAsked[o] = j THEN [jobOn EXCEPT ![j] = NotAny] ELSE jobOn
    /\ UNCHANGED <<deviceVars, reachable, asked, confirming, withdrawn, revoking>>

\* The pending requests of both kinds are only in memory.
RestartFleetHub ==
    /\ asked' = [o \in ChatKeys |-> NotAny] /\ confirming' = [o \in ChatKeys |-> FALSE]
    /\ stopAsked' = [o \in ChatKeys |-> NotAny] /\ withdrawn' = {} /\ revoking' = {}
    /\ reachable' = {}
    /\ UNCHANGED <<deviceVars, jobOn>>

FleetNext ==
    \/ \E r \in FleetRunners :
         \/ IssueEnrollment(r) \/ TokenExpires(r) \/ Reachability(r) \/ RevokeFromWeb(r)
         \/ \E key \in DeviceKeys : ConsumeEnrollment(r, key)
         \/ \E j \in FleetJobs : CreateExplicit(j, r)
         \/ \E o \in ChatKeys :
              \/ RequestRevocation(o, r) \/ ConfirmRevocation(o, r)
              \/ CheckRevocation(o, r) \/ FinishRevocation(o, r)
    \/ \E j \in FleetJobs :
         \/ CreateAuto(j) \/ JobEnds(j)
         \/ \E o \in ChatKeys : AskStop(o, j) \/ ConfirmStop(o, j)
    \/ \E o \in ChatKeys : Expire(o) \/ \E cancel \in BOOLEAN : OtherMessage(o, cancel)
    \/ RestartFleetHub

FleetSpec == FleetInit /\ [][FleetNext]_fleetVars

\* A device is revoked only while it has no unfinished job, however long its confirmed
\* revocation waited (server.ts l.949-966, l.2233); it stays revoked, and no repeated
\* enrolment gives it another key (runner-registry.ts l.104-133).
RevocationIsSafe ==
    [][\A r \in FleetRunners :
        /\ r \in revoked' \ revoked => Load(r) = 0
        /\ r \in revoked => r \in revoked'
        /\ device[r] # NotAny => device'[r] = device[r]]_fleetVars
=============================================================================
