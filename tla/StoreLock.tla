------------------------------ MODULE StoreLock ------------------------------
(***************************************************************************)
(* The lock file of the JSONL event store (JsonlEventStore in              *)
(* event-store.ts): published by link(2), taken over from a process that   *)
(* died by whoever holds the claim file of that lock's generation, with a  *)
(* successor claim when a claimant died too.                               *)
(*                                                                         *)
(* Every action is one file system call.  A process is one opener with one *)
(* process id and one lock id; a process that comes back is another one.   *)
(* The sixteen attempts and sixty-four claims of the code are not counted. *)
(***************************************************************************)
EXTENDS Naturals, Sequences, FiniteSets

CONSTANTS
    Openers,        \* processes that open the store
    NoOpener,       \* no lock file
    MaxDeaths       \* processes that are killed

ASSUME StoreLockAssumption == NoOpener \notin Openers /\ MaxDeaths \in Nat

VARIABLES
    step,       \* where each opener is in #acquireLock
    lockFile,   \* whose record is at #lockPath
    claimFiles, \* claim path -> whose record is there; a path is <<generation, dead claimant, ...>>
    stale,      \* existing: the lock each opener found and means to replace
    claim,      \* the claim path each opener contends for
    killed      \* processes that died

storeLockVars == <<step, lockFile, claimFiles, stale, claim, killed>>

LockSteps == {"idle", "publish", "read", "claim", "verify", "pinned", "unlinked",
              "won", "lost", "holding", "closed", "refused"}

StoreLockTypeOK ==
    /\ step \in [Openers -> LockSteps] /\ killed \subseteq Openers
    /\ lockFile \in Openers \cup {NoOpener} /\ stale \in [Openers -> Openers \cup {NoOpener}]
    /\ \A path \in DOMAIN claimFiles : claimFiles[path] \in Openers
    /\ claim \in [Openers -> Seq(Openers)]

StoreLockInit ==
    /\ step = [p \in Openers |-> "idle"] /\ lockFile = NoOpener /\ killed = {}
    /\ claimFiles = [path \in {} |-> NoOpener]
    /\ stale = [p \in Openers |-> NoOpener] /\ claim = [p \in Openers |-> <<>>]

At(p, where) == p \notin killed /\ step[p] = where
Onto(p, where) == step' = [step EXCEPT ![p] = where]

OpenStore(p) ==
    /\ At(p, "idle") /\ Onto(p, "publish")
    /\ UNCHANGED <<lockFile, claimFiles, stale, claim, killed>>

\* link(2) creates the file only if there is none.
PublishLock(p) ==
    /\ At(p, "publish")
    /\ IF lockFile = NoOpener THEN lockFile' = p /\ Onto(p, "holding")
                              ELSE Onto(p, "read") /\ UNCHANGED lockFile
    /\ UNCHANGED <<claimFiles, stale, claim, killed>>

ReadLock(p) ==
    /\ At(p, "read")
    /\ \/ lockFile = NoOpener /\ Onto(p, "publish") /\ UNCHANGED <<stale, claim>>
       \/ lockFile \in Openers \ killed /\ Onto(p, "refused") /\ UNCHANGED <<stale, claim>>
       \/ lockFile \in killed
          /\ stale' = [stale EXCEPT ![p] = lockFile]
          /\ claim' = [claim EXCEPT ![p] = <<lockFile>>] /\ Onto(p, "claim")
    /\ UNCHANGED <<lockFile, claimFiles, killed>>

\* Faulty variant: a claimant that died is waited for.
ClaimBlocked(p) ==
    /\ At(p, "claim") /\ claim[p] \in DOMAIN claimFiles
    /\ Onto(p, "publish") /\ UNCHANGED claim

\* A live claimant is waited for; behind a dead one the successor path is tried.
ClaimTaken(p) ==
    /\ At(p, "claim") /\ claim[p] \in DOMAIN claimFiles
    /\ IF claimFiles[claim[p]] \in killed
       THEN claim' = [claim EXCEPT ![p] = Append(@, claimFiles[claim[p]])] /\ UNCHANGED step
       ELSE Onto(p, "publish") /\ UNCHANGED claim

\* Faulty variant: a claim is taken from a claimant that lives.
TakeAnyClaim(p) ==
    /\ At(p, "claim")
    /\ claimFiles' = [path \in DOMAIN claimFiles \cup {claim[p]} |->
                        IF path = claim[p] THEN p ELSE claimFiles[path]]
    /\ Onto(p, "verify") /\ UNCHANGED claim

ClaimFree(p) == claim[p] \notin DOMAIN claimFiles /\ TakeAnyClaim(p)

AcquireTakeoverClaim(p) ==
    /\ ClaimFree(p) \/ (ClaimTaken(p) /\ UNCHANGED claimFiles)
    /\ UNCHANGED <<lockFile, stale, killed>>

\* The lock read again under the claim, then once more beside its pinned inode.
Verify(p, from, onto) ==
    /\ At(p, from) /\ Onto(p, IF lockFile = stale[p] THEN onto ELSE "lost")
    /\ UNCHANGED <<lockFile, claimFiles, stale, claim, killed>>

VerifyStale(p) == Verify(p, "verify", "pinned")

RemoveStale(p) ==
    /\ At(p, "pinned") /\ lockFile' = NoOpener /\ Onto(p, "unlinked")
    /\ UNCHANGED <<claimFiles, stale, claim, killed>>

\* Somebody may have published in the window without a file.
LinkReplacement(p) ==
    /\ At(p, "unlinked")
    /\ IF lockFile = NoOpener THEN lockFile' = p /\ Onto(p, "won")
                              ELSE Onto(p, "lost") /\ UNCHANGED lockFile
    /\ UNCHANGED <<claimFiles, stale, claim, killed>>

ReleaseClaim(p) ==
    /\ At(p, "won") \/ At(p, "lost")
    /\ claimFiles' = [path \in DOMAIN claimFiles \ {claim[p]} |-> claimFiles[path]]
    /\ Onto(p, IF step[p] = "won" THEN "holding" ELSE "publish")
    /\ claim' = [claim EXCEPT ![p] = <<>>] /\ stale' = [stale EXCEPT ![p] = NoOpener]
    /\ UNCHANGED <<lockFile, killed>>

\* Only a file with one's own record is removed.
CloseStore(p) ==
    /\ At(p, "holding") /\ Onto(p, "closed")
    /\ lockFile' = IF lockFile = p THEN NoOpener ELSE lockFile
    /\ UNCHANGED <<claimFiles, stale, claim, killed>>

Kill(p) ==
    /\ p \notin killed /\ Cardinality(killed) < MaxDeaths
    /\ step[p] \notin {"idle", "closed", "refused"}
    /\ killed' = killed \cup {p}
    /\ UNCHANGED <<step, lockFile, claimFiles, stale, claim>>

Acquiring(p) ==
    \/ PublishLock(p) \/ ReadLock(p) \/ AcquireTakeoverClaim(p) \/ VerifyStale(p)
    \/ RemoveStale(p) \/ LinkReplacement(p) \/ ReleaseClaim(p)

StoreLockNext == \E p \in Openers : OpenStore(p) \/ Acquiring(p) \/ CloseStore(p) \/ Kill(p)

\* A process that was not killed goes on.
StoreLockFairness == \A p \in Openers : WF_storeLockVars(Acquiring(p))

StoreLockSpec == StoreLockInit /\ [][StoreLockNext]_storeLockVars /\ StoreLockFairness

\* Whoever believes to hold the store is the one the lock file names, through takeovers by
\* several processes at once and the death of any of them (event-store.ts l.368-473).
OneHolder ==
    \A p \in Openers \ killed : step[p] \in {"won", "holding"} => lockFile = p

\* Opening the store ends: neither a dead owner nor a dead claimant blocks it (l.475-506).
OpenersDecide ==
    \A p \in Openers :
        step[p] = "publish" ~> step[p] \in {"holding", "closed", "refused"} \/ p \in killed
=============================================================================
