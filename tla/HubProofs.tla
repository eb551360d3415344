------------------------------ MODULE HubProofs ------------------------------
(***************************************************************************)
(* The parts of the Hub, each for any number of processes, events,         *)
(* Runners, turns, source Jobs and versions: the store has one holder, its *)
(* log replays, a Runner is revoked by what was checked of it, a worker    *)
(* answers its own turn, and what is released of the Owner's assistant has *)
(* its evidence.                                                           *)
(***************************************************************************)
EXTENDS MCHub, NodeProofs, SequenceTheorems, FiniteSetTheorems, WellFoundedInduction, TLAPS

-----------------------------------------------------------------------------
(* The lock of the event store.                                            *)

\* From the lock read under a dead owner's name to the claim given back.
Contending == {"claim", "verify", "pinned", "unlinked", "won", "lost"}
Claiming == Contending \ {"claim"}
Live == Openers \ killed

(***************************************************************************)
(* A claim path begins with the dead owner of the lock, and each next      *)
(* member is the dead claimant of the path so far: claims of one lock form *)
(* a chain, of which only the end can have a live claimant.                *)
(***************************************************************************)
ChainOf(p) ==
    /\ claim[p] # <<>> /\ claim[p][1] = stale[p] /\ stale[p] \in killed
    /\ \A i \in 1..(Len(claim[p]) - 1) :
         LET path == SubSeq(claim[p], 1, i) IN
         path \in DOMAIN claimFiles /\ claimFiles[path] = claim[p][i + 1] /\ claim[p][i + 1] \in killed

SameChain(p, q) ==
    stale[p] = stale[q] =>
        \A i \in (1..Len(claim[p])) \cap (1..Len(claim[q])) : claim[p][i] = claim[q][i]

LockInv ==
    /\ StoreLockTypeOK
    /\ OneHolder
    /\ \A p \in Live : step[p] = "pinned" => lockFile = stale[p]
    /\ \A p \in Live : step[p] \in Contending => ChainOf(p)
    /\ \A p \in Live : step[p] \in Claiming => claim[p] \in DOMAIN claimFiles /\ claimFiles[claim[p]] = p
    /\ \A p, q \in Live : step[p] \in Contending /\ step[q] \in Contending => SameChain(p, q)

-----------------------------------------------------------------------------
\* Of two chains for one lock the shorter is where the longer one passed.
LEMMA PassedPath ==
    ASSUME LockInv, NEW p \in Live, NEW q \in Live, step[p] \in Contending, step[q] \in Contending,
           stale[p] = stale[q], Len(claim[p]) < Len(claim[q])
    PROVE  /\ claim[p] \in DOMAIN claimFiles
           /\ claimFiles[claim[p]] = claim[q][Len(claim[p]) + 1]
           /\ claimFiles[claim[p]] \in killed
  <1> DEFINE n == Len(claim[p])
  <1>1. /\ claim[p] \in Seq(Openers) /\ claim[q] \in Seq(Openers)
        /\ ChainOf(p) /\ ChainOf(q) /\ SameChain(p, q)
    BY DEF LockInv, StoreLockTypeOK, Live
  <1>2. n \in Nat \ {0} /\ Len(claim[q]) \in Nat /\ n \in 1..(Len(claim[q]) - 1)
    BY <1>1, EmptySeq, LenProperties DEF ChainOf
  <1>3. /\ SubSeq(claim[q], 1, n) \in Seq(Openers) /\ Len(SubSeq(claim[q], 1, n)) = n
        /\ \A i \in 1..n : SubSeq(claim[q], 1, n)[i] = claim[q][i]
    <2>1. \A i \in 1..n : claim[q][i] \in Openers
      BY <1>1, <1>2, ElementOfSeq
    <2>2. QED
      BY <1>2, <2>1, SubSeqProperties
  <1>4. \A i \in 1..n : claim[p][i] = claim[q][i]
    BY <1>1, <1>2 DEF SameChain
  <1>5. SubSeq(claim[q], 1, n) = claim[p]
    BY <1>1, <1>3, <1>4, SeqEqual
  <1>6. QED
    BY <1>1, <1>2, <1>5 DEF ChainOf

\* At most one live process has a claim on a lock.
LEMMA OneClaimant ==
    ASSUME LockInv, NEW p \in Live, NEW q \in Live, step[p] \in Claiming, step[q] \in Claiming,
           stale[p] = stale[q]
    PROVE  p = q
  <1>1. /\ step[p] \in Contending /\ step[q] \in Contending
        /\ claim[p] \in Seq(Openers) /\ claim[q] \in Seq(Openers)
        /\ claimFiles[claim[p]] = p /\ claimFiles[claim[q]] = q /\ p \notin killed /\ q \notin killed
    BY DEF LockInv, StoreLockTypeOK, Live, Claiming
  <1>2. Len(claim[p]) \in Nat /\ Len(claim[q]) \in Nat
    BY <1>1, LenProperties
  <1>3. ~(Len(claim[p]) < Len(claim[q])) /\ ~(Len(claim[q]) < Len(claim[p]))
    BY <1>1, PassedPath
  <1>4. Len(claim[p]) = Len(claim[q])
    BY <1>2, <1>3
  <1>5. \A i \in 1..Len(claim[p]) : claim[p][i] = claim[q][i]
    BY <1>1, <1>4 DEF LockInv, SameChain
  <1>6. claim[p] = claim[q]
    BY <1>1, <1>4, <1>5, SeqEqual
  <1>7. QED
    BY <1>1, <1>6

\* A chain goes through claims of dead processes, so it stays as long as these do.
LEMMA ChainKept ==
    ASSUME NEW p \in Openers, ChainOf(p), claim'[p] = claim[p], stale'[p] = stale[p],
           killed \subseteq killed',
           \A path \in DOMAIN claimFiles : claimFiles[path] \in killed =>
               path \in DOMAIN claimFiles' /\ claimFiles'[path] = claimFiles[path]
    PROVE  ChainOf(p)'
  BY DEF ChainOf

(***************************************************************************)
(* A step that leaves the claims alone, and moves nobody into contention.  *)
(***************************************************************************)
LEMMA ClaimsUntouched ==
    ASSUME LockInv, StoreLockTypeOK', OneHolder', UNCHANGED <<claimFiles, stale, claim>>,
           killed \subseteq killed',
           \A p \in Live' : step'[p] \in Contending => step[p] \in Contending,
           \A p \in Live' : step'[p] \in Claiming => step[p] \in Claiming,
           \A p \in Live' : step'[p] = "pinned" => lockFile' = stale[p]
    PROVE  LockInv'
  <1>1. Live' \subseteq Live /\ Live' \subseteq Openers
    BY DEF Live
  <1>2. \A p \in Live' : step'[p] \in Contending => ChainOf(p)'
    BY <1>1, ChainKept DEF LockInv
  <1>3. \A p \in Live' : step'[p] \in Claiming => claim'[p] \in DOMAIN claimFiles' /\ claimFiles'[claim'[p]] = p
    BY <1>1 DEF LockInv
  <1>4. \A p, q \in Live' : step'[p] \in Contending /\ step'[q] \in Contending => SameChain(p, q)'
    BY <1>1 DEF LockInv, SameChain
  <1>5. QED
    BY <1>2, <1>3, <1>4 DEF LockInv

LEMMA OnlyStep ==
    ASSUME LockInv, NEW p \in Openers, NEW where \in LockSteps, Onto(p, where)
    PROVE  /\ step' \in [Openers -> LockSteps] /\ step'[p] = where
           /\ \A q \in Openers : q # p => step'[q] = step[q]
  BY DEF LockInv, StoreLockTypeOK, Onto

LEMMA OpenStep ==
    ASSUME LockInv, NEW p \in Openers, OpenStore(p)
    PROVE  LockInv'
  <1>1. /\ step' \in [Openers -> LockSteps] /\ step'[p] = "publish"
        /\ \A q \in Openers : q # p => step'[q] = step[q]
    BY OnlyStep DEF OpenStore, LockSteps
  <1>2. Live' = Live /\ Live \subseteq Openers /\ "publish" \notin Contending
    BY DEF OpenStore, Live, Contending
  <1>3. StoreLockTypeOK' /\ OneHolder'
    BY <1>1 DEF OpenStore, LockInv, StoreLockTypeOK, OneHolder
  <1>4. QED
    BY <1>1, <1>2, <1>3, ClaimsUntouched DEF OpenStore, LockInv, Claiming, Contending

LEMMA PublishStep ==
    ASSUME LockInv, NEW p \in Openers, PublishLock(p)
    PROVE  LockInv'
  <1>1. \E where \in {"holding", "read"} :
          /\ step' \in [Openers -> LockSteps] /\ step'[p] = where
          /\ \A q \in Openers : q # p => step'[q] = step[q]
          /\ IF where = "holding" THEN lockFile = NoOpener /\ lockFile' = p ELSE UNCHANGED lockFile
    BY OnlyStep DEF PublishLock, LockSteps
  <1>2. Live' = Live /\ Live \subseteq Openers /\ "holding" \notin Contending /\ "read" \notin Contending
    BY DEF PublishLock, Live, Contending
  <1>3. \A q \in Live : step[q] = "pinned" => lockFile # NoOpener
    BY StoreLockAssumption DEF LockInv, ChainOf, Contending, StoreLockTypeOK, Live
  <1>4. \A q \in Live : step[q] \in {"won", "holding"} => lockFile # NoOpener
    BY StoreLockAssumption DEF LockInv, OneHolder, Live
  <1>5. StoreLockTypeOK' /\ OneHolder'
    BY <1>1, <1>4 DEF PublishLock, LockInv, StoreLockTypeOK, OneHolder, Live
  <1>6. QED
    BY <1>1, <1>2, <1>3, <1>5, ClaimsUntouched DEF PublishLock, LockInv, Claiming, Contending

LEMMA ClaimVerifyStep ==
    ASSUME LockInv, NEW p \in Openers, VerifyStale(p)
    PROVE  LockInv'
  <1>1. \E where \in {"pinned", "lost"} :
          /\ step' \in [Openers -> LockSteps] /\ step'[p] = where
          /\ \A q \in Openers : q # p => step'[q] = step[q]
          /\ where = "pinned" => lockFile = stale[p]
    BY OnlyStep DEF VerifyStale, Verify, LockSteps
  <1>2. step[p] = "verify" /\ UNCHANGED <<lockFile, claimFiles, stale, claim, killed>>
    BY DEF VerifyStale, Verify, At
  <1>3. Live' = Live /\ Live \subseteq Openers /\ "verify" \in Contending /\ "verify" \in Claiming
    BY <1>2 DEF Live, Contending, Claiming
  <1>4. StoreLockTypeOK' /\ OneHolder'
    BY <1>1, <1>2 DEF LockInv, StoreLockTypeOK, OneHolder
  <1>5. QED
    BY <1>1, <1>2, <1>3, <1>4, ClaimsUntouched DEF LockInv

(***************************************************************************)
(* The lock is unlinked by its only claimant, while its dead owner is in   *)
(* it: nobody holds the store, and nobody else is about to unlink it.      *)
(***************************************************************************)
LEMMA RemoveStep ==
    ASSUME LockInv, NEW p \in Openers, RemoveStale(p)
    PROVE  LockInv'
  <1>1. /\ step' \in [Openers -> LockSteps] /\ step'[p] = "unlinked"
        /\ \A q \in Openers : q # p => step'[q] = step[q]
    BY OnlyStep DEF RemoveStale, LockSteps
  <1>2. /\ step[p] = "pinned" /\ p \in Live /\ lockFile' = NoOpener
        /\ UNCHANGED <<claimFiles, stale, claim, killed>>
    BY DEF RemoveStale, At, Live
  <1>3. /\ Live' = Live /\ Live \subseteq Openers
        /\ {"pinned", "unlinked"} \subseteq Contending /\ {"pinned", "unlinked"} \subseteq Claiming
    BY <1>2 DEF Live, Contending, Claiming
  <1>4. lockFile = stale[p] /\ stale[p] \in killed
    BY <1>2, <1>3 DEF LockInv, ChainOf
  <1>5. \A q \in Live : q # p => step[q] # "pinned"
    BY <1>2, <1>3, <1>4, OneClaimant DEF LockInv
  <1>6. \A q \in Live : step[q] \notin {"won", "holding"}
    BY <1>4 DEF LockInv, OneHolder, Live
  <1>7. StoreLockTypeOK' /\ OneHolder'
    BY <1>1, <1>2, <1>6 DEF LockInv, StoreLockTypeOK, OneHolder, Live
  <1>8. QED
    BY <1>1, <1>2, <1>3, <1>5, <1>7, ClaimsUntouched

LEMMA LinkStep ==
    ASSUME LockInv, NEW p \in Openers, LinkReplacement(p)
    PROVE  LockInv'
  <1>1. \E where \in {"won", "lost"} :
          /\ step' \in [Openers -> LockSteps] /\ step'[p] = where
          /\ \A q \in Openers : q # p => step'[q] = step[q]
          /\ IF where = "won" THEN lockFile = NoOpener /\ lockFile' = p ELSE UNCHANGED lockFile
    BY OnlyStep DEF LinkReplacement, LockSteps
  <1>2. step[p] = "unlinked" /\ UNCHANGED <<claimFiles, stale, claim, killed>>
    BY DEF LinkReplacement, At
  <1>3. Live' = Live /\ Live \subseteq Openers /\ "unlinked" \in Contending /\ "unlinked" \in Claiming
    BY <1>2 DEF Live, Contending, Claiming
  <1>4. \A q \in Live : step[q] = "pinned" => lockFile # NoOpener
    BY StoreLockAssumption DEF LockInv, ChainOf, Contending, StoreLockTypeOK, Live
  <1>5. \A q \in Live : step[q] \in {"won", "holding"} => lockFile # NoOpener
    BY StoreLockAssumption DEF LockInv, OneHolder, Live
  <1>6. StoreLockTypeOK' /\ OneHolder'
    BY <1>1, <1>2, <1>5 DEF LockInv, StoreLockTypeOK, OneHolder, Live
  <1>7. QED
    BY <1>1, <1>2, <1>3, <1>4, <1>6, ClaimsUntouched DEF LockInv

LEMMA CloseStep ==
    ASSUME LockInv, NEW p \in Openers, CloseStore(p)
    PROVE  LockInv'
  <1>1. /\ step' \in [Openers -> LockSteps] /\ step'[p] = "closed"
        /\ \A q \in Openers : q # p => step'[q] = step[q]
    BY OnlyStep DEF CloseStore, LockSteps
  <1>2. /\ p \in Live /\ step[p] = "holding" /\ UNCHANGED <<claimFiles, stale, claim, killed>>
        /\ lockFile' = IF lockFile = p THEN NoOpener ELSE lockFile
    BY DEF CloseStore, At, Live
  <1>3. Live' = Live /\ Live \subseteq Openers /\ "closed" \notin Contending /\ "closed" \notin Claiming
    BY <1>2 DEF Live, Contending, Claiming
  <1>4. \A q \in Live : step[q] = "pinned" => lockFile # p
    BY <1>2 DEF LockInv, ChainOf, Contending, Live
  <1>5. \A q \in Live : q # p => step[q] \notin {"won", "holding"}
    BY <1>2 DEF LockInv, OneHolder, Live
  <1>6. StoreLockTypeOK' /\ OneHolder'
    BY <1>1, <1>2, <1>5 DEF LockInv, StoreLockTypeOK, OneHolder, Live
  <1>7. QED
    BY <1>1, <1>2, <1>3, <1>4, <1>6, ClaimsUntouched DEF LockInv

LEMMA KillStep ==
    ASSUME LockInv, NEW p \in Openers, Kill(p)
    PROVE  LockInv'
  <1>1. /\ killed' = killed \cup {p} /\ UNCHANGED <<step, lockFile, claimFiles, stale, claim>>
        /\ Live' \subseteq Live
    BY DEF Kill, Live
  <1>2. StoreLockTypeOK' /\ OneHolder'
    BY <1>1 DEF LockInv, StoreLockTypeOK, OneHolder
  <1>3. QED
    BY <1>1, <1>2, ClaimsUntouched DEF LockInv

(***************************************************************************)
(* Who finds a dead owner begins a chain, which agrees with every other    *)
(* chain for the same lock.                                                *)
(***************************************************************************)
LEMMA ReadStep ==
    ASSUME LockInv, NEW p \in Openers, ReadLock(p)
    PROVE  LockInv'
  <1>1. /\ p \in Live /\ step[p] = "read" /\ UNCHANGED <<lockFile, claimFiles, killed>>
        /\ Live' = Live /\ Live \subseteq Openers
    BY DEF ReadLock, At, Live
  <1>2. CASE UNCHANGED <<stale, claim>> /\ (Onto(p, "publish") \/ Onto(p, "refused"))
    <2>1. \E where \in {"publish", "refused"} :
            /\ step' \in [Openers -> LockSteps] /\ step'[p] = where
            /\ \A q \in Openers : q # p => step'[q] = step[q]
      BY <1>2, OnlyStep DEF LockSteps
    <2>2. StoreLockTypeOK' /\ OneHolder'
      BY <1>1, <1>2, <2>1 DEF LockInv, StoreLockTypeOK, OneHolder
    <2>3. \A q \in Live : q # p \/ (step'[q] \notin Contending /\ step'[q] \notin Claiming)
      BY <2>1 DEF Contending, Claiming
    <2>4. QED
      BY <1>1, <1>2, <2>1, <2>2, <2>3, ClaimsUntouched DEF LockInv
  <1>3. CASE /\ lockFile \in killed /\ stale' = [stale EXCEPT ![p] = lockFile]
             /\ claim' = [claim EXCEPT ![p] = <<lockFile>>] /\ Onto(p, "claim")
    <2>1. /\ step' \in [Openers -> LockSteps] /\ step'[p] = "claim"
          /\ \A q \in Openers : q # p => step'[q] = step[q]
      BY <1>3, OnlyStep DEF LockSteps
    <2>2. lockFile \in Openers /\ <<lockFile>> \in Seq(Openers) /\ Len(<<lockFile>>) = 1 /\ <<lockFile>>[1] = lockFile
      BY <1>3 DEF LockInv, StoreLockTypeOK
    <2>3. /\ stale' \in [Openers -> Openers \cup {NoOpener}] /\ stale'[p] = lockFile
          /\ \A q \in Openers : q # p => stale'[q] = stale[q]
      BY <1>3, <2>2 DEF LockInv, StoreLockTypeOK
    <2>4. /\ claim' \in [Openers -> Seq(Openers)] /\ claim'[p] = <<lockFile>>
          /\ \A q \in Openers : q # p => claim'[q] = claim[q]
      BY <1>3, <2>2 DEF LockInv, StoreLockTypeOK
    <2>5. StoreLockTypeOK' /\ OneHolder'
      BY <1>1, <2>1, <2>3, <2>4 DEF LockInv, StoreLockTypeOK, OneHolder
    <2>6. ASSUME NEW q \in Live, step'[q] \in Contending
          PROVE  ChainOf(q)'
      <3>1. CASE q = p
        <4>1. claim'[q] = <<lockFile>> /\ stale'[q] = lockFile
          BY <1>1, <2>3, <2>4, <3>1
        <4>2. Len(claim'[q]) = 1 /\ claim'[q] # <<>> /\ claim'[q][1] = lockFile
          BY <2>2, <4>1
        <4>3. \A i \in 1..(Len(claim'[q]) - 1) : FALSE
          BY <4>2
        <4>4. stale'[q] \in killed'
          BY <1>1, <1>3, <4>1
        <4>5. QED
          BY <4>1, <4>2, <4>3, <4>4 DEF ChainOf
      <3>2. CASE q # p
        BY <1>1, <2>1, <2>3, <2>4, <2>6, <3>2, ChainKept DEF LockInv
      <3>3. QED
        BY <3>1, <3>2
    <2>7. ASSUME NEW q \in Live, NEW r \in Live, step'[q] \in Contending, step'[r] \in Contending
          PROVE  SameChain(q, r)'
      <3>1. SUFFICES ASSUME stale'[q] = stale'[r],
                            NEW i \in (1..Len(claim'[q])) \cap (1..Len(claim'[r]))
                     PROVE  claim'[q][i] = claim'[r][i]
        BY DEF SameChain
      <3>2. claim'[q][1] = stale'[q] /\ claim'[r][1] = stale'[r]
        BY <2>6, <2>7 DEF ChainOf
      <3>3. CASE q # p /\ r # p
        <4>1. claim'[q] = claim[q] /\ claim'[r] = claim[r] /\ stale[q] = stale[r]
          BY <1>1, <2>3, <2>4, <3>1, <3>3
        <4>2. step[q] \in Contending /\ step[r] \in Contending
          BY <1>1, <2>1, <2>7, <3>3
        <4>3. SameChain(q, r)
          BY <4>2 DEF LockInv
        <4>4. QED
          BY <3>1, <4>1, <4>3 DEF SameChain
      <3>4. CASE q = p \/ r = p
        <4>1. i = 1
          <5>1. Len(claim'[q]) = 1 \/ Len(claim'[r]) = 1
            BY <2>2, <2>4, <3>4
          <5>2. i \in 1..Len(claim'[q]) /\ i \in 1..Len(claim'[r])
            BY <3>1
          <5>3. i \in 1..1
            BY <5>1, <5>2
          <5>4. QED
            BY <5>3
        <4>2. QED
          BY <3>1, <3>2, <4>1
      <3>5. QED
        BY <3>3, <3>4
    <2>8. \A q \in Live : step'[q] \in Claiming => claim'[q] \in DOMAIN claimFiles' /\ claimFiles'[claim'[q]] = q
      BY <1>1, <2>1, <2>4 DEF LockInv, Claiming
    <2>9. \A q \in Live : step'[q] = "pinned" => lockFile' = stale'[q]
      BY <1>1, <2>1, <2>3 DEF LockInv
    <2>10. QED
      BY <1>1, <2>5, <2>6, <2>7, <2>8, <2>9 DEF LockInv
  <1>4. QED
    BY <1>2, <1>3 DEF ReadLock

\* Who puts down a claim file is the live end of its chain.
LEMMA ClaimFreeStep ==
    ASSUME LockInv, NEW p \in Openers, ClaimFree(p), UNCHANGED <<lockFile, stale, killed>>
    PROVE  LockInv'
  <1>1. /\ p \in Live /\ step[p] = "claim" /\ UNCHANGED <<lockFile, stale, claim, killed>>
        /\ Live' = Live /\ Live \subseteq Openers /\ "claim" \in Contending
    BY DEF ClaimFree, TakeAnyClaim, At, Live, Contending
  <1>2. /\ step' \in [Openers -> LockSteps] /\ step'[p] = "verify"
        /\ \A q \in Openers : q # p => step'[q] = step[q]
    BY OnlyStep DEF ClaimFree, TakeAnyClaim, LockSteps
  <1>3. /\ claim[p] \notin DOMAIN claimFiles /\ DOMAIN claimFiles' = DOMAIN claimFiles \cup {claim[p]}
        /\ claimFiles'[claim[p]] = p
        /\ \A path \in DOMAIN claimFiles : claimFiles'[path] = claimFiles[path]
    BY DEF ClaimFree, TakeAnyClaim
  <1>4. StoreLockTypeOK' /\ OneHolder'
    BY <1>1, <1>2, <1>3 DEF LockInv, StoreLockTypeOK, OneHolder
  <1>5. \A q \in Live : step'[q] \in Contending => step[q] \in Contending /\ ChainOf(q)'
    BY <1>1, <1>2, <1>3, ChainKept DEF LockInv
  <1>6. \A q, r \in Live : step'[q] \in Contending /\ step'[r] \in Contending => SameChain(q, r)'
    <2>1. \A q, r \in Live : SameChain(q, r)' = SameChain(q, r)
      BY <1>1 DEF SameChain
    <2>2. QED
      BY <1>5, <2>1 DEF LockInv
  <1>7. \A q \in Live : step'[q] \in Claiming => claim'[q] \in DOMAIN claimFiles' /\ claimFiles'[claim'[q]] = q
    BY <1>1, <1>2, <1>3 DEF LockInv
  <1>8. \A q \in Live : step'[q] = "pinned" => lockFile' = stale'[q]
    BY <1>1, <1>2 DEF LockInv
  <1>9. QED
    BY <1>1, <1>4, <1>5, <1>6, <1>7, <1>8 DEF LockInv

(***************************************************************************)
(* Behind a dead claimant the chain grows by its name, where the longer    *)
(* chains have it too; behind a live one the opener begins again.          *)
(***************************************************************************)
LEMMA ClaimTakenStep ==
    ASSUME LockInv, NEW p \in Openers, ClaimTaken(p), UNCHANGED <<lockFile, claimFiles, stale, killed>>
    PROVE  LockInv'
  <1>1. /\ p \in Live /\ step[p] = "claim" /\ claim[p] \in DOMAIN claimFiles
        /\ Live' = Live /\ Live \subseteq Openers /\ "claim" \in Contending
    BY DEF ClaimTaken, At, Live, Contending
  <1>2. CASE Onto(p, "publish") /\ UNCHANGED claim
    <2>1. /\ step' \in [Openers -> LockSteps] /\ step'[p] = "publish"
          /\ \A q \in Openers : q # p => step'[q] = step[q]
      BY <1>2, OnlyStep DEF LockSteps
    <2>2. StoreLockTypeOK' /\ OneHolder'
      BY <1>1, <1>2, <2>1 DEF LockInv, StoreLockTypeOK, OneHolder
    <2>3. "publish" \notin Contending /\ "publish" \notin Claiming
      BY DEF Contending, Claiming
    <2>4. QED
      BY <1>1, <1>2, <2>1, <2>2, <2>3, ClaimsUntouched DEF LockInv
  <1>3. CASE /\ claimFiles[claim[p]] \in killed /\ UNCHANGED step
             /\ claim' = [claim EXCEPT ![p] = Append(@, claimFiles[claim[p]])]
    <2> DEFINE n == Len(claim[p])
               dead == claimFiles[claim[p]]
               longer == Append(claim[p], dead)
    <2>1. claim[p] \in Seq(Openers) /\ n \in Nat \ {0} /\ dead \in Openers /\ ChainOf(p)
      <3>1. claim[p] \in Seq(Openers) /\ dead \in Openers /\ ChainOf(p)
        BY <1>1 DEF LockInv, StoreLockTypeOK
      <3>2. QED
        BY <3>1, EmptySeq DEF ChainOf
    <2>2. /\ longer \in Seq(Openers) /\ Len(longer) = n + 1 /\ longer[n + 1] = dead
          /\ \A i \in 1..n : longer[i] = claim[p][i]
      BY <2>1, AppendProperties
    <2>3. /\ claim' \in [Openers -> Seq(Openers)] /\ claim'[p] = longer
          /\ \A q \in Openers : q # p => claim'[q] = claim[q]
      BY <1>3, <2>2 DEF LockInv, StoreLockTypeOK
    <2>4. StoreLockTypeOK' /\ OneHolder'
      BY <1>3, <2>3 DEF LockInv, StoreLockTypeOK, OneHolder
    <2> HIDE DEF longer
    <2>5. \A i \in 1..n : SubSeq(longer, 1, i) = SubSeq(claim[p], 1, i)
      <3>1. TAKE i \in 1..n
      <3>2. \A j \in 1..i : longer[j] = claim[p][j] /\ claim[p][j] \in Openers
        BY <2>1, <2>2, ElementOfSeq
      <3>3. /\ SubSeq(longer, 1, i) \in Seq(Openers) /\ Len(SubSeq(longer, 1, i)) = i
            /\ \A j \in 1..i : SubSeq(longer, 1, i)[j] = longer[j]
        BY <2>1, <3>2, SubSeqProperties
      <3>4. /\ SubSeq(claim[p], 1, i) \in Seq(Openers) /\ Len(SubSeq(claim[p], 1, i)) = i
            /\ \A j \in 1..i : SubSeq(claim[p], 1, i)[j] = claim[p][j]
        BY <2>1, <3>2, SubSeqProperties
      <3>5. QED
        BY <3>2, <3>3, <3>4, SeqEqual
    <2>6. ChainOf(p)'
      <3>1. claim'[p] # <<>> /\ claim'[p][1] = stale'[p] /\ stale'[p] \in killed'
        <4>1. longer # <<>> /\ longer[1] = claim[p][1]
          BY <2>1, <2>2, EmptySeq
        <4>2. QED
          BY <2>1, <2>3, <4>1 DEF ChainOf
      <3>2. ASSUME NEW i \in 1..(Len(claim'[p]) - 1)
            PROVE  /\ SubSeq(longer, 1, i) \in DOMAIN claimFiles
                   /\ claimFiles[SubSeq(longer, 1, i)] = longer[i + 1] /\ longer[i + 1] \in killed
        <4>1. i \in 1..n /\ SubSeq(longer, 1, i) = SubSeq(claim[p], 1, i)
          BY <2>1, <2>2, <2>3, <2>5
        <4>2. CASE i = n
          BY <1>1, <1>3, <2>1, <2>2, <4>1, <4>2, SubSeqFull
        <4>3. CASE i # n
          <5>1. i \in 1..(n - 1) /\ i + 1 \in 1..n
            BY <2>1, <4>1, <4>3
          <5>2. QED
            BY <2>1, <2>2, <4>1, <5>1 DEF ChainOf
        <4>4. QED
          BY <4>2, <4>3
      <3>3. QED
        BY <2>3, <3>1, <3>2 DEF ChainOf
    <2>7. \A q \in Live : step'[q] \in Contending => ChainOf(q)'
      BY <1>1, <1>3, <2>3, <2>6, ChainKept DEF LockInv
    <2>8. ASSUME NEW q \in Live, q # p, step[q] \in Contending
          PROVE  SameChain(p, q)' /\ SameChain(q, p)'
      <3>1. SUFFICES ASSUME stale[p] = stale[q], NEW i \in 1..Len(longer), i \in 1..Len(claim[q])
                     PROVE  longer[i] = claim[q][i]
        BY <1>1, <2>3, <2>8 DEF SameChain
      <3>2. CASE i \in 1..n
        <4>1. SameChain(p, q)
          BY <1>1, <2>8 DEF LockInv
        <4>2. QED
          BY <2>2, <3>1, <3>2, <4>1 DEF SameChain
      <3>3. CASE i \notin 1..n
        <4>1. i = n + 1 /\ Len(claim[q]) \in Nat
          <5>1. claim[q] \in Seq(Openers)
            BY <1>1, <2>8 DEF LockInv, StoreLockTypeOK
          <5>2. QED
            BY <2>1, <2>2, <3>1, <3>3, <5>1, LenProperties
        <4>2. n < Len(claim[q])
          BY <2>1, <3>1, <4>1
        <4>3. dead = claim[q][n + 1]
          BY <1>1, <2>8, <3>1, <4>2, PassedPath
        <4>4. QED
          BY <2>2, <4>1, <4>3
      <3>4. QED
        BY <3>2, <3>3
    <2>9. ASSUME NEW q \in Live, NEW r \in Live, step'[q] \in Contending, step'[r] \in Contending
          PROVE  SameChain(q, r)'
      <3>1. CASE q = p /\ r = p
        BY <3>1 DEF SameChain
      <3>2. CASE q # p /\ r # p
        BY <1>1, <1>3, <2>3, <2>9, <3>2 DEF LockInv, SameChain
      <3>3. CASE q = p /\ r # p
        BY <1>3, <2>8, <2>9, <3>3
      <3>4. CASE q # p /\ r = p
        BY <1>3, <2>8, <2>9, <3>4
      <3>5. QED
        BY <3>1, <3>2, <3>3, <3>4
    <2>10. \A q \in Live : step'[q] \in Claiming => claim'[q] \in DOMAIN claimFiles' /\ claimFiles'[claim'[q]] = q
      BY <1>1, <1>3, <2>3 DEF LockInv, Claiming
    <2>11. \A q \in Live : step'[q] = "pinned" => lockFile' = stale'[q]
      BY <1>3 DEF LockInv
    <2>12. QED
      BY <1>1, <2>4, <2>7, <2>9, <2>10, <2>11 DEF LockInv
  <1>4. QED
    BY <1>2, <1>3 DEF ClaimTaken

(***************************************************************************)
(* A live claimant takes its own claim file away, which is in no chain.    *)
(***************************************************************************)
LEMMA ClaimReleaseStep ==
    ASSUME LockInv, NEW p \in Openers, ReleaseClaim(p)
    PROVE  LockInv'
  <1>1. /\ p \in Live /\ step[p] \in {"won", "lost"} /\ UNCHANGED <<lockFile, killed>>
        /\ Live' = Live /\ Live \subseteq Openers /\ step[p] \in Claiming
    BY DEF ReleaseClaim, At, Live, Contending, Claiming
  <1>2. /\ step' \in [Openers -> LockSteps]
        /\ step'[p] = IF step[p] = "won" THEN "holding" ELSE "publish"
        /\ \A q \in Openers : q # p => step'[q] = step[q]
    BY OnlyStep DEF ReleaseClaim, LockSteps
  <1>3. /\ DOMAIN claimFiles' = DOMAIN claimFiles \ {claim[p]}
        /\ \A path \in DOMAIN claimFiles' : claimFiles'[path] = claimFiles[path]
    BY DEF ReleaseClaim
  <1>4. /\ claim' \in [Openers -> Seq(Openers)] /\ stale' \in [Openers -> Openers \cup {NoOpener}]
        /\ \A q \in Openers : q # p => claim'[q] = claim[q] /\ stale'[q] = stale[q]
    <2>1. <<>> \in Seq(Openers)
      BY EmptySeq
    <2>2. QED
      BY <2>1 DEF ReleaseClaim, LockInv, StoreLockTypeOK
  <1>5. claim[p] \in DOMAIN claimFiles /\ claimFiles[claim[p]] = p /\ p \notin killed
    BY <1>1 DEF LockInv, Live
  <1>6. StoreLockTypeOK' /\ OneHolder'
    BY <1>1, <1>2, <1>3, <1>4 DEF LockInv, StoreLockTypeOK, OneHolder
  <1>7. step'[p] \notin Contending
    BY <1>1, <1>2 DEF Contending
  <1>8. \A q \in Live : step'[q] \in Contending => q # p /\ step[q] \in Contending /\ ChainOf(q)'
    <2>1. \A path \in DOMAIN claimFiles : claimFiles[path] \in killed =>
              path \in DOMAIN claimFiles' /\ claimFiles'[path] = claimFiles[path]
      BY <1>3, <1>5
    <2>2. QED
      BY <1>1, <1>2, <1>4, <1>7, <2>1, ChainKept DEF LockInv
  <1>9. \A q \in Live : step'[q] \in Claiming => claim'[q] \in DOMAIN claimFiles' /\ claimFiles'[claim'[q]] = q
    <2>1. ASSUME NEW q \in Live, step'[q] \in Claiming
          PROVE  claim'[q] \in DOMAIN claimFiles' /\ claimFiles'[claim'[q]] = q
      <3>1. q # p /\ step[q] \in Claiming /\ claim'[q] = claim[q]
        BY <1>1, <1>2, <1>4, <1>7, <2>1 DEF Claiming
      <3>2. claim[q] \in DOMAIN claimFiles /\ claimFiles[claim[q]] = q
        BY <3>1 DEF LockInv
      <3>3. QED
        BY <1>3, <1>5, <3>1, <3>2
    <2>2. QED
      BY <2>1
  <1>10. \A q, r \in Live : step'[q] \in Contending /\ step'[r] \in Contending => SameChain(q, r)'
    <2>1. \A q, r \in Live : q # p /\ r # p => SameChain(q, r)' = SameChain(q, r)
      BY <1>1, <1>4 DEF SameChain
    <2>2. QED
      BY <1>8, <2>1 DEF LockInv
  <1>11. \A q \in Live : step'[q] = "pinned" => lockFile' = stale'[q]
    BY <1>1, <1>2, <1>4 DEF LockInv
  <1>12. QED
    BY <1>1, <1>6, <1>8, <1>9, <1>10, <1>11 DEF LockInv

-----------------------------------------------------------------------------
LEMMA InitLockInv == StoreLockInit => LockInv
  <1> SUFFICES ASSUME StoreLockInit PROVE LockInv
    OBVIOUS
  <1>1. StoreLockTypeOK
    <2>1. <<>> \in Seq(Openers)
      BY EmptySeq
    <2>2. QED
      BY <2>1 DEF StoreLockInit, StoreLockTypeOK, LockSteps
  <1>2. \A p \in Openers : step[p] = "idle"
    BY DEF StoreLockInit
  <1>3. QED
    BY <1>1, <1>2 DEF LockInv, OneHolder, Contending, Claiming, Live

LEMMA NextLockInv == LockInv /\ [StoreLockNext]_storeLockVars => LockInv'
  <1> SUFFICES ASSUME LockInv, [StoreLockNext]_storeLockVars PROVE LockInv'
    OBVIOUS
  <1>1. ASSUME NEW p \in Openers, OpenStore(p) \/ Acquiring(p) \/ CloseStore(p) \/ Kill(p)
        PROVE  LockInv'
    <2>1. ASSUME AcquireTakeoverClaim(p) PROVE LockInv'
      BY <2>1, ClaimFreeStep, ClaimTakenStep DEF AcquireTakeoverClaim
    <2>2. QED
      BY <1>1, <2>1, OpenStep, PublishStep, ReadStep, ClaimVerifyStep, RemoveStep, LinkStep, ClaimReleaseStep,
         CloseStep, KillStep DEF Acquiring
  <1>2. CASE UNCHANGED storeLockVars
    <2>1. Live' = Live /\ StoreLockTypeOK' /\ OneHolder'
      BY <1>2 DEF storeLockVars, Live, LockInv, StoreLockTypeOK, OneHolder
    <2>2. QED
      BY <1>2, <2>1, ClaimsUntouched DEF storeLockVars, LockInv
  <1>3. QED
    BY <1>1, <1>2 DEF StoreLockNext

(***************************************************************************)
(* Through takeovers by any number of openers at once and the death of any *)
(* of them, whoever believes to hold the store is the one the lock file    *)
(* names (event-store.ts l.368-473); the columns keep their types.         *)
(***************************************************************************)
THEOREM StoreHasOneHolder == StoreLockSpec => [](StoreLockTypeOK /\ OneHolder)
  <1>1. LockInv => StoreLockTypeOK /\ OneHolder
    BY DEF LockInv
  <1>2. QED
    BY <1>1, InitLockInv, NextLockInv, PTL DEF StoreLockSpec

-----------------------------------------------------------------------------
(* The revocation of Runners.                                              *)

\* A chat key asks for a Runner nobody else asks for, and holds it back from new jobs.
HeldByOne ==
    \A o \in ChatKeys : asked[o] # NotAny =>
        asked[o] \in withdrawn /\ \A p \in ChatKeys : asked[p] = asked[o] => p = o

\* A revocation under way is the only one of its Runner and the Runner is held back; if it
\* is still asked for, then by the confirmed request that the revocation came from.
OneRevocation ==
    \A o \in ChatKeys, r \in FleetRunners, s \in RevokeSteps : <<o, r, s>> \in revoking =>
        /\ r \in withdrawn
        /\ \A p \in ChatKeys, t \in RevokeSteps : <<p, r, t>> \in revoking => p = o /\ t = s
        /\ \A p \in ChatKeys : asked[p] = r => p = o /\ confirming[p]

\* What was checked before the event is written is still so.
CheckHolds ==
    \A o \in ChatKeys, r \in FleetRunners : <<o, r, "checked">> \in revoking =>
        device[r] # NotAny /\ \A j \in FleetJobs : jobOn[j] # r

OpenJobs == {j \in FleetJobs : jobOn[j] # NotAny}

FleetInv ==
    /\ FleetTypeOK
    /\ IsFiniteSet(OpenJobs) /\ \A r \in revoked : device[r] # NotAny
    /\ HeldByOne /\ OneRevocation /\ CheckHolds

\* A Runner without load has no job.
LEMMA LoadIsJobs ==
    ASSUME FleetInv, NEW r \in FleetRunners
    PROVE  Load(r) = 0 <=> \A j \in FleetJobs : jobOn[j] # r
  <1> DEFINE jobs == {j \in FleetJobs : jobOn[j] = r}
  <1>1. jobs \subseteq OpenJobs /\ IsFiniteSet(OpenJobs)
    BY FleetAssumption DEF OpenJobs, FleetInv
  <1>2. IsFiniteSet(jobs)
    BY <1>1, FS_Subset
  <1>3. Cardinality(jobs) = 0 <=> jobs = {}
    BY <1>2, FS_EmptySet
  <1>4. QED
    BY <1>3 DEF Load

\* Jobs and devices change; a Runner that is held back gets no job.
LEMMA BesideTheChat ==
    ASSUME FleetInv, FleetTypeOK', UNCHANGED <<asked, confirming, withdrawn, revoking>>,
           IsFiniteSet(OpenJobs)', \A r \in revoked' : device'[r] # NotAny,
           \A r \in FleetRunners : device[r] # NotAny => device'[r] # NotAny,
           \A j \in FleetJobs : jobOn'[j] = jobOn[j] \/ jobOn'[j] \notin withdrawn
    PROVE  FleetInv'
  <1>1. HeldByOne' /\ OneRevocation'
    BY DEF FleetInv, HeldByOne, OneRevocation
  <1>2. CheckHolds'
    <2> SUFFICES ASSUME NEW o \in ChatKeys, NEW r \in FleetRunners, <<o, r, "checked">> \in revoking
                 PROVE  device'[r] # NotAny /\ \A j \in FleetJobs : jobOn'[j] # r
      BY DEF CheckHolds
    <2>1. device[r] # NotAny /\ \A j \in FleetJobs : jobOn[j] # r
      BY DEF FleetInv, CheckHolds
    <2>2. r \in withdrawn
      BY DEF FleetInv, OneRevocation, RevokeSteps
    <2>3. QED
      BY <2>1, <2>2
  <1>3. QED
    BY <1>1, <1>2 DEF FleetInv

\* A job is given to a Runner that is not held back, or it ends.
LEMMA JobMoves ==
    ASSUME FleetInv, NEW j \in FleetJobs, NEW r \in FleetRunners \cup {NotAny},
           jobOn' = [jobOn EXCEPT ![j] = r], r \notin withdrawn,
           UNCHANGED <<token, device, revoked, reachable, asked, confirming, withdrawn, revoking>>,
           stopAsked' \in [ChatKeys -> FleetJobs \cup {NotAny}]
    PROVE  FleetInv'
  <1>1. FleetTypeOK'
    BY DEF FleetInv, FleetTypeOK
  <1>2. OpenJobs' \subseteq OpenJobs \cup {j} /\ IsFiniteSet(OpenJobs)
    BY DEF FleetInv, FleetTypeOK, OpenJobs
  <1>3. IsFiniteSet(OpenJobs \cup {j})
    BY <1>2, FS_AddElement
  <1>4. IsFiniteSet(OpenJobs')
    BY <1>2, <1>3, FS_Subset
  <1>5. IsFiniteSet(OpenJobs)'
    BY <1>4
  <1>6. \A k \in FleetJobs : jobOn'[k] = jobOn[k] \/ jobOn'[k] \notin withdrawn
    BY DEF FleetInv, FleetTypeOK
  <1>7. \A k \in revoked' : device'[k] # NotAny
    BY DEF FleetInv
  <1>8. QED
    BY <1>1, <1>5, <1>6, <1>7, BesideTheChat

\* The jobs stay; so does what chats asked for.
LEMMA DeviceMoves ==
    ASSUME FleetInv, FleetTypeOK', UNCHANGED <<jobOn, asked, confirming, withdrawn, revoking>>,
           \A r \in revoked' : device'[r] # NotAny,
           \A r \in FleetRunners : device[r] # NotAny => device'[r] # NotAny
    PROVE  FleetInv'
  <1>1. IsFiniteSet(OpenJobs)'
    BY DEF FleetInv, OpenJobs
  <1>2. QED
    BY <1>1, BesideTheChat

\* A chat key lets go of a Runner that nobody else asks for and nothing more is under way for.
LEMMA LetGo ==
    ASSUME FleetInv, NEW o \in ChatKeys, NEW r \in FleetRunners, Clear(o, r),
           revoking' \subseteq revoking, \A p \in ChatKeys, t \in RevokeSteps : <<p, r, t>> \notin revoking',
           \A p \in ChatKeys : p # o => asked[p] # r,
           UNCHANGED <<token, device, reachable, jobOn>>, revoked' \subseteq FleetRunners,
           \A q \in revoked' : device[q] # NotAny,
           stopAsked' \in [ChatKeys -> FleetJobs \cup {NotAny}]
    PROVE  FleetInv'
  <1>1. /\ asked' = [asked EXCEPT ![o] = NotAny] /\ confirming' = [confirming EXCEPT ![o] = FALSE]
        /\ withdrawn' = withdrawn \ {r}
    BY DEF Clear
  <1>2. /\ asked'[o] = NotAny /\ \A p \in ChatKeys : p # o => asked'[p] = asked[p]
        /\ \A p \in ChatKeys : p # o => confirming'[p] = confirming[p]
    BY <1>1 DEF FleetInv, FleetTypeOK
  <1>3. FleetTypeOK'
    BY <1>1 DEF FleetInv, FleetTypeOK
  <1>4. HeldByOne'
    BY <1>1, <1>2 DEF FleetInv, HeldByOne
  <1>5. OneRevocation'
    <2> SUFFICES ASSUME NEW p \in ChatKeys, NEW q \in FleetRunners, NEW s \in RevokeSteps, <<p, q, s>> \in revoking'
                 PROVE  /\ q \in withdrawn'
                        /\ \A k \in ChatKeys, t \in RevokeSteps : <<k, q, t>> \in revoking' => k = p /\ t = s
                        /\ \A k \in ChatKeys : asked'[k] = q => k = p /\ confirming'[k]
      BY DEF OneRevocation
    <2>1. q # r /\ <<p, q, s>> \in revoking /\ q # NotAny
      BY FleetAssumption
    <2>2. /\ q \in withdrawn
          /\ \A k \in ChatKeys, t \in RevokeSteps : <<k, q, t>> \in revoking => k = p /\ t = s
          /\ \A k \in ChatKeys : asked[k] = q => k = p /\ confirming[k]
      BY <2>1 DEF FleetInv, OneRevocation
    <2>3. QED
      BY <1>1, <1>2, <2>1, <2>2
  <1>6. CheckHolds'
    BY DEF FleetInv, CheckHolds
  <1>7. IsFiniteSet(OpenJobs)'
    BY DEF FleetInv, OpenJobs
  <1>8. QED
    BY <1>3, <1>4, <1>5, <1>6, <1>7 DEF FleetInv

\* A request that is not being confirmed is dropped.
LEMMA DropStep ==
    ASSUME FleetInv, NEW o \in ChatKeys, asked[o] # NotAny, ~confirming[o], Clear(o, asked[o]),
           UNCHANGED <<token, device, revoked, reachable, jobOn, revoking>>,
           stopAsked' \in [ChatKeys -> FleetJobs \cup {NotAny}]
    PROVE  FleetInv'
  <1>1. asked[o] \in FleetRunners /\ revoked \subseteq FleetRunners
    BY DEF FleetInv, FleetTypeOK
  <1>2. \A p \in ChatKeys, t \in RevokeSteps : <<p, asked[o], t>> \notin revoking
    BY <1>1 DEF FleetInv, OneRevocation
  <1>3. \A p \in ChatKeys : p # o => asked[p] # asked[o]
    BY DEF FleetInv, HeldByOne
  <1>4. \A q \in revoked' : device[q] # NotAny
    BY DEF FleetInv
  <1>5. QED
    BY <1>1, <1>2, <1>3, <1>4, LetGo

LEMMA MessageStep ==
    ASSUME FleetInv, NEW o \in ChatKeys, NEW cancel \in BOOLEAN, OtherMessage(o, cancel)
    PROVE  FleetInv'
  <1>1. /\ UNCHANGED <<token, device, revoked, reachable, jobOn, revoking>>
        /\ stopAsked' \in [ChatKeys -> FleetJobs \cup {NotAny}]
    BY DEF OtherMessage, deviceVars, FleetInv, FleetTypeOK
  <1>2. CASE asked[o] # NotAny /\ ~confirming[o]
    BY <1>1, <1>2, DropStep DEF OtherMessage, DropAsked
  <1>3. CASE ~(asked[o] # NotAny /\ ~confirming[o])
    <2>1. UNCHANGED <<asked, confirming, withdrawn>>
      BY <1>3 DEF OtherMessage, DropAsked
    <2>2. FleetTypeOK'
      BY <1>1, <2>1 DEF FleetInv, FleetTypeOK
    <2>3. \A r \in revoked' : device'[r] # NotAny
      BY <1>1 DEF FleetInv
    <2>4. QED
      BY <1>1, <2>1, <2>2, <2>3, DeviceMoves
  <1>4. QED
    BY <1>2, <1>3

LEMMA ExpireStep ==
    ASSUME FleetInv, NEW o \in ChatKeys, Expire(o)
    PROVE  FleetInv'
  <1>1. /\ UNCHANGED <<token, device, revoked, reachable, jobOn, revoking>>
        /\ stopAsked' \in [ChatKeys -> FleetJobs \cup {NotAny}]
    BY DEF Expire, deviceVars, FleetInv, FleetTypeOK
  <1>2. CASE asked[o] # NotAny /\ ~confirming[o] /\ Clear(o, asked[o])
    BY <1>1, <1>2, DropStep
  <1>3. CASE UNCHANGED <<asked, confirming, withdrawn>>
    <2>1. FleetTypeOK'
      BY <1>1, <1>3 DEF FleetInv, FleetTypeOK
    <2>2. \A r \in revoked' : device'[r] # NotAny
      BY <1>1 DEF FleetInv
    <2>3. QED
      BY <1>1, <1>3, <2>1, <2>2, DeviceMoves
  <1>4. QED
    BY <1>2, <1>3 DEF Expire

\* A Runner is asked for that was held back by nobody, or only by this chat key.
LEMMA RequestStep ==
    ASSUME FleetInv, NEW o \in ChatKeys, NEW r \in FleetRunners, RequestRevocation(o, r)
    PROVE  FleetInv'
  <1> DEFINE left == IF confirming[o] THEN withdrawn ELSE withdrawn \ {asked[o]}
  <1>1. /\ r \notin left /\ withdrawn' = left \cup {r}
        /\ asked' = [asked EXCEPT ![o] = r] /\ confirming' = [confirming EXCEPT ![o] = FALSE]
        /\ UNCHANGED <<token, device, revoked, reachable, jobOn, revoking, stopAsked>>
    BY DEF RequestRevocation, deviceVars
  <1>2. /\ asked'[o] = r /\ \A p \in ChatKeys : p # o => asked'[p] = asked[p]
        /\ \A p \in ChatKeys : p # o => confirming'[p] = confirming[p]
        /\ left \subseteq FleetRunners
    BY <1>1 DEF FleetInv, FleetTypeOK
  <1>3. FleetTypeOK'
    BY <1>1, <1>2 DEF FleetInv, FleetTypeOK
  <1>4. \A p \in ChatKeys : p # o => asked[p] # r
    BY <1>1, FleetAssumption DEF FleetInv, HeldByOne
  <1>5. \A p \in ChatKeys : p # o /\ asked[p] # NotAny => asked[p] \in left
    BY DEF FleetInv, HeldByOne
  <1>6. HeldByOne'
    <2> SUFFICES ASSUME NEW p \in ChatKeys, asked'[p] # NotAny
                 PROVE  asked'[p] \in withdrawn' /\ \A k \in ChatKeys : asked'[k] = asked'[p] => k = p
      BY DEF HeldByOne
    <2>1. CASE p = o
      BY <1>1, <1>2, <1>4, <2>1
    <2>2. CASE p # o
      <3>1. asked[p] # NotAny /\ asked'[p] = asked[p]
        BY <1>2, <2>2
      <3>2. \A k \in ChatKeys : asked[k] = asked[p] => k = p
        BY <3>1 DEF FleetInv, HeldByOne
      <3>3. QED
        BY <1>1, <1>2, <1>4, <1>5, <2>2, <3>1, <3>2
    <2>3. QED
      BY <2>1, <2>2
  <1>7. \A p \in ChatKeys, q \in FleetRunners, s \in RevokeSteps : <<p, q, s>> \in revoking => q \in left /\ q # r
    BY <1>1 DEF FleetInv, OneRevocation
  <1>8. OneRevocation'
    BY <1>1, <1>2, <1>7 DEF FleetInv, OneRevocation
  <1>9. CheckHolds' /\ IsFiniteSet(OpenJobs)' /\ \A q \in revoked' : device'[q] # NotAny
    BY <1>1 DEF FleetInv, CheckHolds, OpenJobs
  <1>10. QED
    BY <1>3, <1>6, <1>8, <1>9 DEF FleetInv

LEMMA ConfirmStep ==
    ASSUME FleetInv, NEW o \in ChatKeys, NEW r \in FleetRunners, ConfirmRevocation(o, r)
    PROVE  FleetInv'
  <1>1. /\ asked[o] # NotAny /\ ~confirming[o] /\ stopAsked' \in [ChatKeys -> FleetJobs \cup {NotAny}]
        /\ UNCHANGED <<token, device, revoked, reachable, jobOn, stopAsked>>
    BY DEF ConfirmRevocation, deviceVars, FleetInv, FleetTypeOK
  <1>2. CASE Clear(o, asked[o]) /\ UNCHANGED revoking
    BY <1>1, <1>2, DropStep
  <1>3. CASE /\ asked[o] = r /\ confirming' = [confirming EXCEPT ![o] = TRUE]
             /\ revoking' = revoking \cup {<<o, r, "queued">>} /\ UNCHANGED <<asked, withdrawn>>
    <2>1. confirming'[o] /\ \A p \in ChatKeys : p # o => confirming'[p] = confirming[p]
      BY <1>3 DEF FleetInv, FleetTypeOK
    <2>2. FleetTypeOK'
      BY <1>1, <1>3 DEF FleetInv, FleetTypeOK, RevokeSteps
    <2>3. \A p \in ChatKeys, t \in RevokeSteps : <<p, r, t>> \notin revoking
      BY <1>1, <1>3 DEF FleetInv, OneRevocation
    <2>4. r \in withdrawn /\ \A p \in ChatKeys : asked[p] = r => p = o
      BY <1>1, <1>3 DEF FleetInv, HeldByOne
    <2>5. OneRevocation'
      <3> SUFFICES ASSUME NEW p \in ChatKeys, NEW q \in FleetRunners, NEW s \in RevokeSteps, <<p, q, s>> \in revoking'
                   PROVE  /\ q \in withdrawn
                          /\ \A k \in ChatKeys, t \in RevokeSteps : <<k, q, t>> \in revoking' => k = p /\ t = s
                          /\ \A k \in ChatKeys : asked[k] = q => k = p /\ confirming'[k]
        BY <1>3 DEF OneRevocation
      <3>1. CASE q = r
        BY <1>3, <2>1, <2>3, <2>4, <3>1
      <3>2. CASE q # r
        <4>1. <<p, q, s>> \in revoking
          BY <1>3, <3>2
        <4>2. /\ q \in withdrawn
              /\ \A k \in ChatKeys, t \in RevokeSteps : <<k, q, t>> \in revoking => k = p /\ t = s
              /\ \A k \in ChatKeys : asked[k] = q => k = p /\ confirming[k]
          BY <4>1 DEF FleetInv, OneRevocation
        <4>3. QED
          BY <1>3, <2>1, <3>2, <4>2
      <3>3. QED
        BY <3>1, <3>2
    <2>6. CheckHolds'
      BY <1>1, <1>3 DEF FleetInv, CheckHolds
    <2>7. HeldByOne' /\ IsFiniteSet(OpenJobs)' /\ \A q \in revoked' : device'[q] # NotAny
      BY <1>1, <1>3 DEF FleetInv, HeldByOne, OpenJobs
    <2>8. QED
      BY <2>2, <2>5, <2>6, <2>7 DEF FleetInv
  <1>4. QED
    BY <1>2, <1>3 DEF ConfirmRevocation

\* The revocation of a Runner ends, whether it was found unsafe or carried out.
LEMMA RevocationOver ==
    ASSUME FleetInv, NEW o \in ChatKeys, NEW r \in FleetRunners, NEW s \in RevokeSteps,
           <<o, r, s>> \in revoking, revoking' = revoking \ {<<o, r, s>>}, Clear(o, r),
           UNCHANGED <<token, device, reachable, jobOn, stopAsked>>,
           revoked' = revoked \/ (revoked' = revoked \cup {r} /\ device[r] # NotAny)
    PROVE  FleetInv'
  <1>1. \A p \in ChatKeys, t \in RevokeSteps : <<p, r, t>> \notin revoking'
    BY DEF FleetInv, OneRevocation
  <1>2. \A p \in ChatKeys : p # o => asked[p] # r
    BY DEF FleetInv, OneRevocation
  <1>3. revoked' \subseteq FleetRunners /\ (\A q \in revoked' : device[q] # NotAny) /\ stopAsked' \in [ChatKeys -> FleetJobs \cup {NotAny}]
    BY DEF FleetInv, FleetTypeOK
  <1>4. QED
    BY <1>1, <1>2, <1>3, LetGo

LEMMA CheckStep ==
    ASSUME FleetInv, NEW o \in ChatKeys, NEW r \in FleetRunners, CheckRevocation(o, r)
    PROVE  FleetInv'
  <1>1. <<o, r, "queued">> \in revoking /\ UNCHANGED <<token, device, revoked, reachable, jobOn, stopAsked>>
    BY DEF CheckRevocation, deviceVars
  <1>2. CASE revoking' = revoking \ {<<o, r, "queued">>} /\ Clear(o, r)
    BY <1>1, <1>2, RevocationOver DEF RevokeSteps
  <1>3. CASE /\ Revocable(r) /\ UNCHANGED <<asked, confirming, withdrawn>>
             /\ revoking' = (revoking \ {<<o, r, "queued">>}) \cup {<<o, r, "checked">>}
    <2>1. "queued" \in RevokeSteps /\ "checked" \in RevokeSteps
      BY DEF RevokeSteps
    <2>2. FleetTypeOK'
      BY <1>1, <1>3, <2>1 DEF FleetInv, FleetTypeOK
    <2>3. /\ r \in withdrawn
          /\ \A p \in ChatKeys, t \in RevokeSteps : <<p, r, t>> \in revoking => p = o /\ t = "queued"
          /\ \A p \in ChatKeys : asked[p] = r => p = o /\ confirming[p]
      BY <1>1, <2>1 DEF FleetInv, OneRevocation
    <2>4. OneRevocation'
      <3> SUFFICES ASSUME NEW p \in ChatKeys, NEW q \in FleetRunners, NEW s \in RevokeSteps, <<p, q, s>> \in revoking'
                   PROVE  /\ q \in withdrawn
                          /\ \A k \in ChatKeys, t \in RevokeSteps : <<k, q, t>> \in revoking' => k = p /\ t = s
                          /\ \A k \in ChatKeys : asked[k] = q => k = p /\ confirming[k]
        BY <1>3 DEF OneRevocation
      <3>1. CASE q = r
        BY <1>3, <2>3, <3>1
      <3>2. CASE q # r
        <4>1. <<p, q, s>> \in revoking
          BY <1>3, <3>2
        <4>2. /\ q \in withdrawn
              /\ \A k \in ChatKeys, t \in RevokeSteps : <<k, q, t>> \in revoking => k = p /\ t = s
              /\ \A k \in ChatKeys : asked[k] = q => k = p /\ confirming[k]
          BY <4>1 DEF FleetInv, OneRevocation
        <4>3. QED
          BY <1>3, <3>2, <4>2
      <3>3. QED
        BY <3>1, <3>2
    <2>5. device[r] # NotAny /\ \A j \in FleetJobs : jobOn[j] # r
      BY <1>3, LoadIsJobs DEF Revocable, Enrolled
    <2>6. CheckHolds'
      BY <1>1, <1>3, <2>5 DEF FleetInv, CheckHolds
    <2>7. HeldByOne' /\ IsFiniteSet(OpenJobs)' /\ \A q \in revoked' : device'[q] # NotAny
      BY <1>1, <1>3 DEF FleetInv, HeldByOne, OpenJobs
    <2>8. QED
      BY <2>2, <2>4, <2>6, <2>7 DEF FleetInv
  <1>4. QED
    BY <1>2, <1>3 DEF CheckRevocation

LEMMA FinishStep ==
    ASSUME FleetInv, NEW o \in ChatKeys, NEW r \in FleetRunners, FinishRevocation(o, r)
    PROVE  FleetInv' /\ Load(r) = 0
  <1>1. /\ <<o, r, "checked">> \in revoking /\ "checked" \in RevokeSteps
        /\ UNCHANGED <<token, device, reachable, jobOn, stopAsked>>
    BY DEF FinishRevocation, RevokeSteps
  <1>2. device[r] # NotAny /\ \A j \in FleetJobs : jobOn[j] # r
    BY <1>1 DEF FleetInv, CheckHolds
  <1>3. QED
    BY <1>1, <1>2, LoadIsJobs, RevocationOver DEF FinishRevocation

LEMMA RestartFleetStep ==
    ASSUME FleetInv, RestartFleetHub
    PROVE  FleetInv'
  <1>1. /\ asked' = [o \in ChatKeys |-> NotAny] /\ confirming' = [o \in ChatKeys |-> FALSE]
        /\ stopAsked' = [o \in ChatKeys |-> NotAny] /\ withdrawn' = {} /\ revoking' = {} /\ reachable' = {}
        /\ UNCHANGED <<token, device, revoked, jobOn>>
    BY DEF RestartFleetHub, deviceVars
  <1>2. FleetTypeOK'
    BY <1>1 DEF FleetInv, FleetTypeOK
  <1>3. HeldByOne' /\ OneRevocation' /\ CheckHolds'
    BY <1>1 DEF HeldByOne, OneRevocation, CheckHolds
  <1>4. IsFiniteSet(OpenJobs)' /\ \A q \in revoked' : device'[q] # NotAny
    BY <1>1 DEF FleetInv, OpenJobs
  <1>5. QED
    BY <1>2, <1>3, <1>4 DEF FleetInv

\* Enrolment, heartbeats and the Web leave the chats alone.
LEMMA EnrolmentStep ==
    ASSUME FleetInv, NEW r \in FleetRunners,
           IssueEnrollment(r) \/ TokenExpires(r) \/ Reachability(r) \/ RevokeFromWeb(r)
             \/ \E key \in DeviceKeys : ConsumeEnrollment(r, key)
    PROVE  FleetInv'
  <1>1. CASE IssueEnrollment(r) \/ TokenExpires(r)
    <2>1. /\ token' \in [FleetRunners -> {"none", "issued", "expired", "consumed"}]
          /\ UNCHANGED <<device, revoked, reachable, jobOn, asked, confirming, withdrawn, revoking, stopAsked>>
      BY <1>1 DEF IssueEnrollment, TokenExpires, chatVars, FleetInv, FleetTypeOK
    <2>2. FleetTypeOK' /\ \A q \in revoked' : device'[q] # NotAny
      BY <2>1 DEF FleetInv, FleetTypeOK
    <2>3. QED
      BY <2>1, <2>2, DeviceMoves
  <1>2. CASE Reachability(r)
    <2>1. /\ reachable' \subseteq FleetRunners
          /\ UNCHANGED <<token, device, revoked, jobOn, asked, confirming, withdrawn, revoking, stopAsked>>
      BY <1>2 DEF Reachability, deviceVars, chatVars, FleetInv, FleetTypeOK
    <2>2. FleetTypeOK' /\ \A q \in revoked' : device'[q] # NotAny
      BY <2>1 DEF FleetInv, FleetTypeOK
    <2>3. QED
      BY <2>1, <2>2, DeviceMoves
  <1>3. CASE RevokeFromWeb(r)
    <2>1. /\ revoked' = revoked \cup {r} /\ device[r] # NotAny
          /\ UNCHANGED <<token, device, reachable, jobOn, asked, confirming, withdrawn, revoking, stopAsked>>
      BY <1>3 DEF RevokeFromWeb, Revocable, Enrolled, chatVars
    <2>2. FleetTypeOK' /\ \A q \in revoked' : device'[q] # NotAny
      BY <2>1 DEF FleetInv, FleetTypeOK
    <2>3. QED
      BY <2>1, <2>2, DeviceMoves
  <1>4. ASSUME NEW key \in DeviceKeys, ConsumeEnrollment(r, key) PROVE FleetInv'
    <2>1. /\ token' = [token EXCEPT ![r] = "consumed"] /\ device' = [device EXCEPT ![r] = key]
          /\ revoked' = revoked \ {r} /\ key # NotAny
          /\ UNCHANGED <<reachable, jobOn, asked, confirming, withdrawn, revoking, stopAsked>>
      BY <1>4, FleetAssumption DEF ConsumeEnrollment, chatVars
    <2>2. FleetTypeOK'
      BY <2>1 DEF FleetInv, FleetTypeOK
    <2>3. (\A q \in revoked' : device'[q] # NotAny) /\ \A q \in FleetRunners : device[q] # NotAny => device'[q] # NotAny
      BY <2>1 DEF FleetInv, FleetTypeOK
    <2>4. QED
      BY <2>1, <2>2, <2>3, DeviceMoves
  <1>5. QED
    BY <1>1, <1>2, <1>3, <1>4

LEMMA JobStep ==
    ASSUME FleetInv, NEW j \in FleetJobs,
           CreateAuto(j) \/ JobEnds(j) \/ \E r \in FleetRunners : CreateExplicit(j, r)
    PROVE  FleetInv'
  <1>1. /\ UNCHANGED <<token, device, revoked, reachable, asked, confirming, withdrawn, revoking, stopAsked>>
        /\ stopAsked' \in [ChatKeys -> FleetJobs \cup {NotAny}]
    BY DEF CreateAuto, JobEnds, CreateExplicit, deviceVars, chatVars, FleetInv, FleetTypeOK
  <1>2. \E r \in FleetRunners \cup {NotAny} : r \notin withdrawn /\ jobOn' = [jobOn EXCEPT ![j] = r]
    BY FleetAssumption DEF CreateAuto, JobEnds, CreateExplicit, Eligible, Schedulable, FleetInv, FleetTypeOK
  <1>3. QED
    BY <1>1, <1>2, JobMoves

LEMMA StopStep ==
    ASSUME FleetInv, NEW o \in ChatKeys, NEW j \in FleetJobs, AskStop(o, j) \/ ConfirmStop(o, j)
    PROVE  FleetInv'
  <1>1. /\ UNCHANGED <<token, device, revoked, reachable, asked, confirming, withdrawn, revoking>>
        /\ stopAsked' \in [ChatKeys -> FleetJobs \cup {NotAny}]
    BY DEF AskStop, ConfirmStop, deviceVars, FleetInv, FleetTypeOK
  <1>2. CASE UNCHANGED jobOn
    <2>1. FleetTypeOK' /\ \A q \in revoked' : device'[q] # NotAny
      BY <1>1, <1>2 DEF FleetInv, FleetTypeOK
    <2>2. QED
      BY <1>1, <1>2, <2>1, DeviceMoves
  <1>3. CASE jobOn' = [jobOn EXCEPT ![j] = NotAny]
    <2>1. NotAny \notin withdrawn
      BY FleetAssumption DEF FleetInv, FleetTypeOK
    <2>2. QED
      BY <1>1, <1>3, <2>1, JobMoves
  <1>4. QED
    BY <1>2, <1>3 DEF AskStop, ConfirmStop

LEMMA FleetStart == FleetInit => FleetInv
  <1> SUFFICES ASSUME FleetInit PROVE FleetInv
    OBVIOUS
  <1>1. FleetTypeOK
    BY DEF FleetInit, FleetTypeOK
  <1>2. OpenJobs = {} /\ revoked = {} /\ revoking = {} /\ \A o \in ChatKeys : asked[o] = NotAny
    BY DEF FleetInit, OpenJobs
  <1>3. IsFiniteSet(OpenJobs)
    BY <1>2, FS_EmptySet
  <1>4. QED
    BY <1>1, <1>2, <1>3 DEF FleetInv, HeldByOne, OneRevocation, CheckHolds

LEMMA FleetKept == FleetInv /\ [FleetNext]_fleetVars => FleetInv'
  <1> SUFFICES ASSUME FleetInv, [FleetNext]_fleetVars PROVE FleetInv'
    OBVIOUS
  <1>1. ASSUME NEW r \in FleetRunners, NEW o \in ChatKeys,
               RequestRevocation(o, r) \/ ConfirmRevocation(o, r) \/ CheckRevocation(o, r) \/ FinishRevocation(o, r)
        PROVE  FleetInv'
    BY <1>1, RequestStep, ConfirmStep, CheckStep, FinishStep
  <1>2. ASSUME NEW o \in ChatKeys, NEW cancel \in BOOLEAN, OtherMessage(o, cancel) PROVE FleetInv'
    BY <1>2, MessageStep
  <1>3. CASE UNCHANGED fleetVars
    <2>1. /\ UNCHANGED <<token, device, revoked, reachable, jobOn, asked, confirming, withdrawn, revoking, stopAsked>>
      BY <1>3 DEF fleetVars
    <2>2. FleetTypeOK' /\ \A q \in revoked' : device'[q] # NotAny
      BY <2>1 DEF FleetInv, FleetTypeOK
    <2>3. QED
      BY <2>1, <2>2, DeviceMoves
  <1>4. QED
    BY <1>1, <1>2, <1>3, EnrolmentStep, JobStep, StopStep, ExpireStep, RestartFleetStep DEF FleetNext

\* What every step of the fleet keeps, for any number of Runners, jobs and chats
\* (channel-fleet-management.ts, runner-registry.ts).
THEOREM FleetInvariance == FleetSpec => []FleetInv
  BY FleetStart, FleetKept, PTL DEF FleetSpec

\* Between the check and the event nobody can give the Runner a job, so that it is revoked
\* without one; and a device, once enrolled, keeps its key and stays revoked
\* (server.ts l.949-966, runner-registry.ts l.104-133).
THEOREM RevocationsAreSafe == FleetSpec => RevocationIsSafe
  <1> DEFINE Safe == \A r \in FleetRunners :
               /\ r \in revoked' \ revoked => Load(r) = 0
               /\ r \in revoked => r \in revoked'
               /\ device[r] # NotAny => device'[r] = device[r]
  <1>1. FleetInv /\ [FleetNext]_fleetVars => [Safe]_fleetVars
    <2> SUFFICES ASSUME FleetInv, FleetNext PROVE Safe
      OBVIOUS
    <2>1. CASE UNCHANGED <<device, revoked>>
      BY <2>1
    <2>2. ASSUME NEW r \in FleetRunners, RevokeFromWeb(r) PROVE Safe
      BY <2>2 DEF RevokeFromWeb, Revocable
    <2>3. ASSUME NEW r \in FleetRunners, NEW key \in DeviceKeys, ConsumeEnrollment(r, key) PROVE Safe
      <3>1. device[r] = NotAny /\ device' = [device EXCEPT ![r] = key] /\ revoked' = revoked \ {r} /\ r \notin revoked
        BY <2>3 DEF ConsumeEnrollment, TokenUsable, FleetInv
      <3>2. QED
        BY <3>1 DEF FleetInv, FleetTypeOK
    <2>4. ASSUME NEW r \in FleetRunners, NEW o \in ChatKeys, FinishRevocation(o, r) PROVE Safe
      <3>1. Load(r) = 0 /\ device' = device /\ (revoked' = revoked \cup {r} \/ revoked' = revoked)
        BY <2>4, FinishStep DEF FinishRevocation
      <3>2. QED
        BY <3>1
    <2>5. QED
      BY <2>1, <2>2, <2>3, <2>4 DEF FleetNext, IssueEnrollment, TokenExpires, Reachability, CreateAuto,
         CreateExplicit, JobEnds, OtherMessage, RequestRevocation, Expire, ConfirmRevocation,
         CheckRevocation, AskStop, ConfirmStop, RestartFleetHub, deviceVars
  <1>2. QED
    BY <1>1, FleetInvariance, PTL DEF FleetSpec, RevocationIsSafe

-----------------------------------------------------------------------------
(* The turns of the conversation agent.                                    *)

\* The text in hand is of the turn at work, whatever is still read of an earlier worker.
TurnInv ==
    /\ pwTurn \in 0..LastTurn /\ pwText \in {0, pwTurn}
    /\ pwReply \in [1..LastTurn -> Int] /\ AnswersItsTurn

LEMMA SameTurn ==
    ASSUME TurnInv, UNCHANGED pwTurn, pwText' \in {pwText, pwTurn},
           \/ UNCHANGED pwReply
           \/ \E reply \in {Failed, pwTurn} : pwReply' = [pwReply EXCEPT ![pwTurn] = reply]
    PROVE  TurnInv'
  <1>1. Failed \in Int /\ pwTurn \in Int
    BY DEF TurnInv, Failed
  <1>2. pwReply' \in [1..LastTurn -> Int]
    BY <1>1 DEF TurnInv
  <1>3. \A t \in 1..LastTurn : pwReply'[t] = pwReply[t] \/ (t = pwTurn /\ pwReply'[t] \in {Failed, pwTurn})
    BY DEF TurnInv
  <1>4. AnswersItsTurn'
    BY <1>3 DEF TurnInv, AnswersItsTurn, Failed
  <1>5. QED
    BY <1>2, <1>4 DEF TurnInv

LEMMA TurnBeginStep ==
    ASSUME TurnInv, BeginTurn
    PROVE  TurnInv'
  <1>1. pwTurn < LastTurn /\ pwTurn' = pwTurn + 1 /\ pwText' = 0 /\ UNCHANGED pwReply
    BY DEF BeginTurn
  <1>2. pwTurn' \in 0..LastTurn
    BY <1>1, PiWorkerAssumption DEF TurnInv
  <1>3. QED
    BY <1>1, <1>2 DEF TurnInv, AnswersItsTurn, Failed

LEMMA TerminateStep ==
    ASSUME TurnInv, NEW guilty, NEW out, Terminate(guilty, out)
    PROVE  TurnInv'
  <1>1. /\ UNCHANGED <<pwTurn, pwText>>
        /\ UNCHANGED pwReply \/ pwReply' = [pwReply EXCEPT ![pwTurn] = Failed]
    BY DEF Terminate, Fails
  <1>2. QED
    BY <1>1, SameTurn

LEMMA ResponseStep ==
    ASSUME TurnInv, NEW w, NEW message, NEW out, HandleResponse(w, message, out)
    PROVE  TurnInv'
  <1>1. CASE Terminate(w = pwChild, out) \/ Terminate(FALSE, out)
    BY <1>1, TerminateStep
  <1>2. CASE (IF message.ok THEN Accepted ELSE Refused) /\ UNCHANGED <<pwTurn, pwText>>
    <2>1. UNCHANGED pwReply \/ pwReply' = [pwReply EXCEPT ![pwTurn] = Failed]
      BY <1>2 DEF Accepted, Refused, Close, Fails
    <2>2. QED
      BY <1>2, <2>1, SameTurn
  <1>3. CASE UNCHANGED <<pwTurn, pwText, pwReply>>
    BY <1>3, SameTurn
  <1>4. QED
    BY <1>1, <1>2, <1>3 DEF HandleResponse

\* An event of an earlier turn is read and dropped.
LEMMA EventStep ==
    ASSUME TurnInv, NEW message, NEW out, HandleEvent(message, out)
    PROVE  TurnInv'
  <1>1. CASE Close(IF pwText = 0 THEN Failed ELSE pwText) /\ UNCHANGED <<pwTurn, pwText>>
    <2>1. \E reply \in {Failed, pwTurn} : pwReply' = [pwReply EXCEPT ![pwTurn] = reply]
      BY <1>1 DEF Close, TurnInv
    <2>2. QED
      BY <1>1, <2>1, SameTurn
  <1>2. CASE /\ pwText' = IF OfActiveTurn(message) THEN message.turn ELSE pwText
             /\ UNCHANGED <<pwTurn, pwReply>>
    BY <1>2, SameTurn DEF OfActiveTurn
  <1>3. QED
    BY <1>1, <1>2 DEF HandleEvent

\* What every step of a turn keeps, for any number of turns, workers and faults
\* (pi-worker-client.ts).
THEOREM TurnInvariance == PWSpec => []TurnInv
  <1>1. PWInit => TurnInv
    <2> SUFFICES ASSUME PWInit PROVE TurnInv
      OBVIOUS
    <2>1. 0 \in 0..LastTurn
      BY PiWorkerAssumption
    <2>2. QED
      BY <2>1 DEF PWInit, TurnInv, AnswersItsTurn
  <1>2. TurnInv /\ [PWNext]_pwVars => TurnInv'
    <2> SUFFICES ASSUME TurnInv, [PWNext]_pwVars PROVE TurnInv'
      OBVIOUS
    <2>1. CASE Timeout \/ WorkerExits
      BY <2>1, TerminateStep DEF Timeout, WorkerExits
    <2>2. ASSUME NEW w \in Workers, ReadOutput(w) PROVE TurnInv'
      BY <2>2, TerminateStep, ResponseStep, EventStep DEF ReadOutput
    <2>3. ASSUME NEW w \in Workers, Supervise(w) PROVE TurnInv'
      <3>1. UNCHANGED <<pwTurn, pwText, pwReply>>
        BY <2>3 DEF Supervise
      <3>2. QED
        BY <3>1, SameTurn
    <2>4. ASSUME NEW w \in Workers, NEW texts \in BOOLEAN, PiSettles(w, texts) PROVE TurnInv'
      <3>1. UNCHANGED <<pwTurn, pwText, pwReply>>
        BY <2>4 DEF PiSettles
      <3>2. QED
        BY <3>1, SameTurn
    <2>5. CASE UNCHANGED pwVars
      <3>1. UNCHANGED <<pwTurn, pwText, pwReply>>
        BY <2>5 DEF pwVars
      <3>2. QED
        BY <3>1, SameTurn
    <2>6. QED
      BY <2>1, <2>2, <2>3, <2>4, <2>5, TurnBeginStep DEF PWNext
  <1>3. QED
    BY <1>1, <1>2, PTL DEF PWSpec

\* The reply of a turn is text Pi wrote for it, whatever timed out, was killed or is still
\* read from an earlier worker (pi-worker-client.ts).
THEOREM RepliesAreOfTheirTurn == PWSpec => []AnswersItsTurn
  <1>1. TurnInv => AnswersItsTurn
    BY DEF TurnInv
  <1>2. QED
    BY <1>1, TurnInvariance, PTL

-----------------------------------------------------------------------------
(* The way of an improvement to its release.                               *)

Jobs == SourceJobs \union {NoJob}
PatchStates == Settled \union {"none", "DRAFT", "TESTED"}
TailSteps == {"store", "test", "settle", "mark"}

ImprovementTyped ==
    /\ siHub \in {"down", "starting", "up"}
    /\ siJob \in [SourceJobs -> Finished \union {"none", "WAIT_APPROVAL", "RUNNING"}]
    /\ siResult \in [SourceJobs -> {"none", "bad", "minor", "material"}]
    /\ siBinding \in [SourceJobs -> {"none", "PENDING", "PROMOTED", "REJECTED"}]
    /\ siPatch \in [state : PatchStates, source : Jobs, improvement : BOOLEAN, material : BOOLEAN,
                    evidence : Jobs \union {"owner"}, granted : BOOLEAN]
    /\ siReading \in [SourceJobs -> Nat]

\* The row itself: tested before it is settled, material only as an improvement, which is
\* adopted without a grant only when it is not material.
RowEvidenced ==
    /\ siPatch.state \notin {"none", "DRAFT"} => siPatch.evidence # NoJob
    /\ siPatch.material => siPatch.improvement
    /\ siPatch.state = "ADOPTED" => ~siPatch.material
    /\ siPatch.state \in {"CANARY", "DEPLOYED", "ROLLED_BACK"} => (siPatch.material => siPatch.granted)

Succeeded(j) == siJob[j] = "SUCCEEDED" /\ siBinding[j] # "none"
Source(j) == Succeeded(j) /\ siResult[j] # "bad"

\* Where a promotion is after its last await.
Promoting(j, at) ==
    /\ Source(j)
    /\ at # "store" => siPatch.source = j
    /\ at = "test" => siPatch.state = "DRAFT"
    /\ at = "settle" => siPatch.state = "TESTED"
    /\ at = "mark" => siPatch.state \in Settled

ImprovementInv ==
    /\ ImprovementTyped /\ RowEvidenced
    /\ siPatch.source \in SourceJobs => Source(siPatch.source)
    /\ \A j \in SourceJobs : siReading[j] > 0 => Succeeded(j)
    /\ \A j \in SourceJobs, at \in TailSteps : siTail = <<j, at>> => Promoting(j, at)
    /\ siHub = "down" => siTail = NoTail
    /\ \A j \in SourceJobs : siBinding[j] = "PROMOTED" => siPatch.source = j /\ siPatch.state \in Settled

LEMMA NoTailIsNoJob == \A j \in SourceJobs, at \in TailSteps : <<j, at>> # NoTail
  BY SelfImprovementAssumption DEF NoTail

(***************************************************************************)
(* The jobs go on, are bound and observed: what succeeded stays, and       *)
(* nothing is promoted.                                                    *)
(***************************************************************************)
LEMMA JobsGoOn ==
    ASSUME ImprovementInv, ImprovementTyped', UNCHANGED siPatch, siTail' = NoTail,
           \A j \in SourceJobs :
             /\ siJob[j] = "SUCCEEDED" => siJob'[j] = "SUCCEEDED" /\ siResult'[j] = siResult[j]
             /\ siBinding[j] # "none" => siBinding'[j] # "none"
             /\ siBinding'[j] = "PROMOTED" => siBinding[j] = "PROMOTED"
             /\ siReading'[j] > 0 => siReading[j] > 0 \/ (siJob'[j] = "SUCCEEDED" /\ siBinding'[j] # "none")
    PROVE  ImprovementInv'
  <1>1. \A j \in SourceJobs : (Succeeded(j) => Succeeded(j)') /\ (Source(j) => Source(j)')
    BY DEF Succeeded, Source
  <1>2. RowEvidenced'
    BY DEF ImprovementInv, RowEvidenced
  <1>3. siPatch'.source \in SourceJobs => siJob'[siPatch'.source] = "SUCCEEDED" /\ siBinding'[siPatch'.source] # "none" /\ siResult'[siPatch'.source] # "bad"
    BY DEF ImprovementInv, Source, Succeeded
  <1>4. \A j \in SourceJobs : siReading'[j] > 0 => Succeeded(j)'
    BY <1>1 DEF ImprovementInv, Succeeded
  <1>5. \A j \in SourceJobs, at \in TailSteps : siTail' # <<j, at>>
    BY NoTailIsNoJob
  <1>6. \A j \in SourceJobs : siBinding'[j] = "PROMOTED" => siPatch'.source = j /\ siPatch'.state \in Settled
    BY DEF ImprovementInv
  <1>7. QED
    BY <1>2, <1>3, <1>4, <1>5, <1>6 DEF ImprovementInv, Source, Succeeded

\* The row changes while no promotion is past its await: it keeps its source, and is settled
\* when it was.
LEMMA RowMoves ==
    ASSUME ImprovementInv, ImprovementTyped', RowEvidenced',
           UNCHANGED <<siJob, siResult, siBinding, siReading>>, siTail = NoTail, siTail' = NoTail,
           siPatch'.source \in {siPatch.source, NoJob}, siPatch.source # NoJob => siPatch'.source = siPatch.source,
           siPatch.state \in Settled => siPatch'.state \in Settled
    PROVE  ImprovementInv'
  <1>1. \A j \in SourceJobs : (Succeeded(j)' <=> Succeeded(j)) /\ (Source(j)' <=> Source(j))
    BY DEF Succeeded, Source
  <1>2. siPatch'.source \in SourceJobs => siJob'[siPatch'.source] = "SUCCEEDED" /\ siBinding'[siPatch'.source] # "none" /\ siResult'[siPatch'.source] # "bad"
    BY SelfImprovementAssumption DEF ImprovementInv, Source, Succeeded
  <1>3. \A j \in SourceJobs : siReading'[j] > 0 => Succeeded(j)'
    BY <1>1 DEF ImprovementInv
  <1>4. \A j \in SourceJobs, at \in TailSteps : siTail' # <<j, at>>
    BY NoTailIsNoJob
  <1>5. \A j \in SourceJobs : siBinding'[j] = "PROMOTED" => siPatch'.source = j /\ siPatch'.state \in Settled
    BY SelfImprovementAssumption DEF ImprovementInv
  <1>6. QED
    BY <1>2, <1>3, <1>4, <1>5 DEF ImprovementInv, Source, Succeeded

LEMMA EndsOrGoesOn ==
    ASSUME ImprovementInv, HubEnds \/ HubGoesOn
    PROVE  /\ siHub' \in {"down", "starting", "up"} /\ siReading' \in [SourceJobs -> Nat]
           /\ \A j \in SourceJobs : siReading'[j] > 0 => siReading[j] > 0
           /\ siTail = NoTail => siTail' = NoTail
  BY DEF HubEnds, HubGoesOn, ImprovementInv, ImprovementTyped

LEMMA RequestJobStep ==
    ASSUME ImprovementInv, NEW j \in SourceJobs, NEW cut \in {"none", "created", "bound"}, Request(j, cut)
    PROVE  ImprovementInv'
  <1> DEFINE status == IF siJob[j] = "none" THEN "WAIT_APPROVAL" ELSE siJob[j]
  <1>1. /\ siTail = NoTail /\ UNCHANGED <<siResult, siPatch>> /\ (HubEnds \/ HubGoesOn)
        /\ \E s \in {status, AfterApprove(status)} : siJob' = [siJob EXCEPT ![j] = s]
        /\ \/ UNCHANGED siBinding
           \/ siBinding' = [siBinding EXCEPT ![j] = IF siBinding[j] = "none" THEN "PENDING" ELSE siBinding[j]]
    BY DEF Request, Quiet, ImprovementInv, ImprovementTyped
  <1>2. \A s \in {status, AfterApprove(status)} :
          /\ s \in Finished \union {"none", "WAIT_APPROVAL", "RUNNING"}
          /\ siJob[j] = "SUCCEEDED" => s = "SUCCEEDED"
    BY DEF AfterApprove, ImprovementInv, ImprovementTyped, Finished
  <1> HIDE DEF status
  <1>3. /\ siHub' \in {"down", "starting", "up"} /\ siReading' \in [SourceJobs -> Nat] /\ siTail' = NoTail
        /\ \A k \in SourceJobs : siReading'[k] > 0 => siReading[k] > 0
    BY <1>1, EndsOrGoesOn
  <1>4. ImprovementTyped'
    <2>1. siJob' \in [SourceJobs -> Finished \union {"none", "WAIT_APPROVAL", "RUNNING"}]
      BY <1>1, <1>2 DEF ImprovementInv, ImprovementTyped
    <2>2. siBinding' \in [SourceJobs -> {"none", "PENDING", "PROMOTED", "REJECTED"}]
      BY <1>1 DEF ImprovementInv, ImprovementTyped
    <2>3. QED
      BY <1>1, <1>3, <2>1, <2>2 DEF ImprovementInv, ImprovementTyped
  <1>5. \A k \in SourceJobs :
          /\ siJob[k] = "SUCCEEDED" => siJob'[k] = "SUCCEEDED"
          /\ siBinding[k] # "none" => siBinding'[k] # "none"
          /\ siBinding'[k] = "PROMOTED" => siBinding[k] = "PROMOTED"
    BY <1>1, <1>2 DEF ImprovementInv, ImprovementTyped
  <1>6. QED
    BY <1>1, <1>3, <1>4, <1>5, JobsGoOn

LEMMA OwnerJobStep ==
    ASSUME ImprovementInv, NEW j \in SourceJobs, ApproveSource(j) \/ StopSource(j)
    PROVE  ImprovementInv'
  <1>1. /\ siTail = NoTail /\ UNCHANGED <<siResult, siPatch, siBinding>> /\ (HubEnds \/ HubGoesOn)
        /\ siJob[j] # "SUCCEEDED" /\ \E s \in {"RUNNING", "CANCELLED"} : siJob' = [siJob EXCEPT ![j] = s]
    BY DEF ApproveSource, StopSource, Quiet
  <1>2. /\ siHub' \in {"down", "starting", "up"} /\ siReading' \in [SourceJobs -> Nat] /\ siTail' = NoTail
        /\ \A k \in SourceJobs : siReading'[k] > 0 => siReading[k] > 0
    BY <1>1, EndsOrGoesOn
  <1>3. ImprovementTyped'
    <2>1. {"RUNNING", "CANCELLED"} \subseteq Finished \union {"none", "WAIT_APPROVAL", "RUNNING"}
      BY DEF Finished
    <2>2. siJob' \in [SourceJobs -> Finished \union {"none", "WAIT_APPROVAL", "RUNNING"}]
      BY <1>1, <2>1 DEF ImprovementInv, ImprovementTyped
    <2>3. QED
      BY <1>1, <1>2, <2>2 DEF ImprovementInv, ImprovementTyped
  <1>4. \A k \in SourceJobs : siJob[k] = "SUCCEEDED" => siJob'[k] = "SUCCEEDED"
    BY <1>1 DEF ImprovementInv, ImprovementTyped
  <1>5. QED
    BY <1>1, <1>2, <1>3, <1>4, JobsGoOn

\* A binding that is observed is rejected at most.
LEMMA Observed ==
    ASSUME ImprovementInv, NEW j \in SourceJobs, NEW status, Observation(j, status)
    PROVE  /\ siBinding' \in [SourceJobs -> {"none", "PENDING", "PROMOTED", "REJECTED"}]
           /\ siReading' \in [SourceJobs -> Nat]
           /\ \A k \in SourceJobs :
                /\ siBinding[k] # "none" => siBinding'[k] # "none"
                /\ siBinding'[k] = "PROMOTED" => siBinding[k] = "PROMOTED"
                /\ siReading'[k] > 0 => siReading[k] > 0 \/ (k = j /\ status = "SUCCEEDED" /\ siBinding'[k] # "none")
  <1>1. CASE /\ siBinding[j] = "PENDING" /\ status = "SUCCEEDED"
             /\ siReading' = [siReading EXCEPT ![j] = siReading[j] + 1] /\ UNCHANGED siBinding
    <2>1. siReading[j] + 1 \in Nat
      BY DEF ImprovementInv, ImprovementTyped
    <2>2. QED
      BY <1>1, <2>1 DEF ImprovementInv, ImprovementTyped
  <1>2. CASE UNCHANGED siReading /\ (UNCHANGED siBinding \/ Reject(j))
    BY <1>2 DEF Reject, ImprovementInv, ImprovementTyped
  <1>3. QED
    BY <1>1, <1>2 DEF Observation, ImprovementInv, ImprovementTyped

LEMMA ReportStep ==
    ASSUME ImprovementInv, NEW j \in SourceJobs, NEW cut \in BOOLEAN, NEW status \in {"FAILED", "SUCCEEDED"},
           NEW result \in {"none", "bad", "minor", "material"}, Report(j, status, result, cut)
    PROVE  ImprovementInv'
  <1>1. /\ siTail = NoTail /\ siHub = "up" /\ UNCHANGED siPatch
        /\ siJob[j] = "RUNNING" \/ (siJob[j] = status /\ siResult[j] = result)
        /\ siJob' = [siJob EXCEPT ![j] = status] /\ siResult' = [siResult EXCEPT ![j] = result]
        /\ \/ HubEnds /\ UNCHANGED siBinding
           \/ Observation(j, status) /\ UNCHANGED <<siHub, siTail>>
    BY DEF Report, Quiet
  <1>2. /\ siHub' \in {"down", "starting", "up"} /\ siTail' = NoTail
        /\ siBinding' \in [SourceJobs -> {"none", "PENDING", "PROMOTED", "REJECTED"}]
        /\ siReading' \in [SourceJobs -> Nat]
        /\ \A k \in SourceJobs :
             /\ siBinding[k] # "none" => siBinding'[k] # "none"
             /\ siBinding'[k] = "PROMOTED" => siBinding[k] = "PROMOTED"
             /\ siReading'[k] > 0 => siReading[k] > 0 \/ (k = j /\ status = "SUCCEEDED" /\ siBinding'[k] # "none")
    <2>1. CASE HubEnds /\ UNCHANGED siBinding
      <3>1. /\ siHub' \in {"down", "starting", "up"} /\ siReading' \in [SourceJobs -> Nat] /\ siTail' = NoTail
            /\ \A k \in SourceJobs : siReading'[k] > 0 => siReading[k] > 0
        BY <1>1, <2>1, EndsOrGoesOn
      <3>2. QED
        BY <2>1, <3>1 DEF ImprovementInv, ImprovementTyped
    <2>2. CASE Observation(j, status) /\ UNCHANGED <<siHub, siTail>>
      BY <1>1, <2>2, Observed
    <2>3. QED
      BY <1>1, <2>1, <2>2
  <1>3. \A k \in SourceJobs : siJob[k] = "SUCCEEDED" => siJob'[k] = "SUCCEEDED" /\ siResult'[k] = siResult[k]
    BY <1>1 DEF ImprovementInv, ImprovementTyped
  <1>4. siJob'[j] = status
    BY <1>1 DEF ImprovementInv, ImprovementTyped
  <1>5. ImprovementTyped'
    BY <1>1, <1>2 DEF ImprovementInv, ImprovementTyped, Finished
  <1>6. \A k \in SourceJobs :
          siReading'[k] > 0 => siReading[k] > 0 \/ (siJob'[k] = "SUCCEEDED" /\ siBinding'[k] # "none")
    BY <1>2, <1>4
  <1>7. QED
    BY <1>1, <1>2, <1>3, <1>5, <1>6, JobsGoOn

LEMMA ReconcileStep ==
    ASSUME ImprovementInv, NEW j \in SourceJobs, Reconcile(j)
    PROVE  ImprovementInv'
  <1>1. siTail = NoTail /\ Observation(j, siJob[j]) /\ UNCHANGED <<siHub, siJob, siResult, siPatch, siTail>>
    BY DEF Reconcile, Between
  <1>2. /\ siBinding' \in [SourceJobs -> {"none", "PENDING", "PROMOTED", "REJECTED"}]
        /\ siReading' \in [SourceJobs -> Nat]
        /\ \A k \in SourceJobs :
             /\ siBinding[k] # "none" => siBinding'[k] # "none"
             /\ siBinding'[k] = "PROMOTED" => siBinding[k] = "PROMOTED"
             /\ siReading'[k] > 0 => siReading[k] > 0 \/ (k = j /\ siJob[j] = "SUCCEEDED" /\ siBinding'[k] # "none")
    BY <1>1, Observed
  <1>3. ImprovementTyped'
    BY <1>1, <1>2 DEF ImprovementInv, ImprovementTyped
  <1>4. QED
    BY <1>1, <1>2, <1>3, JobsGoOn

\* The last await of a promotion is over.
LEMMA ArtifactsStep ==
    ASSUME ImprovementInv, NEW j \in SourceJobs, ReadArtifacts(j)
    PROVE  ImprovementInv'
  <1>1. /\ siHub # "down" /\ siTail = NoTail /\ siReading[j] > 0
        /\ siReading' = [siReading EXCEPT ![j] = siReading[j] - 1]
        /\ UNCHANGED <<siHub, siJob, siResult, siPatch>>
    BY DEF ReadArtifacts, ImprovementInv, ImprovementTyped
  <1>2. siReading[j] - 1 \in Nat
    BY <1>1 DEF ImprovementInv, ImprovementTyped
  <1>3. siReading' \in [SourceJobs -> Nat] /\ \A k \in SourceJobs : siReading'[k] > 0 => siReading[k] > 0
    BY <1>1, <1>2 DEF ImprovementInv, ImprovementTyped
  <1>4. CASE Reject(j) /\ UNCHANGED siTail
    <2>1. /\ siBinding' \in [SourceJobs -> {"none", "PENDING", "PROMOTED", "REJECTED"}]
          /\ \A k \in SourceJobs :
               /\ siBinding[k] # "none" => siBinding'[k] # "none"
               /\ siBinding'[k] = "PROMOTED" => siBinding[k] = "PROMOTED"
      BY <1>4 DEF Reject, ImprovementInv, ImprovementTyped
    <2>2. ImprovementTyped'
      BY <1>1, <1>3, <2>1 DEF ImprovementInv, ImprovementTyped
    <2>3. QED
      BY <1>1, <1>3, <1>4, <2>1, <2>2, JobsGoOn
  <1>5. CASE Evidenced(j) /\ siTail' = <<j, "store">> /\ UNCHANGED siBinding
    <2>1. \A k \in SourceJobs : (Succeeded(k)' <=> Succeeded(k)) /\ (Source(k)' <=> Source(k))
      BY <1>1, <1>5 DEF Succeeded, Source
    <2>2. Source(j)
      BY <1>1, <1>5 DEF ImprovementInv, Source, Evidenced
    <2>3. \A k \in SourceJobs, at \in TailSteps : siTail' = <<k, at>> => Promoting(k, at)'
      BY <1>1, <1>5, <2>1, <2>2 DEF Promoting
    <2>4. ImprovementTyped' /\ RowEvidenced'
      BY <1>1, <1>3, <1>5 DEF ImprovementInv, ImprovementTyped, RowEvidenced
    <2>5. siPatch'.source \in SourceJobs => Source(siPatch.source)'
      BY <1>1, <1>5 DEF ImprovementInv, Source, Succeeded
    <2>6. QED
      BY <1>1, <1>3, <1>5, <2>1, <2>3, <2>4, <2>5 DEF ImprovementInv
  <1>6. QED
    BY <1>4, <1>5 DEF ReadArtifacts

\* The commits of a promotion, which nobody comes between.
LEMMA StoreStep ==
    ASSUME ImprovementInv, NEW j \in SourceJobs, StoreImprovement(j)
    PROVE  ImprovementInv'
  <1> DEFINE row == IF siPatch = NoPatch THEN Drafted(j) ELSE siPatch
  <1>1. /\ siTail = <<j, "store">> /\ siPatch' = row /\ UNCHANGED <<siHub, siJob, siResult, siReading>>
        /\ IF row.source = j /\ row.state \in Settled \union {"DRAFT"}
           THEN siTail' = <<j, IF row.state = "DRAFT" THEN "test" ELSE "mark">> /\ UNCHANGED siBinding
           ELSE siTail' = NoTail /\ Reject(j)
    BY DEF StoreImprovement
  <1>2. Source(j)
    BY <1>1 DEF ImprovementInv, Promoting, TailSteps
  <1>3. /\ Drafted(j) \in [state : PatchStates, source : Jobs, improvement : BOOLEAN, material : BOOLEAN,
                            evidence : Jobs \union {"owner"}, granted : BOOLEAN]
        /\ Drafted(j).state = "DRAFT" /\ Drafted(j).source = j /\ Drafted(j).improvement
    <2>1. (siResult[j] = "material") \in BOOLEAN
      OBVIOUS
    <2>2. NoPatch \in [state : PatchStates, source : Jobs, improvement : BOOLEAN, material : BOOLEAN,
                        evidence : Jobs \union {"owner"}, granted : BOOLEAN]
      BY DEF NoPatch, PatchStates, Jobs
    <2>3. j \in Jobs /\ "DRAFT" \in PatchStates
      BY DEF Jobs, PatchStates
    <2>4. QED
      BY <2>1, <2>2, <2>3 DEF Drafted
  <1>4. siPatch = NoPatch => siPatch.source = NoJob /\ siPatch.state = "none"
    BY DEF NoPatch
  <1>5. /\ row \in [state : PatchStates, source : Jobs, improvement : BOOLEAN, material : BOOLEAN,
                    evidence : Jobs \union {"owner"}, granted : BOOLEAN]
        /\ row.source \in {siPatch.source, j} /\ (siPatch.source \in SourceJobs => row.source = siPatch.source)
        /\ siPatch.state \in Settled => row.state = siPatch.state
    <2>1. CASE siPatch # NoPatch
      BY <2>1 DEF ImprovementInv, ImprovementTyped
    <2>2. CASE siPatch = NoPatch
      <3>1. "none" \notin Settled /\ NoJob \notin SourceJobs
        BY SelfImprovementAssumption DEF Settled
      <3>2. QED
        BY <1>3, <1>4, <2>2, <3>1
    <2>3. QED
      BY <2>1, <2>2
  <1>6. RowEvidenced'
    <2>1. CASE siPatch # NoPatch
      BY <1>1, <2>1 DEF ImprovementInv, RowEvidenced
    <2>2. CASE siPatch = NoPatch
      BY <1>1, <1>3, <2>2 DEF RowEvidenced
    <2>3. QED
      BY <2>1, <2>2
  <1> HIDE DEF row
  <1>7. /\ siBinding' \in [SourceJobs -> {"none", "PENDING", "PROMOTED", "REJECTED"}]
        /\ \A k \in SourceJobs :
             /\ siBinding[k] # "none" => siBinding'[k] # "none"
             /\ siBinding'[k] = "PROMOTED" => siBinding[k] = "PROMOTED"
    BY <1>1 DEF Reject, ImprovementInv, ImprovementTyped
  <1>8. \A k \in SourceJobs : (Succeeded(k) => Succeeded(k)') /\ (Source(k) => Source(k)')
    BY <1>1, <1>7 DEF Succeeded, Source
  <1>9. ImprovementTyped'
    BY <1>1, <1>5, <1>7 DEF ImprovementInv, ImprovementTyped
  <1>10. siPatch'.source \in SourceJobs => siJob'[siPatch'.source] = "SUCCEEDED" /\ siBinding'[siPatch'.source] # "none" /\ siResult'[siPatch'.source] # "bad"
    <2>1. siPatch'.source \in SourceJobs => Source(siPatch'.source)
      BY <1>1, <1>2, <1>5 DEF ImprovementInv
    <2>2. QED
      BY <1>8, <2>1 DEF Source, Succeeded
  <1>11. \A k \in SourceJobs : siReading'[k] > 0 => Succeeded(k)'
    BY <1>1, <1>8 DEF ImprovementInv
  <1>12. \A k \in SourceJobs, at \in TailSteps : siTail' = <<k, at>> => Promoting(k, at)'
    <2>1. CASE siTail' = NoTail
      BY <2>1, NoTailIsNoJob
    <2>2. CASE row.source = j /\ row.state \in Settled \union {"DRAFT"} /\ siTail' = <<j, IF row.state = "DRAFT" THEN "test" ELSE "mark">>
      BY <1>1, <1>2, <1>8, <2>2 DEF Promoting
    <2>3. QED
      BY <1>1, <2>1, <2>2
  <1>13. \A k \in SourceJobs : siBinding'[k] = "PROMOTED" => siPatch'.source = k /\ siPatch'.state \in Settled
    BY <1>1, <1>5, <1>7 DEF ImprovementInv
  <1>14. siHub' = "down" => siTail' = NoTail
    BY <1>1, NoTailIsNoJob DEF ImprovementInv, TailSteps
  <1>15. QED
    BY <1>6, <1>9, <1>10, <1>11, <1>12, <1>13, <1>14 DEF ImprovementInv, Source, Succeeded

LEMMA TestStep ==
    ASSUME ImprovementInv, NEW j \in SourceJobs, CompleteTest(j)
    PROVE  ImprovementInv'
  <1>1. UNCHANGED <<siHub, siJob, siResult, siBinding, siReading>>
    BY DEF CompleteTest
  <1>2. siTail \in {<<j, "test">>, <<j, "settle">>}
    BY DEF CompleteTest
  <1>3. Source(j) /\ siPatch.source = j /\ siHub # "down"
    BY <1>2, NoTailIsNoJob DEF ImprovementInv, Promoting, TailSteps
  <1>4. /\ siPatch'.source = siPatch.source /\ siPatch'.improvement = siPatch.improvement
        /\ siPatch'.material = siPatch.material /\ siPatch'.granted = siPatch.granted
        /\ siPatch' \in [state : PatchStates, source : Jobs, improvement : BOOLEAN, material : BOOLEAN,
                         evidence : Jobs \union {"owner"}, granted : BOOLEAN]
    <2>1. /\ "TESTED" \in PatchStates /\ SettledState(siPatch) \in PatchStates /\ j \in Jobs \union {"owner"}
          /\ siPatch \in [state : PatchStates, source : Jobs, improvement : BOOLEAN, material : BOOLEAN,
                           evidence : Jobs \union {"owner"}, granted : BOOLEAN]
      BY DEF SettledState, Settled, PatchStates, Jobs, ImprovementInv, ImprovementTyped
    <2>2. \/ siPatch' = [siPatch EXCEPT !.state = "TESTED", !.evidence = j]
          \/ siPatch' = [siPatch EXCEPT !.state = SettledState(siPatch)]
      BY DEF CompleteTest
    <2> HIDE DEF SettledState, PatchStates, Jobs, ImprovementInv
    <2>3. QED
      BY <2>1, <2>2
  \* Tested with the evidence of the job, then settled by what it may change.
  <1>5. /\ RowEvidenced'
        /\ \E at \in {"settle", "mark"} :
             /\ siTail' = <<j, at>> /\ (at = "settle" => siPatch'.state = "TESTED")
             /\ at = "mark" => siPatch'.state \in Settled
        /\ siPatch.state \in Settled => siPatch'.state \in Settled
    <2>1. CASE siTail = <<j, "test">> /\ siTail' = <<j, "settle">> /\ siPatch' = [siPatch EXCEPT !.state = "TESTED", !.evidence = j]
      <3>1. siPatch'.state = "TESTED" /\ siPatch'.evidence = j /\ j # NoJob
        BY <2>1, SelfImprovementAssumption DEF ImprovementInv, ImprovementTyped
      <3>2. RowEvidenced'
        BY <1>4, <3>1 DEF ImprovementInv, RowEvidenced
      <3>3. siPatch.state \notin Settled
        BY <2>1 DEF ImprovementInv, Promoting, TailSteps, Settled
      <3>4. QED
        BY <2>1, <3>1, <3>2, <3>3
    <2>2. CASE siTail = <<j, "settle">> /\ siTail' = <<j, "mark">> /\ siPatch' = [siPatch EXCEPT !.state = SettledState(siPatch)]
      <3>1. /\ siPatch'.state = (IF siPatch.material THEN "WAIT_APPROVAL" ELSE "ADOPTED")
            /\ siPatch'.evidence = siPatch.evidence
        BY <2>2 DEF SettledState, ImprovementInv, ImprovementTyped
      <3>2. siPatch.state = "TESTED"
        BY <2>2 DEF ImprovementInv, Promoting, TailSteps
      <3>3. RowEvidenced'
        BY <1>4, <3>1, <3>2 DEF ImprovementInv, RowEvidenced
      <3>4. siPatch'.state \in Settled
        BY <3>1 DEF Settled
      <3>5. QED
        BY <2>2, <3>3, <3>4
    <2>3. QED
      BY <2>1, <2>2 DEF CompleteTest
  <1>6. \A k \in SourceJobs : (Succeeded(k)' <=> Succeeded(k)) /\ (Source(k)' <=> Source(k))
    BY <1>1 DEF Succeeded, Source
  <1>7. ImprovementTyped'
    BY <1>1, <1>4 DEF ImprovementInv, ImprovementTyped
  <1>8. siPatch'.source \in SourceJobs => siJob'[siPatch'.source] = "SUCCEEDED" /\ siBinding'[siPatch'.source] # "none" /\ siResult'[siPatch'.source] # "bad"
    BY <1>1, <1>3, <1>4 DEF Source, Succeeded
  <1>9. \A k \in SourceJobs, at \in TailSteps : siTail' = <<k, at>> => Promoting(k, at)'
    BY <1>3, <1>4, <1>5, <1>6 DEF Promoting
  <1>10. \A k \in SourceJobs : siBinding'[k] = "PROMOTED" => siPatch'.source = k /\ siPatch'.state \in Settled
    BY <1>1, <1>4, <1>5 DEF ImprovementInv
  <1>11. (\A k \in SourceJobs : siReading'[k] > 0 => Succeeded(k)') /\ siHub' # "down"
    BY <1>1, <1>3, <1>6 DEF ImprovementInv
  <1>12. QED
    BY <1>5, <1>7, <1>8, <1>9, <1>10, <1>11 DEF ImprovementInv, Source, Succeeded

LEMMA MarkStep ==
    ASSUME ImprovementInv, NEW j \in SourceJobs, MarkPromoted(j)
    PROVE  ImprovementInv'
  <1>1. /\ siTail = <<j, "mark">> /\ siTail' = NoTail
        /\ siBinding' = [siBinding EXCEPT ![j] = IF siBinding[j] = "PENDING" THEN "PROMOTED" ELSE siBinding[j]]
        /\ UNCHANGED <<siHub, siJob, siResult, siPatch, siReading>>
    BY DEF MarkPromoted, ImprovementInv, ImprovementTyped
  <1>2. siPatch.source = j /\ siPatch.state \in Settled
    BY <1>1 DEF ImprovementInv, Promoting, TailSteps
  <1>3. /\ siBinding' \in [SourceJobs -> {"none", "PENDING", "PROMOTED", "REJECTED"}]
        /\ \A k \in SourceJobs : siBinding[k] # "none" => siBinding'[k] # "none"
        /\ \A k \in SourceJobs : siBinding'[k] = "PROMOTED" => siBinding[k] = "PROMOTED" \/ k = j
    BY <1>1 DEF ImprovementInv, ImprovementTyped
  <1>4. \A k \in SourceJobs : (Succeeded(k) => Succeeded(k)') /\ (Source(k) => Source(k)')
    BY <1>1, <1>3 DEF Succeeded, Source
  <1>5. ImprovementTyped' /\ RowEvidenced'
    BY <1>1, <1>3 DEF ImprovementInv, ImprovementTyped, RowEvidenced
  <1>6. siPatch'.source \in SourceJobs => siJob'[siPatch'.source] = "SUCCEEDED" /\ siBinding'[siPatch'.source] # "none" /\ siResult'[siPatch'.source] # "bad"
    BY <1>1, <1>3 DEF ImprovementInv, Source, Succeeded
  <1>7. \A k \in SourceJobs : siReading'[k] > 0 => Succeeded(k)'
    BY <1>1, <1>4 DEF ImprovementInv
  <1>8. \A k \in SourceJobs, at \in TailSteps : siTail' # <<k, at>>
    BY <1>1, NoTailIsNoJob
  <1>9. \A k \in SourceJobs : siBinding'[k] = "PROMOTED" => siPatch'.source = k /\ siPatch'.state \in Settled
    BY <1>1, <1>2, <1>3 DEF ImprovementInv
  <1>10. QED
    BY <1>1, <1>5, <1>6, <1>7, <1>8, <1>9 DEF ImprovementInv, Source, Succeeded

\* The Owner's requests reach the row only between two promotions.
LEMMA OwnerPatchStep ==
    ASSUME ImprovementInv, OwnerPatch
    PROVE  ImprovementInv'
  <1>1. /\ siTail = NoTail /\ siTail' = NoTail
        /\ UNCHANGED <<siHub, siJob, siResult, siBinding, siReading>>
    BY DEF OwnerPatch, Quiet, HubGoesOn
  <1>2. siPatch \in [state : PatchStates, source : Jobs, improvement : BOOLEAN, material : BOOLEAN,
                     evidence : Jobs \union {"owner"}, granted : BOOLEAN] /\ RowEvidenced
    BY DEF ImprovementInv, ImprovementTyped
  <1> SUFFICES /\ siPatch' \in [state : PatchStates, source : Jobs, improvement : BOOLEAN, material : BOOLEAN,
                               evidence : Jobs \union {"owner"}, granted : BOOLEAN]
               /\ RowEvidenced'
               /\ siPatch'.source \in {siPatch.source, NoJob} /\ (siPatch.source # NoJob => siPatch'.source = siPatch.source)
               /\ siPatch.state \in Settled => siPatch'.state \in Settled
    <2>1. ImprovementTyped' <=> siPatch' \in [state : PatchStates, source : Jobs, improvement : BOOLEAN, material : BOOLEAN,
                                              evidence : Jobs \union {"owner"}, granted : BOOLEAN]
      BY <1>1 DEF ImprovementInv, ImprovementTyped
    <2>2. QED
      BY <1>1, <2>1, RowMoves
  <1>3. "owner" # NoJob
    BY SelfImprovementAssumption
  <1>4. ASSUME NEW improvement \in BOOLEAN, NEW material \in BOOLEAN, OwnerCreates(improvement, material)
        PROVE  /\ siPatch' \in [state : PatchStates, source : Jobs, improvement : BOOLEAN, material : BOOLEAN,
                               evidence : Jobs \union {"owner"}, granted : BOOLEAN]
               /\ siPatch'.state = "DRAFT" /\ siPatch'.source = NoJob /\ siPatch = NoPatch
               /\ siPatch'.material => siPatch'.improvement
    <2>1. (improvement /\ material) \in BOOLEAN
      OBVIOUS
    <2>2. NoPatch \in [state : PatchStates, source : Jobs, improvement : BOOLEAN, material : BOOLEAN,
                       evidence : Jobs \union {"owner"}, granted : BOOLEAN] /\ NoPatch.source = NoJob
      BY DEF NoPatch, PatchStates, Jobs
    <2>3. "DRAFT" \in PatchStates
      BY DEF PatchStates
    <2>4. siPatch = NoPatch /\ siPatch' = [NoPatch EXCEPT !.state = "DRAFT", !.improvement = improvement,
                                                          !.material = improvement /\ material]
      BY <1>4 DEF OwnerCreates
    <2>5. siPatch' \in [state : PatchStates, source : Jobs, improvement : BOOLEAN, material : BOOLEAN,
                        evidence : Jobs \union {"owner"}, granted : BOOLEAN]
      BY <2>1, <2>2, <2>3, <2>4
    <2>6. siPatch'.state = "DRAFT" /\ siPatch'.source = NoJob
      BY <2>2, <2>4
    <2>7. siPatch'.material => siPatch'.improvement
      BY <2>2, <2>4
    <2>8. QED
      BY <2>4, <2>5, <2>6, <2>7
  <1>5. CASE \E improvement, material \in BOOLEAN : OwnerCreates(improvement, material)
    <2>1. NoPatch.state = "none" /\ NoPatch.source = NoJob /\ "none" \notin Settled
      BY DEF NoPatch, Settled
    <2>2. QED
      BY <1>4, <1>5, <2>1 DEF RowEvidenced
  <1>6. ASSUME NEW state \in Settled \union {"TESTED"}, NEW evidence \in {siPatch.evidence, "owner"},
               NEW granted \in {siPatch.granted, TRUE},
               siPatch' = [siPatch EXCEPT !.state = state, !.evidence = evidence, !.granted = granted],
               siPatch.state # "none", siPatch.state = "DRAFT" => evidence = "owner",
               siPatch.state \in Settled => state \in Settled,
               state = "ADOPTED" => ~siPatch.material,
               state \in {"CANARY", "DEPLOYED", "ROLLED_BACK"} => (siPatch.material => granted)
        PROVE  /\ siPatch' \in [state : PatchStates, source : Jobs, improvement : BOOLEAN, material : BOOLEAN,
                               evidence : Jobs \union {"owner"}, granted : BOOLEAN]
               /\ RowEvidenced'
               /\ siPatch'.source = siPatch.source
               /\ siPatch.state \in Settled => siPatch'.state \in Settled
    <2>1. state \in PatchStates /\ evidence \in Jobs \union {"owner"} /\ granted \in BOOLEAN
      BY <1>2 DEF PatchStates
    <2>2. siPatch' \in [state : PatchStates, source : Jobs, improvement : BOOLEAN, material : BOOLEAN,
                        evidence : Jobs \union {"owner"}, granted : BOOLEAN]
      BY <1>2, <1>6, <2>1
    <2>3. /\ siPatch'.state = state /\ siPatch'.evidence = evidence /\ siPatch'.granted = granted
          /\ siPatch'.source = siPatch.source /\ siPatch'.material = siPatch.material
          /\ siPatch'.improvement = siPatch.improvement
      BY <1>2, <1>6
    <2>4. evidence # NoJob
      BY <1>2, <1>3, <1>6 DEF RowEvidenced
    <2>5. RowEvidenced'
      BY <1>2, <1>6, <2>3, <2>4 DEF RowEvidenced
    <2>6. QED
      BY <1>6, <2>2, <2>3, <2>5
  <1>7. \A state : [siPatch EXCEPT !.state = state] =
                     [siPatch EXCEPT !.state = state, !.evidence = siPatch.evidence, !.granted = siPatch.granted]
    BY <1>2
  <1>8. CASE OwnerTests
    <2>1. PICK state, evidence :
             /\ siPatch' = [siPatch EXCEPT !.state = state, !.evidence = evidence, !.granted = siPatch.granted]
             /\ state \in {"TESTED", "WAIT_APPROVAL", "ADOPTED"} /\ (state = "ADOPTED" => ~siPatch.material)
             /\ evidence \in {siPatch.evidence, "owner"} /\ siPatch.state \in {"DRAFT", "TESTED"}
             /\ siPatch.state = "DRAFT" => evidence = "owner"
      <3>1. CASE siPatch.state = "DRAFT"
        <4>1. PICK state \in Tested(siPatch) : siPatch' = [siPatch EXCEPT !.state = state, !.evidence = "owner"]
          BY <1>8, <3>1 DEF OwnerTests
        <4>2. state \in {"TESTED", "WAIT_APPROVAL", "ADOPTED"} /\ (state = "ADOPTED" => ~siPatch.material)
          BY <4>1 DEF Tested, SettledState
        <4>3. siPatch' = [siPatch EXCEPT !.state = state, !.evidence = "owner", !.granted = siPatch.granted]
          BY <1>2, <4>1
        <4>4. QED
          BY <3>1, <4>2, <4>3
      <3>2. CASE siPatch.state # "DRAFT"
        <4>1. siPatch.state = "TESTED" /\ siPatch' = [siPatch EXCEPT !.state = SettledState(siPatch)]
          BY <1>8, <3>2 DEF OwnerTests
        <4>2. /\ SettledState(siPatch) \in {"TESTED", "WAIT_APPROVAL", "ADOPTED"}
              /\ SettledState(siPatch) = "ADOPTED" => ~siPatch.material
          BY DEF SettledState
        <4>3. QED
          BY <1>7, <4>1, <4>2
      <3>3. QED
        BY <3>1, <3>2
    <2>2. state \in Settled \union {"TESTED"} /\ siPatch.state # "none" /\ siPatch.state \notin Settled
      BY <2>1 DEF Settled
    <2>3. state \notin {"CANARY", "DEPLOYED", "ROLLED_BACK"}
      BY <2>1
    <2>4. QED
      BY <1>6, <2>1, <2>2, <2>3
  <1>9. CASE RequestApproval \/ RequestClearance
    <2>1. siPatch' = [siPatch EXCEPT !.state = "WAIT_APPROVAL"] /\ siPatch.state = "TESTED"
      BY <1>9 DEF RequestApproval, RequestClearance
    <2>2. "WAIT_APPROVAL" \in Settled \union {"TESTED"} /\ "WAIT_APPROVAL" \in Settled
      BY DEF Settled
    <2>3. QED
      BY <1>6, <1>7, <2>1, <2>2
  <1>10. CASE ApproveCanary \/ StartCanary
    <2>1. /\ siPatch' = [siPatch EXCEPT !.state = "CANARY"] /\ siPatch.state \in {"WAIT_APPROVAL", "CLEARED"}
          /\ siPatch.material => siPatch.granted
      BY <1>2, <1>10 DEF ApproveCanary, StartCanary, RowEvidenced
    <2>2. "CANARY" \in Settled \union {"TESTED"} /\ "CANARY" \in Settled
      BY DEF Settled
    <2>3. QED
      BY <1>6, <1>7, <2>1, <2>2
  <1>11. CASE GrantClearance
    <2>1. siPatch' = [siPatch EXCEPT !.state = "CLEARED", !.evidence = siPatch.evidence, !.granted = TRUE]
      BY <1>2, <1>11 DEF GrantClearance
    <2>2. siPatch.state = "WAIT_APPROVAL" /\ "CLEARED" \in Settled \union {"TESTED"} /\ "CLEARED" \in Settled
      BY <1>11 DEF GrantClearance, Settled
    <2>3. QED
      BY <1>6, <2>1, <2>2
  <1>12. CASE \E ok \in BOOLEAN : CompleteCanary(ok)
    <2>1. PICK state \in {"DEPLOYED", "ROLLED_BACK"} : siPatch' = [siPatch EXCEPT !.state = state]
      BY <1>12 DEF CompleteCanary
    <2>2. siPatch.state = "CANARY" /\ (siPatch.material => siPatch.granted)
      BY <1>2, <1>12 DEF CompleteCanary, RowEvidenced
    <2>3. state \in Settled \union {"TESTED"} /\ state \in Settled
      BY DEF Settled
    <2>4. QED
      BY <1>6, <1>7, <2>1, <2>2, <2>3
  <1>13. QED
    BY <1>5, <1>8, <1>9, <1>10, <1>11, <1>12 DEF OwnerPatch

LEMMA StartSIStep ==
    ASSUME ImprovementInv, StartSI
    PROVE  ImprovementInv'
  <1>1. /\ siHub = "down" /\ siHub' = "starting" /\ UNCHANGED <<siJob, siResult, siBinding, siReading, siTail>>
        /\ siPatch' = IF siPatch.state = "TESTED" /\ siPatch.improvement /\ ~siPatch.material
                      THEN [siPatch EXCEPT !.state = "ADOPTED"] ELSE siPatch
    BY DEF StartSI
  <1>2. siTail = NoTail /\ siTail' = NoTail
    BY <1>1 DEF ImprovementInv
  <1>3. "ADOPTED" \in PatchStates /\ "ADOPTED" \in Settled /\ "TESTED" \notin Settled
    BY DEF PatchStates, Settled
  <1>4. /\ siPatch' \in [state : PatchStates, source : Jobs, improvement : BOOLEAN, material : BOOLEAN,
                         evidence : Jobs \union {"owner"}, granted : BOOLEAN]
        /\ siPatch'.source = siPatch.source
    BY <1>1, <1>3 DEF ImprovementInv, ImprovementTyped
  <1>5. RowEvidenced' /\ (siPatch.state \in Settled => siPatch'.state \in Settled)
    BY <1>1, <1>3 DEF ImprovementInv, ImprovementTyped, RowEvidenced
  <1>6. ImprovementTyped'
    BY <1>1, <1>4 DEF ImprovementInv, ImprovementTyped
  <1>7. QED
    BY <1>1, <1>2, <1>4, <1>5, <1>6, RowMoves

LEMMA CrashOrListen ==
    ASSUME ImprovementInv, CrashSI \/ Listen \/ UNCHANGED siVars
    PROVE  ImprovementInv'
  <1>1. CASE CrashSI
    <2>1. siTail' = NoTail /\ UNCHANGED <<siJob, siResult, siBinding, siPatch>> /\ HubEnds
      BY <1>1 DEF CrashSI, HubEnds
    <2>2. /\ siHub' \in {"down", "starting", "up"} /\ siReading' \in [SourceJobs -> Nat]
          /\ \A j \in SourceJobs : siReading'[j] > 0 => siReading[j] > 0
      BY <2>1, EndsOrGoesOn
    <2>3. ImprovementTyped'
      BY <2>1, <2>2 DEF ImprovementInv, ImprovementTyped
    <2>4. QED
      BY <2>1, <2>2, <2>3, JobsGoOn
  <1>2. CASE Listen
    <2>1. siTail = NoTail /\ siHub' = "up" /\ UNCHANGED <<siJob, siResult, siBinding, siPatch, siReading, siTail>>
      BY <1>2 DEF Listen, Between
    <2>2. ImprovementTyped'
      BY <2>1 DEF ImprovementInv, ImprovementTyped
    <2>3. QED
      BY <2>1, <2>2, JobsGoOn
  <1>3. CASE UNCHANGED siVars
    BY <1>3 DEF siVars, ImprovementInv, ImprovementTyped, RowEvidenced, Promoting, Source, Succeeded
  <1>4. QED
    BY <1>1, <1>2, <1>3

LEMMA ImprovementStart == SIInit => ImprovementInv
  <1> SUFFICES ASSUME SIInit PROVE ImprovementInv
    OBVIOUS
  <1>1. /\ siHub = "up" /\ siPatch = NoPatch /\ siTail = NoTail
        /\ siJob = [j \in SourceJobs |-> "none"] /\ siResult = [j \in SourceJobs |-> "none"]
        /\ siBinding = [j \in SourceJobs |-> "none"] /\ siReading = [j \in SourceJobs |-> 0]
    BY DEF SIInit
  <1>2. /\ NoPatch \in [state : PatchStates, source : Jobs, improvement : BOOLEAN, material : BOOLEAN,
                        evidence : Jobs \union {"owner"}, granted : BOOLEAN]
        /\ NoPatch.state = "none" /\ NoPatch.source = NoJob /\ NoPatch.material = FALSE
    BY DEF NoPatch, PatchStates, Jobs
  <1>3. ImprovementTyped /\ RowEvidenced
    BY <1>1, <1>2 DEF ImprovementTyped, RowEvidenced
  <1>4. \A j \in SourceJobs, at \in TailSteps : siTail # <<j, at>>
    BY <1>1, NoTailIsNoJob
  <1>5. siPatch.source \notin SourceJobs /\ \A j \in SourceJobs : siBinding[j] # "PROMOTED" /\ ~(siReading[j] > 0)
    BY <1>1, <1>2, SelfImprovementAssumption
  <1>6. QED
    BY <1>1, <1>3, <1>4, <1>5 DEF ImprovementInv

LEMMA ImprovementKept == ImprovementInv /\ [SINext]_siVars => ImprovementInv'
  <1> SUFFICES ASSUME ImprovementInv, [SINext]_siVars PROVE ImprovementInv'
  OBVIOUS
  <1>1. ASSUME NEW j \in SourceJobs, NEW cut \in {"none", "created", "bound"}, Request(j, cut) PROVE ImprovementInv'
    BY <1>1, RequestJobStep
  <1>2. ASSUME NEW j \in SourceJobs, ApproveSource(j) \/ StopSource(j) \/ Reconcile(j) \/ Promotion(j)
        PROVE  ImprovementInv'
    BY <1>2, OwnerJobStep, ReconcileStep, ArtifactsStep, StoreStep, TestStep, MarkStep DEF Promotion
  <1>3. ASSUME NEW j \in SourceJobs, NEW cut \in BOOLEAN,
               \/ Report(j, "FAILED", "none", cut)
               \/ \E result \in {"bad", "minor", "material"} : Report(j, "SUCCEEDED", result, cut)
        PROVE  ImprovementInv'
    BY <1>3, ReportStep
  <1>4. QED
    BY <1>1, <1>2, <1>3, OwnerPatchStep, StartSIStep, CrashOrListen DEF SINext

\* What every step between a request and a release keeps, for any number of jobs, ends of the
\* Hub and observations (self-improvement-coordinator.ts, m3-registry.ts).
THEOREM ImprovementInvariance == SISpec => []ImprovementInv
  BY ImprovementStart, ImprovementKept, PTL DEF SISpec

LEMMA ImprovementShown == ImprovementInv => ReleasedIsEvidenced
  BY DEF ImprovementInv, ReleasedIsEvidenced, RowEvidenced, Source, Succeeded

\* Nothing is adopted, in a Canary or deployed without its evidence, its grant and its job,
\* and PROMOTED means past the test (m3-registry.ts, self-improvement-coordinator.ts).
THEOREM ReleasesAreEvidenced == SISpec => []ReleasedIsEvidenced
  BY ImprovementInvariance, ImprovementShown, PTL

-----------------------------------------------------------------------------
(* The versions of an extension.                                           *)

\* A row that was registered has a place in the order of registrations.
Row == [manifest : Manifests \union {NoVersion}, verified : BOOLEAN, at : Nat]
VersionsInv ==
    /\ catRows \in [Versions -> Row] /\ catActive \in Versions \union {NoVersion}
    /\ catAt \in Nat /\ EnabledIsVerified

LEMMA RegisterStep ==
    ASSUME VersionsInv, NEW v \in Versions, NEW manifest \in Manifests, NEW cut \in BOOLEAN,
           RegisterVersion(v, manifest, cut)
    PROVE  VersionsInv'
  <1>1. catAt' \in Nat /\ catAt' # 0
    BY DEF RegisterVersion, VersionsInv
  <1>2. catRows' = [catRows EXCEPT ![v] = [manifest |-> manifest, verified |-> FALSE, at |-> catAt']]
    BY DEF RegisterVersion
  <1>3. [manifest |-> manifest, verified |-> FALSE, at |-> catAt'] \in Row
    BY <1>1 DEF Row
  <1>4. catRows' \in [Versions -> Row]
    BY <1>2, <1>3 DEF VersionsInv
  <1>5. catRows'[v].at # NoRow.at /\ \A w \in Versions : w # v => catRows'[w] = catRows[w]
    BY <1>1, <1>2 DEF VersionsInv, NoRow
  <1>6. CASE cut
    <2>1. catCut' /\ UNCHANGED <<catActive, catEnabled>>
      BY <1>6 DEF RegisterVersion
    <2>2. Versioned \subseteq Versioned'
      BY <1>5 DEF Versioned
    <2>3. QED
      BY <1>1, <1>4, <2>1, <2>2 DEF VersionsInv, EnabledIsVerified
  <1>7. CASE ~cut
    BY <1>1, <1>4, <1>7 DEF RegisterVersion, VersionsInv, EnabledIsVerified
  <1>8. QED
    BY <1>6, <1>7

LEMMA VerifiedStep ==
    ASSUME VersionsInv, NEW v \in Versions, MarkSandboxVerified(v)
    PROVE  VersionsInv'
  <1>1. catRows' \in [Versions -> Row]
    BY DEF MarkSandboxVerified, VersionsInv, Row
  <1>2. catRows'[v].verified /\ \A w \in Versions : w # v => catRows'[w] = catRows[w]
    BY DEF MarkSandboxVerified, VersionsInv, Row
  <1>3. catRows'[v] # NoRow
    BY <1>2 DEF NoRow
  <1>4. \A w \in Versioned : w \in Versioned' /\ (catRows[w].verified => catRows'[w].verified)
    BY <1>2, <1>3 DEF Versioned
  <1>5. QED
    BY <1>1, <1>4 DEF MarkSandboxVerified, VersionsInv, EnabledIsVerified

\* A version with evidence is registered: enabling it or rolling back to it is safe.
LEMMA EnabledStep ==
    ASSUME VersionsInv, EnableVersion \/ Rollback
    PROVE  VersionsInv'
  <1>1. \A w \in Versions : catRows[w].verified => w \in Versioned
    BY DEF Versioned, NoRow
  <1>2. CASE EnableVersion
    BY <1>1, <1>2 DEF EnableVersion, VersionsInv, EnabledIsVerified, Versioned
  <1>3. CASE Rollback
    <2>1. catActive' \in Versions /\ catActive' \in Versioned /\ catRows[catActive'].verified
      BY <1>3 DEF Rollback, RollbackTargets, Previous, Versioned
    <2>2. QED
      BY <1>3, <2>1 DEF Rollback, VersionsInv, EnabledIsVerified, Versioned
  <1>4. QED
    BY <1>2, <1>3

LEMMA VersionsStart == CatInit => VersionsInv
  BY DEF CatInit, VersionsInv, EnabledIsVerified, NoRow, Row

LEMMA VersionsKept == VersionsInv /\ [CatNext]_catVars => VersionsInv'
  <1> SUFFICES ASSUME VersionsInv, [CatNext]_catVars PROVE VersionsInv'
    OBVIOUS
  <1>1. ASSUME NEW v \in Versions, NEW manifest \in Manifests, NEW cut \in BOOLEAN, RegisterVersion(v, manifest, cut)
        PROVE  VersionsInv'
    BY <1>1, RegisterStep
  <1>2. ASSUME NEW v \in Versions, MarkSandboxVerified(v)
        PROVE  VersionsInv'
    BY <1>2, VerifiedStep
  <1>3. ASSUME NEW v \in Versions, RegisterMcp(v)
        PROVE  VersionsInv'
    BY <1>3 DEF RegisterMcp, VersionsInv, EnabledIsVerified, Versioned
  <1>4. ASSUME (\E v \in Versions : FinishMcp(v)) \/ (\E on \in BOOLEAN : SwitchMcp(on)) \/ InvokeMcp \/ UNCHANGED catVars
        PROVE  VersionsInv'
    BY <1>4 DEF FinishMcp, SwitchMcp, InvokeMcp, catVars, VersionsInv, EnabledIsVerified, Versioned
  <1>5. ASSUME EnableVersion \/ Rollback
        PROVE  VersionsInv'
    BY <1>5, EnabledStep
  <1>6. QED
    BY <1>1, <1>2, <1>3, <1>4, <1>5 DEF CatNext

(***************************************************************************)
(* Whatever versions are registered again, verified and rolled back to,    *)
(* what is enabled is a version whose present row was verified, unless a   *)
(* registration of it was cut off (ProcedureRegistry, SkillRegistry).      *)
(***************************************************************************)
THEOREM EnabledVersionsAreVerified == CatSpec => []EnabledIsVerified
  <1>1. VersionsInv => EnabledIsVerified
    BY DEF VersionsInv
  <1>2. QED
    BY <1>1, VersionsStart, VersionsKept, PTL DEF CatSpec

-----------------------------------------------------------------------------
(* The event log and the state it replays to.                              *)

LEMMA Least ==
    ASSUME NEW T \in SUBSET Nat, T # {}
    PROVE  \E n \in T : \A m \in T : n <= m
  <1> DEFINE R == OpToRel(<, Nat)
  <1>1. \A x, y \in Nat : x < y => <<x, y>> \in R
    BY DEF OpToRel
  <1>2. IsWellFoundedOn(R, Nat)
    BY NatLessThanWellFounded
  <1> HIDE DEF R
  <1>3. \E n \in T : \A m \in T : <<m, n>> \notin R
    BY <1>2, WFMin
  <1>4. PICK n \in T : \A m \in T : <<m, n>> \notin R
    BY <1>3
  <1>5. ASSUME NEW m \in T PROVE n <= m
    <2>1. m \in Nat /\ n \in Nat /\ ~(m < n)
      BY <1>1, <1>4
    <2>2. QED
      BY <2>1
  <1>6. QED
    BY <1>5

ReplayStep(g, events, n) == IF n = 0 THEN EmptyState ELSE ApplyEvent(g[n - 1], events[n])
Replay(events, n) == CHOOSE g : g = [i \in 0..n |-> ReplayStep(g, events, i)]

LEMMA ReplayIs == ASSUME NEW events PROVE Rehydrate(events) = Replay(events, Len(events))[Len(events)]
  BY DEF Rehydrate, Replay, ReplayStep

(* A function over an interval that is what the recursive definition asks for. *)
Solves(g, events, n) == g = [i \in 0..n |-> ReplayStep(g, events, i)]

LEMMA ReplayExists ==
    ASSUME NEW events, NEW n \in Nat
    PROVE  Solves(Replay(events, n), events, n)
  <1> DEFINE Bad == {k \in Nat : ~ \E g : Solves(g, events, k)}
  <1>1. Bad = {}
    <2>1. SUFFICES ASSUME Bad # {} PROVE FALSE
      OBVIOUS
    <2>2. PICK k \in Bad : \A m \in Bad : k <= m
      BY <2>1, Least
    <2>3. CASE k = 0
      <3>1. Solves([i \in 0..0 |-> EmptyState], events, 0)
        BY DEF Solves, ReplayStep
      <3>2. QED
        BY <2>2, <2>3, <3>1
    <2>4. CASE k # 0
      <3>1. k \in Nat /\ k - 1 \in Nat /\ k - 1 \notin Bad
        BY <2>2, <2>4
      <3>2. PICK g : Solves(g, events, k - 1)
        BY <3>1
      <3> DEFINE h == [i \in 0..k |-> IF i = k THEN ApplyEvent(g[k - 1], events[k]) ELSE g[i]]
      <3>3. \A i \in 0..(k - 1) : g[i] = ReplayStep(g, events, i)
        BY <3>2 DEF Solves
      <3>4. \A i \in 0..(k - 1) : h[i] = g[i]
        BY <3>1
      <3>5. ASSUME NEW i \in 0..k PROVE h[i] = ReplayStep(h, events, i)
        <4>1. CASE i = k
          BY <4>1, <3>1, <3>4, <2>4 DEF ReplayStep
        <4>2. CASE i # k
          <5>1. i \in 0..(k - 1) /\ (i = 0 \/ i - 1 \in 0..(k - 1))
            BY <4>2, <3>1
          <5>2. h[i] = g[i] /\ (i = 0 \/ h[i - 1] = g[i - 1])
            BY <5>1, <3>4
          <5> HIDE DEF h
          <5>3. QED
            BY <5>1, <5>2, <3>3 DEF ReplayStep
        <4>3. QED
          BY <4>1, <4>2
      <3>6. h = [i \in 0..k |-> h[i]]
        OBVIOUS
      <3> HIDE DEF h
      <3>7. Solves(h, events, k)
        BY <3>5, <3>6 DEF Solves
      <3>8. QED
        BY <2>2, <3>7
    <2>5. QED
      BY <2>3, <2>4
  <1>2. \E g : Solves(g, events, n)
    BY <1>1
  <1>3. QED
    BY <1>2 DEF Solves, Replay

LEMMA ReplayUnique ==
    ASSUME NEW events, NEW more, NEW n \in Nat, NEW m \in Nat, n <= m,
           \A i \in 1..n : events[i] = more[i]
    PROVE  Replay(events, n)[n] = Replay(more, m)[n]
  <1> DEFINE g == Replay(events, n)
             h == Replay(more, m)
  <1>0. Solves(g, events, n) /\ Solves(h, more, m)
    BY ReplayExists
  <1> HIDE DEF g, h
  <1> DEFINE Bad == {k \in 0..n : g[k] # h[k]}
  <1>1. ASSUME NEW i \in 0..n
        PROVE  g[i] = ReplayStep(g, events, i) /\ h[i] = ReplayStep(h, more, i)
    <2>1. i \in 0..m
      OBVIOUS
    <2>2. g[i] = ReplayStep(g, events, i)
      BY <1>0 DEF Solves
    <2>3. h[i] = ReplayStep(h, more, i)
      BY <1>0, <2>1 DEF Solves
    <2>4. QED
      BY <2>2, <2>3
  <1>2. SUFFICES ASSUME Bad # {} PROVE FALSE
    BY DEF g, h
  <1>3. PICK k \in Bad : \A j \in Bad : k <= j
    <2>1. Bad \in SUBSET Nat
      OBVIOUS
    <2> HIDE DEF Bad
    <2>2. QED
      BY <1>2, <2>1, Least
  <1>4. k # 0
    BY <1>1, <1>3 DEF ReplayStep
  <1>5. k - 1 \in 0..n /\ k - 1 \notin Bad /\ k \in 1..n
    BY <1>3, <1>4
  <1>6. g[k - 1] = h[k - 1] /\ events[k] = more[k]
    BY <1>5
  <1>7. g[k] = h[k]
    BY <1>1, <1>4, <1>5, <1>6 DEF ReplayStep
  <1>8. QED
    BY <1>3, <1>7

LEMMA RehydrateEmpty == Rehydrate(<<>>) = EmptyState
  <1>1. Solves(Replay(<<>>, 0), <<>>, 0)
    BY ReplayExists
  <1>2. Len(<<>>) = 0
    OBVIOUS
  <1>3. QED
    BY <1>1, <1>2, ReplayIs DEF Solves, ReplayStep

LEMMA RehydrateAppend ==
    ASSUME NEW S, NEW events \in Seq(S), NEW e \in S
    PROVE  Rehydrate(Append(events, e)) = ApplyEvent(Rehydrate(events), e)
  <1> DEFINE n == Len(events)
             more == Append(events, e)
             g == Replay(events, n)
             h == Replay(more, n + 1)
  <1>1. /\ n \in Nat /\ Len(more) = n + 1 /\ more[n + 1] = e /\ \A i \in 1..n : events[i] = more[i]
    BY AppendProperties, LenProperties
  <1>2. Rehydrate(events) = g[n] /\ Rehydrate(more) = h[n + 1]
    BY <1>1, ReplayIs
  <1> HIDE DEF n, more
  <1>3. Solves(g, events, n) /\ Solves(h, more, n + 1)
    BY <1>1, ReplayExists
  <1> HIDE DEF g, h
  <1>4. g[n] = h[n]
    <2>1. n \in Nat /\ n + 1 \in Nat /\ n <= n + 1
      BY <1>1
    <2>2. \A i \in 1..n : events[i] = more[i]
      BY <1>1
    <2>3. QED
      BY <2>1, <2>2, ReplayUnique DEF g, h
  <1>5. h[n + 1] = ApplyEvent(h[n], more[n + 1])
    BY <1>1, <1>3 DEF Solves, ReplayStep
  <1>6. QED
    BY <1>1, <1>2, <1>4, <1>5 DEF more

-----------------------------------------------------------------------------
\* What apply goes on with says whether it is valid.
Shaped(state) == "valid" \in DOMAIN state

LEMMA InvalidIsShaped == Shaped(Invalid) /\ ~Invalid.valid /\ Shaped(EmptyState) /\ EmptyState.valid
  <1>1. EmptyState.valid /\ Shaped(EmptyState)
    BY DEF EmptyState, Shaped
  <1>2. QED
    BY <1>1 DEF Shaped, Invalid

LEMMA KnownShaped ==
    ASSUME NEW state, Shaped(state), NEW known
    PROVE  /\ Shaped([state EXCEPT !.known = known])
           /\ [state EXCEPT !.known = known].valid = state.valid
  BY DEF Shaped

LEMMA SentAtShaped ==
    ASSUME NEW state, Shaped(state), NEW q
    PROVE  Shaped(SetSentAt(state, q)) /\ SetSentAt(state, q).valid = state.valid
  BY DEF Shaped, SetSentAt

LEMMA ApplyShaped ==
    ASSUME NEW state, Shaped(state), NEW e
    PROVE  Shaped(ApplyEvent(state, e))
  <1>1. Shaped(ApplyMessage(state, e))
    BY InvalidIsShaped, KnownShaped DEF ApplyMessage
  <1>2. Shaped(ApplyEnvelope(state, e))
    BY InvalidIsShaped, SentAtShaped DEF ApplyEnvelope
  <1>3. QED
    BY <1>1, <1>2, InvalidIsShaped DEF ApplyEvent

LEMMA ReplayShaped ==
    ASSUME NEW events, Len(events) \in Nat
    PROVE  Shaped(Rehydrate(events))
  <1> DEFINE n == Len(events)
             g == Replay(events, n)
             Bad == {k \in 0..n : ~Shaped(g[k])}
  <1>1. Solves(g, events, n) /\ Rehydrate(events) = g[n]
    BY ReplayExists, ReplayIs
  <1> HIDE DEF g
  <1>2. \A i \in 0..n : g[i] = ReplayStep(g, events, i)
    BY <1>1 DEF Solves
  <1>3. SUFFICES ASSUME Bad # {} PROVE FALSE
    BY <1>1
  <1>4. PICK k \in Bad : \A j \in Bad : k <= j
    <2>1. Bad \in SUBSET Nat
      OBVIOUS
    <2> HIDE DEF Bad
    <2>2. QED
      BY <1>3, <2>1, Least
  <1>5. k # 0
    BY <1>2, <1>4, InvalidIsShaped DEF ReplayStep
  <1>6. k \in 0..n /\ k - 1 \in 0..n /\ k - 1 \notin Bad
    BY <1>4, <1>5
  <1>7. Shaped(g[k - 1]) /\ g[k] = ApplyEvent(g[k - 1], events[k])
    BY <1>2, <1>5, <1>6 DEF ReplayStep
  <1>8. QED
    BY <1>4, <1>7, ApplyShaped

-----------------------------------------------------------------------------
LEMMA PrefixKept ==
    ASSUME NEW S, NEW s \in Seq(S), NEW t \in Seq(S), NEW e \in S, IsPrefix(s, t)
    PROVE  IsPrefix(s, Append(t, e))
  <1> DEFINE more == Append(t, e)
  <1>1. Len(s) \in Nat /\ Len(t) \in Nat /\ Len(s) <= Len(t) /\ SubSeq(s, 1, Len(s)) = SubSeq(t, 1, Len(s))
    BY LenProperties DEF IsPrefix
  <1>2. Len(more) = Len(t) + 1 /\ more \in Seq(S) /\ \A i \in 1..Len(t) : more[i] = t[i]
    BY AppendProperties
  <1> HIDE DEF more
  <1>3. SubSeq(more, 1, Len(s)) = SubSeq(t, 1, Len(s))
    <2> DEFINE a == SubSeq(more, 1, Len(s))
               b == SubSeq(t, 1, Len(s))
    <2>1. \A i \in 1..Len(s) : more[i] \in S /\ t[i] \in S /\ more[i] = t[i]
      BY <1>1, <1>2, ElementOfSeq
    <2>2. a \in Seq(S) /\ Len(a) = Len(s) /\ \A i \in 1..Len(s) : a[i] = more[i]
      BY <1>1, <2>1, SubSeqProperties
    <2>3. b \in Seq(S) /\ Len(b) = Len(s) /\ \A i \in 1..Len(s) : b[i] = t[i]
      BY <1>1, <2>1, SubSeqProperties
    <2> HIDE DEF a, b
    <2>4. \A i \in 1..Len(a) : a[i] = b[i]
      BY <2>1, <2>2, <2>3
    <2>5. a = b
      BY <2>2, <2>3, <2>4, SeqEqual
    <2>6. QED
      BY <2>5 DEF a, b
  <1>4. QED
    BY <1>1, <1>2, <1>3 DEF IsPrefix, more

LEMMA PrefixOfItself ==
    ASSUME NEW S, NEW s \in Seq(S)
    PROVE  IsPrefix(s, s)
  BY LenProperties DEF IsPrefix

LEMMA EmptyPrefix ==
    ASSUME NEW S, NEW s \in Seq(S)
    PROVE  IsPrefix(<<>>, s)
  <1>1. Len(s) \in Nat /\ SubSeq(<<>>, 1, 0) = SubSeq(s, 1, 0)
    BY LenProperties, SubSeqEmpty
  <1>2. QED
    BY <1>1 DEF IsPrefix

LEMMA FrontAndLast ==
    ASSUME NEW S, NEW s \in Seq(S), NEW e \in S
    PROVE  Front(Append(s, e)) = s /\ Last(Append(s, e)) = e
  <1> DEFINE more == Append(s, e)
  <1>1. Len(s) \in Nat /\ Len(more) = Len(s) + 1 /\ more[Len(s) + 1] = e
         /\ \A i \in 1..Len(s) : more[i] = s[i] /\ s[i] \in S
    BY AppendProperties, LenProperties, ElementOfSeq
  <1> HIDE DEF more
  <1> DEFINE a == SubSeq(more, 1, Len(s))
  <1>2. a \in Seq(S) /\ Len(a) = Len(s) /\ \A i \in 1..Len(s) : a[i] = more[i]
    BY <1>1, SubSeqProperties
  <1> HIDE DEF a
  <1>3. a = s
    BY <1>1, <1>2, SeqEqual
  <1>4. QED
    BY <1>1, <1>3 DEF Front, Last, a, more

-----------------------------------------------------------------------------
\* A replay that meets an event of a type apply does not know is invalid from there on.
LEMMA ValidIsKnown ==
    ASSUME NEW events, Len(events) \in Nat, Rehydrate(events).valid
    PROVE  \A i \in 1..Len(events) : events[i].what \in Replayed
  <1> DEFINE n == Len(events)
             g == Replay(events, n)
  <1>1. Solves(g, events, n) /\ Rehydrate(events) = g[n]
    BY ReplayExists, ReplayIs
  <1> HIDE DEF g
  <1>2. \A i \in 0..n : g[i] = ReplayStep(g, events, i)
    BY <1>1 DEF Solves
  <1>3. SUFFICES ASSUME NEW k \in 1..n, events[k].what \notin Replayed PROVE FALSE
    OBVIOUS
  <1> DEFINE Bad == {j \in k..n : g[j].valid}
  <1>4. PICK j \in Bad : \A i \in Bad : j <= i
    <2>1. n \in Bad
      BY <1>1
    <2>2. Bad \in SUBSET Nat
      OBVIOUS
    <2> HIDE DEF Bad
    <2>3. QED
      BY <2>1, <2>2, Least
  <1>5. j \in k..n /\ g[j].valid /\ j \in 0..n /\ j # 0 /\ (j = k \/ j - 1 \in k..n)
    BY <1>4
  <1>6. g[j] = ApplyEvent(g[j - 1], events[j])
    BY <1>2, <1>5 DEF ReplayStep
  <1>7. CASE j = k
    BY <1>3, <1>5, <1>6, <1>7, InvalidIsShaped DEF ApplyEvent, Replayed
  <1>8. CASE j # k
    <2>1. j - 1 \notin Bad
      BY <1>4, <1>5
    <2>2. ~g[j - 1].valid
      BY <1>5, <1>8, <2>1
    <2>3. QED
      BY <1>5, <1>6, <2>2, InvalidIsShaped DEF ApplyEvent
  <1>9. QED
    BY <1>7, <1>8

-----------------------------------------------------------------------------
(* The log with its unknown events passed, and what it replays to.         *)

LEMMA PassedIsEvent == AuditEvent("channel.inbound") \in Events
  BY DEF AuditEvent, Events, Replayed, SupportedAudits

LEMMA PassedTyped ==
    ASSUME NEW log \in Seq(Events)
    PROVE  /\ UnknownPassed(log) \in Seq(Events) /\ Len(UnknownPassed(log)) = Len(log)
           /\ \A i \in 1..Len(log) : UnknownPassed(log)[i] =
                 IF log[i].what \in Replayed THEN log[i] ELSE AuditEvent("channel.inbound")
  <1>1. Len(log) \in Nat /\ DOMAIN log = 1..Len(log) /\ \A i \in 1..Len(log) : log[i] \in Events
    BY LenProperties, ElementOfSeq
  <1>2. UnknownPassed(log) = [i \in 1..Len(log) |->
            IF log[i].what \in Replayed THEN log[i] ELSE AuditEvent("channel.inbound")]
    BY <1>1 DEF UnknownPassed
  <1>3. UnknownPassed(log) \in [1..Len(log) -> Events]
    BY <1>1, <1>2, PassedIsEvent
  <1>4. QED
    BY <1>1, <1>2, <1>3, IsASeq, LenProperties

LEMMA AllKnown ==
    ASSUME NEW log \in Seq(Events), \A i \in 1..Len(log) : log[i].what \in Replayed
    PROVE  UnknownPassed(log) = log
  <1>1. /\ UnknownPassed(log) \in Seq(Events) /\ Len(UnknownPassed(log)) = Len(log)
        /\ \A i \in 1..Len(log) : UnknownPassed(log)[i] = log[i]
    BY PassedTyped
  <1>2. QED
    BY <1>1, SeqEqual

\* One more event is one more step of apply, or none for one that is passed.
LEMMA ReadableAppend ==
    ASSUME NEW log \in Seq(Events), NEW e \in Events
    PROVE  ReadableState(Append(log, e)) =
             ApplyEvent(ReadableState(log), IF e.what \in Replayed THEN e ELSE AuditEvent("channel.inbound"))
  <1> DEFINE f == IF e.what \in Replayed THEN e ELSE AuditEvent("channel.inbound")
             more == Append(log, e)
  <1>1. f \in Events
    BY PassedIsEvent
  <1>2. /\ more \in Seq(Events) /\ Len(more) = Len(log) + 1 /\ Len(log) \in Nat
        /\ more[Len(log) + 1] = e /\ \A i \in 1..Len(log) : more[i] = log[i]
    BY AppendProperties, LenProperties
  <1>3. /\ UnknownPassed(log) \in Seq(Events) /\ Len(UnknownPassed(log)) = Len(log)
        /\ UnknownPassed(more) \in Seq(Events) /\ Len(UnknownPassed(more)) = Len(log) + 1
    BY <1>2, PassedTyped
  <1>4. \A i \in 1..Len(log) : UnknownPassed(more)[i] = UnknownPassed(log)[i]
    <2>1. ASSUME NEW i \in 1..Len(log) PROVE UnknownPassed(more)[i] = UnknownPassed(log)[i]
      <3>1. i \in 1..Len(more) /\ more[i] = log[i]
        BY <1>2
      <3> HIDE DEF more
      <3>2. QED
        BY <1>2, <3>1, PassedTyped
    <2>2. QED
      BY <2>1
  <1>5. UnknownPassed(more)[Len(log) + 1] = f
    <2>1. Len(log) + 1 \in 1..Len(more)
      BY <1>2
    <2> HIDE DEF more
    <2>2. QED
      BY <1>2, <2>1, PassedTyped
  <1> HIDE DEF f, more
  <1> DEFINE b == Append(UnknownPassed(log), f)
  <1>6. b \in Seq(Events) /\ Len(b) = Len(log) + 1 /\ b[Len(log) + 1] = f
         /\ \A i \in 1..Len(log) : b[i] = UnknownPassed(log)[i]
    BY <1>1, <1>3, AppendProperties
  <1> HIDE DEF b
  <1>7. UnknownPassed(more) = b
    <2>1. \A i \in 1..(Len(log) + 1) : UnknownPassed(more)[i] = b[i]
      BY <1>2, <1>4, <1>5, <1>6
    <2>2. QED
      BY <1>3, <1>6, <2>1, SeqEqual
  <1>8. Rehydrate(b) = ApplyEvent(Rehydrate(UnknownPassed(log)), f)
    BY <1>1, <1>3, RehydrateAppend DEF b
  <1>9. QED
    BY <1>7, <1>8 DEF ReadableState, more, f

LEMMA ReadableEmpty == ReadableState(<<>>) = EmptyState /\ ReadableState(<<>>).valid
  <1>1. <<>> \in Seq(Events) /\ Len(<<>>) = 0
    OBVIOUS
  <1>2. UnknownPassed(<<>>) = <<>>
    <2>1. \A i \in 1..Len(<<>>) : <<>>[i].what \in Replayed
      BY <1>1
    <2>2. \A log \in Seq(Events) : (\A i \in 1..Len(log) : log[i].what \in Replayed) => UnknownPassed(log) = log
      BY AllKnown
    <2>3. QED
      BY <1>1, <2>1, <2>2
  <1>3. QED
    BY <1>2, RehydrateEmpty, InvalidIsShaped DEF ReadableState

\* A log that replays is one that replays when unknown events are passed, there being none.
LEMMA ValidIsReadable ==
    ASSUME NEW log \in Seq(Events), Rehydrate(log).valid
    PROVE  ReadableState(log) = Rehydrate(log)
  <1>1. \A i \in 1..Len(log) : log[i].what \in Replayed
    BY ValidIsKnown, LenProperties
  <1>2. QED
    BY <1>1, AllKnown DEF ReadableState

-----------------------------------------------------------------------------
LogTyped ==
    /\ HubTypeOK /\ disk \in Seq(Events)
    /\ disk # <<>> \/ phase \in {"opened", "up"} => IsPrefix(Legacy, disk)
    /\ ReadableState(Legacy).valid => ReadableState(disk).valid
    /\ refusal = "invalid" /\ ReadableState(Legacy).valid => \E i \in DOMAIN disk : disk[i].what \notin Replayed

\* The running Hub has in memory what its log replays to, short of an event that is committed
\* and not yet applied, which applies.
InStep ==
    /\ phase = "up" /\ ~applying => memory = ReadableState(disk) /\ memory.valid
    /\ applying =>
         /\ phase = "up"
         /\ \E log \in Seq(Events), e \in Events :
              /\ disk = Append(log, e) /\ memory = ReadableState(log)
              /\ e.what \in Replayed /\ ApplyEvent(memory, e).valid

LogInv == LogTyped /\ InStep

LEMMA ReadableIsShaped ==
    ASSUME NEW log \in Seq(Events)
    PROVE  Shaped(ReadableState(log))
  <1>1. Len(UnknownPassed(log)) \in Nat
    BY PassedTyped, LenProperties
  <1>2. QED
    BY <1>1, ReplayShaped DEF ReadableState

LEMMA RequestApplies ==
    ASSUME NEW state, Shaped(state), state.valid, NEW q \in Requests, SameId(state, q) = {},
           \/ q.what \in {"message", "register"}
           \/ q.what = "heartbeat" /\ Registered(state, q.from) /\ q.sent >= state.sentAt[q.from]
    PROVE  ApplyEvent(state, q).valid /\ q.what \in Replayed
  <1>1. CASE q.what = "message"
    <2>1. ApplyEvent(state, q) = [state EXCEPT !.known = state.known \cup {q}]
      BY <1>1 DEF ApplyEvent, ApplyMessage
    <2>2. QED
      BY <1>1, <2>1, KnownShaped DEF Replayed
  <1>2. CASE q.what # "message"
    <2>1. ApplyEnvelope(state, q) = SetSentAt(state, q)
      BY <1>2 DEF ApplyEnvelope
    <2>2. ApplyEvent(state, q) = SetSentAt(state, q)
      BY <1>2, <2>1 DEF ApplyEvent
    <2>3. QED
      BY <1>2, <2>2, SentAtShaped DEF Replayed
  <1>3. QED
    BY <1>1, <1>2

\* What a commit leaves of the invariant, the transaction done or failed.
LEMMA CommitStep ==
    ASSUME LogInv, Ready, NEW e \in Events, NEW onward \in BOOLEAN, Commit(e, onward),
           UNCHANGED <<phase, hubPid, lockRow, memory, refusal>>,
           NEW f, f = IF e.what \in Replayed THEN e ELSE AuditEvent("channel.inbound"),
           ApplyEvent(memory, f).valid,
           IF onward THEN e.what \in Replayed ELSE ApplyEvent(memory, f) = memory
    PROVE  LogInv'
  <1>1. CASE disk' = Append(disk, e) /\ applying' = onward /\ UNCHANGED <<unhealthy, hubFaults>>
    <2>1. memory = ReadableState(disk) /\ disk \in Seq(Events) /\ phase = "up"
      BY DEF LogInv, LogTyped, InStep, Ready
    <2>2. disk' \in Seq(Events) /\ Len(disk') = Len(disk) + 1 /\ \A i \in 1..Len(disk) : disk'[i] = disk[i]
      BY <1>1, <2>1, AppendProperties
    <2>3. ReadableState(Append(disk, e)) = ApplyEvent(memory, f)
      BY <2>1, ReadableAppend
    <2>4. ReadableState(disk)' = ApplyEvent(memory, f)
      BY <1>1, <2>3
    <2>5. IsPrefix(Legacy, disk')
      BY <1>1, <2>1, PrefixKept, HubAssumption DEF LogInv, LogTyped
    <2>6. HubTypeOK'
      BY <1>1, <2>1, <2>2, HubAssumption, LenProperties DEF LogInv, LogTyped, HubTypeOK, Ready
    <2>7. refusal' = "invalid" /\ ReadableState(Legacy).valid => \E i \in DOMAIN disk' : disk'[i].what \notin Replayed
      <3>1. SUFFICES ASSUME refusal = "invalid", ReadableState(Legacy).valid
                     PROVE  \E i \in DOMAIN disk' : disk'[i].what \notin Replayed
        OBVIOUS
      <3>2. PICK i \in DOMAIN disk : disk[i].what \notin Replayed
        BY <3>1 DEF LogInv, LogTyped
      <3>3. i \in 1..Len(disk) /\ Len(disk) \in Nat /\ DOMAIN disk' = 1..Len(disk')
        BY <2>1, <2>2, LenProperties
      <3>4. i \in DOMAIN disk' /\ disk'[i] = disk[i]
        BY <2>2, <3>3
      <3>5. QED
        BY <3>2, <3>4
    <2>8. LogTyped'
      BY <2>2, <2>4, <2>5, <2>6, <2>7 DEF LogTyped
    <2>9. InStep'
      <3>1. CASE onward
        BY <1>1, <2>1, <3>1 DEF InStep
      <3>2. CASE ~onward
        BY <1>1, <2>4, <3>2 DEF InStep
      <3>3. QED
        BY <3>1, <3>2
    <2>10. QED
      BY <2>8, <2>9 DEF LogInv
  <1>2. CASE unhealthy' = TRUE /\ HubFault /\ UNCHANGED <<disk, applying>>
    <2>1. LogTyped'
      BY <1>2 DEF LogInv, LogTyped, HubTypeOK
    <2>2. InStep'
      BY <1>2 DEF LogInv, InStep
    <2>3. QED
      BY <2>1, <2>2 DEF LogInv
  <1>3. QED
    BY <1>1, <1>2 DEF Commit

LEMMA MemoryIsShaped ==
    ASSUME LogInv, Ready
    PROVE  Shaped(memory) /\ memory.valid
  BY ReadableIsShaped DEF LogInv, LogTyped, InStep, Ready

LEMMA AppendRequestStep ==
    ASSUME LogInv, NEW q \in Requests, AcceptMessage(q) \/ AcceptRegistration(q) \/ AcceptHeartbeat(q)
    PROVE  LogInv'
  <1>1. Ready /\ SameId(memory, q) = {} /\ Commit(q, TRUE) /\ UNCHANGED <<phase, hubPid, lockRow, memory, refusal>>
    BY DEF AcceptMessage, AcceptRegistration, AcceptHeartbeat, AppendRequest
  <1>2. ApplyEvent(memory, q).valid /\ q.what \in Replayed
    BY <1>1, MemoryIsShaped, RequestApplies
       DEF AcceptMessage, AcceptRegistration, AcceptHeartbeat, HeartbeatAcceptable
  <1>3. q \in Events
    BY HubAssumption
  <1>4. QED
    BY <1>1, <1>2, <1>3, CommitStep

LEMMA AppendAuditStep ==
    ASSUME LogInv, NEW type \in AuditTypes, AppendAudit(type)
    PROVE  LogInv'
  <1> DEFINE e == AuditEvent(type)
             f == IF e.what \in Replayed THEN e ELSE AuditEvent("channel.inbound")
  <1>1. type \notin {"message", "register", "heartbeat"}
    BY HubAssumption
  <1>2. e \in Events
    BY DEF Events, AuditEvent
  <1>3. Ready /\ Commit(e, FALSE) /\ UNCHANGED <<phase, hubPid, lockRow, memory, refusal>>
    BY DEF AppendAudit
  <1>4. f.what \in SupportedAudits
    <2>1. e.what = type /\ AuditEvent("channel.inbound").what = "channel.inbound"
      BY DEF AuditEvent
    <2>2. QED
      BY <1>1, <2>1 DEF Replayed, SupportedAudits
  <1>5. f = IF e.what \in Replayed THEN e ELSE AuditEvent("channel.inbound")
    OBVIOUS
  <1> HIDE DEF e, f
  <1>6. ApplyEvent(memory, f) = memory
    BY <1>3, <1>4, MemoryIsShaped DEF ApplyEvent, SupportedAudits
  <1>7. QED
    BY <1>2, <1>3, <1>5, <1>6, MemoryIsShaped, CommitStep

LEMMA ApplyLiveStep ==
    ASSUME LogInv, ApplyLive
    PROVE  LogInv'
  <1>1. PICK log \in Seq(Events), e \in Events :
            /\ disk = Append(log, e) /\ memory = ReadableState(log)
            /\ e.what \in Replayed /\ ApplyEvent(memory, e).valid
    BY DEF LogInv, InStep, ApplyLive
  <1>2. Last(disk) = e /\ ReadableState(disk) = ApplyEvent(memory, e)
    BY <1>1, FrontAndLast, ReadableAppend
  <1>3. memory' = ReadableState(disk) /\ memory'.valid
    BY <1>1, <1>2 DEF ApplyLive
  <1>4. LogTyped'
    BY DEF LogInv, LogTyped, HubTypeOK, ApplyLive
  <1>5. InStep'
    BY <1>3 DEF InStep, ApplyLive
  <1>6. QED
    BY <1>4, <1>5 DEF LogInv

LEMMA StartHubStep ==
    ASSUME LogInv, NEW self \in Pids, NEW alive, StartHub(self, alive)
    PROVE  LogInv'
  <1>1. /\ refusal' \in {"none", "locked"} /\ UNCHANGED <<disk, memory, applying>>
        /\ phase' \in {"down", "locked"} /\ phase = "down"
        /\ phase' # "down" \/ UNCHANGED <<phase, hubPid, lockRow>>
    BY DEF StartHub
  <1>2. HubTypeOK'
    BY HubAssumption DEF LogInv, LogTyped, HubTypeOK, StartHub
  <1>3. LogTyped'
    BY <1>1, <1>2 DEF LogInv, LogTyped
  <1>4. InStep'
    BY <1>1 DEF LogInv, InStep
  <1>5. QED
    BY <1>3, <1>4 DEF LogInv

LEMMA MigrateStep ==
    ASSUME LogInv, MigrateLegacy
    PROVE  LogInv'
  <1>1. /\ disk' \in Seq(Events) /\ IsPrefix(Legacy, disk') /\ Len(disk') <= MaxEvents
        /\ disk' \in {disk, Legacy} /\ (disk' = disk \/ disk = <<>>)
    <2>1. CASE disk = <<>>
      BY <2>1, HubAssumption, PrefixOfItself, LenProperties DEF MigrateLegacy
    <2>2. CASE disk # <<>>
      BY <2>2 DEF MigrateLegacy, LogInv, LogTyped, HubTypeOK
    <2>3. QED
      BY <2>1, <2>2
  <1>2. HubTypeOK'
    BY <1>1 DEF LogInv, LogTyped, HubTypeOK, MigrateLegacy
  <1>3. (ReadableState(Legacy).valid => ReadableState(disk).valid)'
    BY <1>1 DEF LogInv, LogTyped
  <1>4. refusal' = "invalid" /\ ReadableState(Legacy).valid => \E i \in DOMAIN disk' : disk'[i].what \notin Replayed
    BY <1>1 DEF LogInv, LogTyped, MigrateLegacy
  <1>5. LogTyped'
    BY <1>1, <1>2, <1>3, <1>4 DEF LogTyped
  <1>6. InStep'
    BY DEF LogInv, InStep, MigrateLegacy
  <1>7. QED
    BY <1>5, <1>6 DEF LogInv

LEMMA RehydrateStep ==
    ASSUME LogInv, RehydrateState
    PROVE  LogInv'
  <1>1. disk \in Seq(Events) /\ disk' = disk /\ applying' = applying /\ phase = "opened" /\ ~applying
    BY DEF LogInv, LogTyped, InStep, RehydrateState
  <1>2. CASE Rehydrate(disk).valid
    <2>1. memory' = Rehydrate(disk) /\ phase' = "up" /\ UNCHANGED <<hubPid, lockRow, refusal>>
      BY <1>2 DEF RehydrateState
    <2>2. memory' = ReadableState(disk) /\ memory'.valid
      BY <1>1, <1>2, <2>1, ValidIsReadable
    <2>3. LogTyped'
      BY <1>1, <2>1 DEF LogInv, LogTyped, HubTypeOK, RehydrateState
    <2>4. InStep'
      BY <1>1, <2>2 DEF InStep
    <2>5. QED
      BY <2>3, <2>4 DEF LogInv
  <1>3. CASE ~Rehydrate(disk).valid
    <2>1. phase' = "down" /\ hubPid' = 0 /\ lockRow' = 0 /\ refusal' = "invalid" /\ UNCHANGED unhealthy
      BY <1>3 DEF RehydrateState
    <2>2. ReadableState(Legacy).valid => \E i \in DOMAIN disk : disk[i].what \notin Replayed
      <3>1. SUFFICES ASSUME ReadableState(Legacy).valid, \A i \in DOMAIN disk : disk[i].what \in Replayed
                     PROVE  FALSE
        OBVIOUS
      <3>2. \A i \in 1..Len(disk) : disk[i].what \in Replayed
        BY <1>1, <3>1, LenProperties
      <3>3. UnknownPassed(disk) = disk
        BY <1>1, <3>2, AllKnown
      <3>4. ReadableState(disk).valid
        BY <3>1 DEF LogInv, LogTyped
      <3>5. QED
        BY <1>3, <3>3, <3>4 DEF ReadableState
    <2>3. LogTyped'
      BY <1>1, <2>1, <2>2 DEF LogInv, LogTyped, HubTypeOK
    <2>4. InStep'
      BY <1>1, <2>1 DEF InStep
    <2>5. QED
      BY <2>3, <2>4 DEF LogInv
  <1>4. QED
    BY <1>2, <1>3

LEMMA EndStep ==
    ASSUME LogInv, CrashHub \/ StopHub
    PROVE  LogInv'
  <1>1. LogTyped'
    BY DEF LogInv, LogTyped, HubTypeOK, CrashHub, StopHub, Ended
  <1>2. InStep'
    BY DEF InStep, CrashHub, StopHub, Ended
  <1>3. QED
    BY <1>1, <1>2 DEF LogInv

LEMMA LogStart == HubInit => LogInv
  <1> SUFFICES ASSUME HubInit PROVE LogInv
    OBVIOUS
  <1>1. disk = <<>> /\ disk \in Seq(Events) /\ Len(disk) = 0
    BY DEF HubInit
  <1>2. HubTypeOK
    <2>1. 0 <= MaxEvents
      BY HubAssumption
    <2>2. QED
      BY <1>1, <2>1 DEF HubInit, HubTypeOK
  <1>3. ReadableState(disk).valid
    BY <1>1, ReadableEmpty
  <1>4. QED
    BY <1>1, <1>2, <1>3 DEF HubInit, LogInv, LogTyped, InStep

LEMMA LogKept == LogInv /\ [HubNext]_hubVars => LogInv'
  <1> SUFFICES ASSUME LogInv, [HubNext]_hubVars PROVE LogInv'
    OBVIOUS
  <1>1. CASE \E self \in Pids, alive \in SUBSET Pids : StartHub(self, alive)
    BY <1>1, StartHubStep
  <1>2. CASE \E q \in Requests : AcceptMessage(q) \/ AcceptRegistration(q) \/ AcceptHeartbeat(q)
    BY <1>2, AppendRequestStep
  <1>3. CASE UNCHANGED hubVars
    <2>1. LogTyped'
      BY <1>3 DEF LogInv, LogTyped, HubTypeOK, hubVars
    <2>2. InStep'
      BY <1>3 DEF LogInv, InStep, hubVars
    <2>3. QED
      BY <2>1, <2>2 DEF LogInv
  <1>4. QED
    BY <1>1, <1>2, <1>3, MigrateStep, RehydrateStep, ApplyLiveStep, EndStep, AppendAuditStep DEF HubNext

LEMMA LogShown == LogInv => LogReplays
  <1> SUFFICES ASSUME LogInv PROVE LogReplays
    OBVIOUS
  <1>1. phase = "up" => memory = ReadableState(IF applying THEN Front(disk) ELSE disk)
    <2>1. CASE applying
      <3>1. PICK log \in Seq(Events), e \in Events : disk = Append(log, e) /\ memory = ReadableState(log)
        BY <2>1 DEF LogInv, InStep
      <3>2. Front(disk) = log
        BY <3>1, FrontAndLast
      <3>3. QED
        BY <2>1, <3>1, <3>2
    <2>2. CASE ~applying
      BY <2>2 DEF LogInv, InStep
    <2>3. QED
      BY <2>1, <2>2
  <1>2. QED
    BY <1>1 DEF LogReplays, LogInv, LogTyped

-----------------------------------------------------------------------------
(* The types of the parts that no invariant above holds.                   *)

HubTyped == HubTypeOK /\ disk \in Seq(Events)

LEMMA HubTypeStart == HubInit => HubTyped
  BY LogStart DEF LogInv, LogTyped, HubTyped

LEMMA CommitTyped ==
    ASSUME HubTyped, Ready, NEW e \in Events, NEW onward \in BOOLEAN, Commit(e, onward),
           UNCHANGED <<phase, hubPid, lockRow, memory, refusal>>
    PROVE  HubTyped'
  <1>1. CASE disk' = Append(disk, e) /\ applying' = onward /\ UNCHANGED <<unhealthy, hubFaults>>
    <2>1. disk' \in Seq(Events) /\ Len(disk') = Len(disk) + 1 /\ Len(disk) \in Nat
      BY <1>1, AppendProperties, LenProperties DEF HubTyped
    <2>2. Len(disk') <= MaxEvents
      BY <2>1, HubAssumption DEF Ready
    <2>3. QED
      BY <1>1, <2>1, <2>2 DEF HubTyped, HubTypeOK
  <1>2. CASE unhealthy' = TRUE /\ HubFault /\ UNCHANGED <<disk, applying>>
    BY <1>2 DEF HubTyped, HubTypeOK
  <1>3. QED
    BY <1>1, <1>2 DEF Commit

LEMMA HubTypeKept == HubTyped /\ [HubNext]_hubVars => HubTyped'
  <1> SUFFICES ASSUME HubTyped, [HubNext]_hubVars PROVE HubTyped'
    OBVIOUS
  <1>1. ASSUME NEW self \in Pids, NEW alive \in SUBSET Pids, StartHub(self, alive) PROVE HubTyped'
    BY <1>1, HubAssumption DEF StartHub, HubTyped, HubTypeOK
  <1>2. CASE MigrateLegacy
    <2>1. disk' \in Seq(Events) /\ Len(disk') <= MaxEvents
      <3>1. Len(Legacy) \in Nat
        BY HubAssumption, LenProperties
      <3>2. QED
        BY <1>2, <3>1, HubAssumption DEF MigrateLegacy, HubTyped, HubTypeOK
    <2>2. QED
      BY <1>2, <2>1 DEF MigrateLegacy, HubTyped, HubTypeOK
  <1>3. CASE RehydrateState
    BY <1>3 DEF RehydrateState, HubTyped, HubTypeOK
  <1>4. CASE ApplyLive \/ CrashHub \/ StopHub
    BY <1>4 DEF ApplyLive, CrashHub, StopHub, Ended, HubTyped, HubTypeOK
  <1>5. ASSUME NEW q \in Requests, AcceptMessage(q) \/ AcceptRegistration(q) \/ AcceptHeartbeat(q) PROVE HubTyped'
    <2>1. Ready /\ Commit(q, TRUE) /\ UNCHANGED <<phase, hubPid, lockRow, memory, refusal>> /\ q \in Events
      BY <1>5, HubAssumption DEF AcceptMessage, AcceptRegistration, AcceptHeartbeat, AppendRequest
    <2>2. QED
      BY <2>1, CommitTyped
  <1>6. ASSUME NEW type \in AuditTypes, AppendAudit(type) PROVE HubTyped'
    <2>1. AuditEvent(type) \in Events
      BY DEF AuditEvent, Events
    <2>2. QED
      BY <1>6, <2>1, CommitTyped DEF AppendAudit
  <1>7. CASE UNCHANGED hubVars
    BY <1>7 DEF hubVars, HubTyped, HubTypeOK
  <1>8. QED
    BY <1>1, <1>2, <1>3, <1>4, <1>5, <1>6, <1>7 DEF HubNext

-----------------------------------------------------------------------------
\* At most as many observations wait as there may, and a death counts.
SITyped == SITypeOK /\ siDeaths \in Nat

LEMMA EndsOrGoesOnTyped ==
    ASSUME SITyped, HubEnds \/ HubGoesOn
    PROVE  /\ siHub' \in {"down", "starting", "up"} /\ siDeaths' \in 0..MaxHubDeaths
           /\ siReading' \in [SourceJobs -> 0..MaxObservers] /\ siTodo' \subseteq SourceJobs
  <1>1. CASE HubEnds
    <2>1. 0 \in 0..MaxObservers /\ siDeaths' \in 0..MaxHubDeaths
      BY <1>1, SelfImprovementAssumption DEF HubEnds, SITyped, SITypeOK
    <2>2. QED
      BY <1>1, <2>1 DEF HubEnds
  <1>2. CASE HubGoesOn
    BY <1>2 DEF HubGoesOn, SITyped, SITypeOK
  <1>3. QED
    BY <1>1, <1>2

LEMMA ObservationTyped ==
    ASSUME SITyped, NEW j \in SourceJobs, NEW status, siReading[j] < MaxObservers, Observation(j, status)
    PROVE  siReading' \in [SourceJobs -> 0..MaxObservers]
  <1>1. siReading[j] + 1 \in 0..MaxObservers
    BY SelfImprovementAssumption DEF SITyped, SITypeOK
  <1>2. QED
    BY <1>1 DEF Observation, SITyped, SITypeOK

\* The jobs, bindings and the row have their types by the invariant of the improvement.
LEMMA SITypeOfParts ==
    ASSUME ImprovementInv', siDeaths' \in 0..MaxHubDeaths,
           siReading' \in [SourceJobs -> 0..MaxObservers], siTodo' \subseteq SourceJobs
    PROVE  SITyped'
  BY SelfImprovementAssumption DEF ImprovementInv, ImprovementTyped, PatchStates, SITyped, SITypeOK

LEMMA SITypeKept ==
    ASSUME ImprovementInv, SITyped, [SINext]_siVars
    PROVE  SITyped'
  <1>1. ImprovementInv'
    BY ImprovementKept
  <1> DEFINE Others == /\ siDeaths' \in 0..MaxHubDeaths /\ siReading' \in [SourceJobs -> 0..MaxObservers]
                       /\ siTodo' \subseteq SourceJobs
  <1>2. SUFFICES Others
    BY <1>1, SITypeOfParts
  <1>3. CASE HubEnds \/ HubGoesOn
    BY <1>3, EndsOrGoesOnTyped
  <1>4. ASSUME NEW j \in SourceJobs, NEW status, NEW result, NEW cut \in BOOLEAN, Report(j, status, result, cut)
        PROVE  Others
    <2>1. CASE HubEnds
      BY <2>1, EndsOrGoesOnTyped
    <2>2. CASE Observation(j, status) /\ UNCHANGED <<siTodo, siDeaths>>
      <3>1. siReading[j] < MaxObservers
        BY <1>4 DEF Report
      <3>2. QED
        BY <2>2, <3>1, ObservationTyped DEF SITyped, SITypeOK
    <2>3. QED
      BY <1>4, <2>1, <2>2 DEF Report
  <1>5. ASSUME NEW j \in SourceJobs, ReadArtifacts(j) PROVE Others
    <2>1. siReading[j] \in 0..MaxObservers /\ siReading[j] > 0
      BY <1>5 DEF ReadArtifacts, SITyped, SITypeOK
    <2>2. siReading[j] - 1 \in 0..MaxObservers
      BY <2>1, SelfImprovementAssumption
    <2>3. QED
      BY <1>5, <2>2 DEF ReadArtifacts, SITyped, SITypeOK
  <1>6. ASSUME NEW j \in SourceJobs, Reconcile(j) PROVE Others
    <2>1. siReading[j] < MaxObservers
      BY <1>6, SelfImprovementAssumption DEF Reconcile, Between
    <2>2. QED
      BY <1>6, <2>1, ObservationTyped DEF Reconcile, SITyped, SITypeOK
  <1>7. CASE UNCHANGED <<siDeaths, siReading>> /\ siTodo' \in {siTodo, PendingBindings}
    BY <1>7 DEF PendingBindings, SITyped, SITypeOK
  <1>8. ASSUME NEW j \in SourceJobs, StoreImprovement(j) \/ CompleteTest(j) \/ MarkPromoted(j) PROVE Others
    BY <1>7, <1>8 DEF StoreImprovement, CompleteTest, MarkPromoted
  <1>9. ASSUME NEW j \in SourceJobs, NEW cut, Request(j, cut) PROVE Others
    BY <1>3, <1>9 DEF Request
  <1>10. ASSUME NEW j \in SourceJobs, ApproveSource(j) \/ StopSource(j) PROVE Others
    BY <1>3, <1>10 DEF ApproveSource, StopSource
  <1>11. CASE OwnerPatch \/ CrashSI
    BY <1>3, <1>11 DEF OwnerPatch, CrashSI
  <1>12. CASE StartSI \/ Listen \/ UNCHANGED siVars
    BY <1>7, <1>12 DEF StartSI, Listen, siVars
  <1> HIDE DEF Others
  <1>13. QED
    BY <1>4, <1>5, <1>6, <1>8, <1>9, <1>10, <1>11, <1>12 DEF SINext, Promotion

LEMMA SITypeStart == SIInit => SITyped
  <1>1. 0 \in 0..MaxObservers /\ 0 \in 0..MaxHubDeaths
    BY SelfImprovementAssumption
  <1>2. QED
    BY <1>1 DEF SIInit, SITyped, SITypeOK, NoPatch

-----------------------------------------------------------------------------
CatTyped == CatTypeOK /\ mcp \in [version : Versions \union {NoVersion}, enabled : BOOLEAN]
                       /\ (mcp.enabled => mcp.version # NoVersion)

LEMMA CatTypeStart == CatInit => CatTyped
  <1> SUFFICES ASSUME CatInit PROVE CatTyped
    OBVIOUS
  <1>1. 0 \in 0..MaxRegistrations
    BY CatalogAssumption
  <1>2. mcp \in [version : Versions \union {NoVersion}, enabled : BOOLEAN] /\ ~mcp.enabled
    BY DEF CatInit
  <1>3. QED
    BY <1>1, <1>2 DEF CatInit, CatTyped, CatTypeOK

LEMMA CatTypeKept == CatTyped /\ [CatNext]_catVars => CatTyped'
  <1> SUFFICES ASSUME CatTyped, [CatNext]_catVars PROVE CatTyped'
    OBVIOUS
  <1>1. ASSUME NEW v \in Versions, NEW manifest \in Manifests, NEW cut \in BOOLEAN, RegisterVersion(v, manifest, cut)
        PROVE  CatTyped'
    <2>1. catAt' \in 0..MaxRegistrations
      BY <1>1, CatalogAssumption DEF RegisterVersion, CatTyped, CatTypeOK
    <2>2. QED
      BY <1>1, <2>1 DEF RegisterVersion, CatTyped, CatTypeOK
  <1>2. ASSUME NEW v \in Versions, MarkSandboxVerified(v) \/ FinishMcp(v) PROVE CatTyped'
    BY <1>2 DEF MarkSandboxVerified, FinishMcp, CatTyped, CatTypeOK
  <1>3. ASSUME NEW v \in Versions, RegisterMcp(v) PROVE CatTyped'
    <2>1. catAt' \in 0..MaxRegistrations
      BY <1>3, CatalogAssumption DEF RegisterMcp, CatTyped, CatTypeOK
    <2>2. mcp' = [version |-> v, enabled |-> FALSE]
      BY <1>3 DEF RegisterMcp
    <2>3. QED
      BY <1>3, <2>1, <2>2 DEF RegisterMcp, CatTyped, CatTypeOK
  <1>4. ASSUME NEW on \in BOOLEAN, SwitchMcp(on) PROVE CatTyped'
    BY <1>4 DEF SwitchMcp, CatTyped, CatTypeOK
  <1>5. CASE EnableVersion \/ InvokeMcp
    BY <1>5 DEF EnableVersion, InvokeMcp, CatTyped, CatTypeOK
  <1>6. CASE Rollback
    BY <1>6 DEF Rollback, RollbackTargets, Previous, Versioned, CatTyped, CatTypeOK
  <1>7. CASE UNCHANGED catVars
    BY <1>7 DEF catVars, CatTyped, CatTypeOK
  <1>8. QED
    BY <1>1, <1>2, <1>3, <1>4, <1>5, <1>6, <1>7 DEF CatNext

-----------------------------------------------------------------------------
WorkerRow == [session : 0..LastTurn, prompted : BOOLEAN, used : 0..MaxReplay, alive : BOOLEAN]
RequestRow == [op : Steps, turn : 0..LastTurn] \union {NoRequest}

\* What a worker is asked and holds is of a turn there has been.
PWTyped ==
    /\ PWTypeOK
    /\ pwWorker \in [Workers -> WorkerRow] /\ pwStdin \in [Workers -> RequestRow]

LEMMA AskTyped ==
    ASSUME PWTyped, NEW op \in Steps, NEW turn \in 0..LastTurn, Ask(op, turn)
    PROVE  /\ pwStep' \in Steps \union {"idle", "settle"} /\ pwChild' \in 0..pwSpawned' /\ pwSpawned' \in 0..LastWorker
           /\ pwWorker' \in [Workers -> WorkerRow] /\ pwStdin' \in [Workers -> RequestRow]
  <1> DEFINE w == IF pwChild = 0 THEN pwSpawned + 1 ELSE pwChild
  <1>1. /\ w \in Workers /\ pwStep' = op /\ pwChild' = w
        /\ pwSpawned' = IF pwChild = 0 THEN w ELSE pwSpawned
        /\ pwWorker' = [pwWorker EXCEPT ![w] = [pwWorker[w] EXCEPT !.alive = TRUE]]
        /\ pwStdin' = [pwStdin EXCEPT ![w] = [op |-> op, turn |-> turn]]
    BY DEF Ask
  <1>2. pwChild' \in 0..pwSpawned' /\ pwSpawned' \in 0..LastWorker
    BY <1>1, PiWorkerAssumption DEF PWTyped, PWTypeOK, Workers
  <1> HIDE DEF w
  <1>3. [pwWorker[w] EXCEPT !.alive = TRUE] \in WorkerRow /\ [op |-> op, turn |-> turn] \in RequestRow
    BY <1>1 DEF PWTyped, WorkerRow, RequestRow
  <1>4. QED
    BY <1>1, <1>2, <1>3 DEF PWTyped

\* The turns, the text and the counter are as they were; the rest keeps its type.
LEMMA PWTypeOfParts ==
    ASSUME PWTyped, pwTurn' \in 0..LastTurn, pwText' \in 0..LastTurn,
           pwStep' \in Steps \union {"idle", "settle"}, pwChild' \in 0..pwSpawned', pwSpawned' \in 0..LastWorker,
           pwWorker' \in [Workers -> WorkerRow], pwStdin' \in [Workers -> RequestRow]
    PROVE  PWTyped'
  BY DEF PWTyped, PWTypeOK, WorkerRow

LEMMA TerminateTyped ==
    ASSUME PWTyped, NEW guilty, NEW out, Terminate(guilty, out)
    PROVE  PWTyped'
  <1>1. UNCHANGED <<pwTurn, pwSpawned, pwText>> /\ pwChild' = 0 /\ pwStep' = "idle"
    BY DEF Terminate
  <1>2. \A w \in Workers : [pwWorker[w] EXCEPT !.alive = FALSE] \in WorkerRow
    BY DEF PWTyped, WorkerRow
  <1>3. pwWorker' \in [Workers -> WorkerRow] /\ pwStdin' \in [Workers -> RequestRow]
    <2>1. CASE pwChild = 0
      BY <2>1 DEF Terminate, PWTyped
    <2>2. CASE pwChild # 0
      <3>1. pwChild \in Workers
        BY <2>2, PiWorkerAssumption DEF PWTyped, PWTypeOK, Workers
      <3>2. /\ pwWorker' = [pwWorker EXCEPT ![pwChild] = [pwWorker[pwChild] EXCEPT !.alive = FALSE]]
            /\ pwStdin' = [pwStdin EXCEPT ![pwChild] = NoRequest]
        BY <2>2 DEF Terminate
      <3>3. QED
        BY <1>2, <3>1, <3>2 DEF PWTyped, RequestRow
    <2>3. QED
      BY <2>1, <2>2
  <1>4. pwChild' \in 0..pwSpawned'
    BY <1>1 DEF PWTyped, PWTypeOK
  <1>5. QED
    BY <1>1, <1>3, <1>4, PWTypeOfParts DEF PWTyped, PWTypeOK

LEMMA HandlerTyped ==
    ASSUME PWTyped, UNCHANGED <<pwTurn, pwText>>,
           \/ \E op \in Steps : Ask(op, pwTurn)
           \/ pwStep' \in {"idle", "settle"} /\ UNCHANGED <<pwChild, pwSpawned, pwWorker, pwStdin>>
    PROVE  PWTyped'
  <1>1. pwTurn \in 0..LastTurn
    BY DEF PWTyped, PWTypeOK
  <1>2. /\ pwStep' \in Steps \union {"idle", "settle"} /\ pwChild' \in 0..pwSpawned' /\ pwSpawned' \in 0..LastWorker
        /\ pwWorker' \in [Workers -> WorkerRow] /\ pwStdin' \in [Workers -> RequestRow]
    BY <1>1, AskTyped DEF PWTyped, PWTypeOK
  <1>3. QED
    BY <1>2, PWTypeOfParts DEF PWTyped, PWTypeOK

LEMMA ResponseTyped ==
    ASSUME PWTyped, NEW w, NEW message, NEW out, HandleResponse(w, message, out)
    PROVE  PWTyped'
  <1>1. CASE Terminate(w = pwChild, out) \/ Terminate(FALSE, out)
    BY <1>1, TerminateTyped
  <1>2. CASE (IF message.ok THEN Accepted ELSE Refused) /\ UNCHANGED <<pwTurn, pwText>>
    <2>1. \/ \E op \in Steps : Ask(op, pwTurn)
          \/ pwStep' \in {"idle", "settle"} /\ UNCHANGED <<pwChild, pwSpawned, pwWorker, pwStdin>>
      BY <1>2 DEF Accepted, Refused, Close, Steps
    <2>2. QED
      BY <1>2, <2>1, HandlerTyped
  <1>3. CASE pwStep' = "idle" /\ UNCHANGED <<pwTurn, pwChild, pwSpawned, pwWorker, pwStdin, pwText>>
    BY <1>3, HandlerTyped
  <1>4. QED
    BY <1>1, <1>2, <1>3 DEF HandleResponse

LEMMA EventTyped ==
    ASSUME PWTyped, NEW message, NEW out, HandleEvent(message, out)
    PROVE  PWTyped'
  <1>1. CASE Close(IF pwText = 0 THEN Failed ELSE pwText) /\ UNCHANGED <<pwTurn, pwText>>
    <2>1. \E op \in Steps : Ask(op, pwTurn)
      BY <1>1 DEF Close, Steps
    <2>2. QED
      BY <1>1, <2>1, HandlerTyped
  <1>2. CASE /\ pwText' = IF OfActiveTurn(message) THEN message.turn ELSE pwText
             /\ UNCHANGED <<pwTurn, pwStep, pwChild, pwSpawned, pwWorker, pwStdin>>
    <2>1. pwText' \in 0..LastTurn
      BY <1>2 DEF OfActiveTurn, PWTyped, PWTypeOK
    <2>2. QED
      BY <1>2, <2>1, PWTypeOfParts DEF PWTyped, PWTypeOK
  <1>3. QED
    BY <1>1, <1>2 DEF HandleEvent

LEMMA SuperviseTyped ==
    ASSUME PWTyped, NEW w \in Workers, Supervise(w)
    PROVE  PWTyped'
  <1> DEFINE req == pwStdin[w]
             worker == pwWorker[w]
  <1>1. /\ req \in [op : Steps, turn : 0..LastTurn] /\ worker \in WorkerRow
        /\ NoRequest \in RequestRow /\ 0 \in 0..LastTurn
    BY PiWorkerAssumption DEF PWTyped, RequestRow, Supervise
  <1>2. Performs(worker, req) \in WorkerRow /\ Performs(worker, req).used = worker.used
    <2>1. req.op \in {"ping", "start", "prompt", "close"} /\ req.turn \in 0..LastTurn
      BY <1>1 DEF Steps
    <2> HIDE DEF req, worker
    <2>2. CASE req.op = "ping"
      BY <1>1, <2>2 DEF Performs
    <2>3. CASE req.op = "start"
      BY <1>1, <2>1, <2>3 DEF Performs, WorkerRow
    <2>4. CASE req.op = "prompt"
      BY <1>1, <2>4 DEF Performs, WorkerRow
    <2>5. CASE req.op = "close"
      BY <1>1, <2>5 DEF Performs, WorkerRow
    <2>6. QED
      BY <2>1, <2>2, <2>3, <2>4, <2>5
  <1>3. pwStdin' = [pwStdin EXCEPT ![w] = NoRequest]
        /\ UNCHANGED <<pwTurn, pwStep, pwChild, pwSpawned, pwText>>
    BY DEF Supervise
  <1>4. \/ worker.used < MaxReplay /\ \E row \in {Performs(worker, req), worker} :
             pwWorker' = [pwWorker EXCEPT ![w] = [row EXCEPT !.used = row.used + 1]]
        \/ UNCHANGED pwWorker
    BY DEF Supervise, HasReplayCapacity
  <1> HIDE DEF req, worker
  <1>5. ASSUME NEW row \in WorkerRow, row.used = worker.used, worker.used < MaxReplay
        PROVE  [row EXCEPT !.used = row.used + 1] \in WorkerRow
    <2>1. row.used + 1 \in 0..MaxReplay
      BY <1>1, <1>5, PiWorkerAssumption DEF WorkerRow
    <2>2. QED
      BY <1>5, <2>1 DEF WorkerRow
  <1>6. pwWorker' \in [Workers -> WorkerRow] /\ pwStdin' \in [Workers -> RequestRow]
    BY <1>1, <1>2, <1>3, <1>4, <1>5 DEF PWTyped
  <1>7. QED
    BY <1>3, <1>6, PWTypeOfParts DEF PWTyped, PWTypeOK

LEMMA PWTypeKept == PWTyped /\ [PWNext]_pwVars => PWTyped'
  <1> SUFFICES ASSUME PWTyped, [PWNext]_pwVars PROVE PWTyped'
    OBVIOUS
  <1>1. CASE BeginTurn
    <2>1. pwTurn' \in 0..LastTurn /\ 0 \in 0..LastTurn /\ pwText' = 0
      BY <1>1, PiWorkerAssumption DEF BeginTurn, PWTyped, PWTypeOK
    <2>2. \E op \in Steps : Ask(op, pwTurn')
      BY <1>1 DEF BeginTurn, Steps
    <2>3. PICK op \in Steps : Ask(op, pwTurn')
      BY <2>2
    <2>4. \A turn \in 0..LastTurn : Ask(op, turn) =>
            /\ pwStep' \in Steps \union {"idle", "settle"} /\ pwChild' \in 0..pwSpawned' /\ pwSpawned' \in 0..LastWorker
            /\ pwWorker' \in [Workers -> WorkerRow] /\ pwStdin' \in [Workers -> RequestRow]
      BY AskTyped
    <2>5. /\ pwStep' \in Steps \union {"idle", "settle"} /\ pwChild' \in 0..pwSpawned' /\ pwSpawned' \in 0..LastWorker
          /\ pwWorker' \in [Workers -> WorkerRow] /\ pwStdin' \in [Workers -> RequestRow]
      BY <2>1, <2>3, <2>4
    <2>6. QED
      BY <2>1, <2>5, PWTypeOfParts
  <1>2. CASE Timeout \/ WorkerExits
    BY <1>2, TerminateTyped DEF Timeout, WorkerExits
  <1>3. ASSUME NEW w \in Workers, ReadOutput(w) PROVE PWTyped'
    BY <1>3, TerminateTyped, ResponseTyped, EventTyped DEF ReadOutput
  <1>4. ASSUME NEW w \in Workers, Supervise(w) PROVE PWTyped'
    BY <1>4, SuperviseTyped
  <1>5. ASSUME NEW w \in Workers, NEW texts \in BOOLEAN, PiSettles(w, texts) PROVE PWTyped'
    <2>1. [pwWorker[w] EXCEPT !.prompted = FALSE] \in WorkerRow
      BY DEF PWTyped, WorkerRow
    <2>2. pwWorker' \in [Workers -> WorkerRow] /\ UNCHANGED <<pwTurn, pwStep, pwChild, pwSpawned, pwText, pwStdin>>
      BY <1>5, <2>1 DEF PiSettles, PWTyped
    <2>3. QED
      BY <2>2, PWTypeOfParts DEF PWTyped, PWTypeOK
  <1>6. CASE UNCHANGED pwVars
    BY <1>6, PWTypeOfParts DEF pwVars, PWTyped, PWTypeOK
  <1>7. QED
    BY <1>1, <1>2, <1>3, <1>4, <1>5, <1>6 DEF PWNext

LEMMA PWTypeStart == PWInit => PWTyped
  <1> SUFFICES ASSUME PWInit PROVE PWTyped
    OBVIOUS
  <1>1. 0 \in 0..LastTurn /\ 0 \in 0..LastWorker /\ 0 \in 0..MaxReplay
    BY PiWorkerAssumption
  <1>2. Fresh \in WorkerRow /\ NoRequest \in RequestRow
    BY <1>1 DEF Fresh, WorkerRow, RequestRow
  <1>3. QED
    BY <1>1, <1>2 DEF PWInit, PWTyped, PWTypeOK, WorkerRow

-----------------------------------------------------------------------------
(***************************************************************************)
(* The parts of the Hub and of a node beside each other: a step of the     *)
(* composition is a step of one part, and of every other part a stutter.   *)
(***************************************************************************)
LEMMA PartsStepAlone ==
    ASSUME [MCNext]_partsVars
    PROVE  /\ [StoreLockNext]_storeLockVars
           /\ [HubNext]_hubVars
           /\ [FleetNext]_fleetVars
           /\ [SINext]_siVars
           /\ [CatNext]_catVars
           /\ [PWNext]_pwVars
           /\ [MANext]_maVars
           /\ [SandboxJobNext]_sjVars
           /\ [EnrolmentNext]_neVars
           /\ [WorkspaceListNext]_wlVars
           /\ [NodeReleaseNext]_nrVars
  <1>1. CASE UNCHANGED partsVars
    BY <1>1 DEF partsVars
  <1>2. CASE MCNext
    BY <1>2 DEF MCNext, beside
  <1>3. QED
    BY <1>1, <1>2

\* Nothing of the Owner's is released or enabled without the evidence it needs, for any number
\* of source Jobs and versions (m3-registry.ts, self-improvement-coordinator.ts).
THEOREM NothingIsEnabledUnevidenced == MCSpec => []ExtensionsAreEvidenced
  <1> DEFINE Inv == ImprovementInv /\ VersionsInv
  <1>1. MCInit => Inv
    BY ImprovementStart, VersionsStart DEF MCInit
  <1>2. Inv /\ [MCNext]_partsVars => Inv'
    BY PartsStepAlone, ImprovementKept, VersionsKept
  <1>3. Inv => ExtensionsAreEvidenced
    BY ImprovementShown DEF ExtensionsAreEvidenced, VersionsInv
  <1>4. QED
    BY <1>1, <1>2, <1>3, PTL DEF MCSpec

\* A node keeps its key and a valid list of workspaces, its links name complete releases, a
\* script that was alone and failed has put back what it found, and link and unit are of one
\* release until a kill, a broken rollback or a second script at work, for any number of
\* processes, directories and releases.
THEOREM NodesKeepTheirState == MCSpec => []NodeKeepsItsState
  <1> DEFINE Inv == KeyInv /\ ListInv /\ ReleaseInv
  <1>1. MCInit => Inv
    BY KeyStart, ListStart, ReleaseStart DEF MCInit
  <1>2. Inv /\ [MCNext]_partsVars => Inv'
    BY PartsStepAlone, KeyKept, ListKept, ReleaseKept
  <1>3. Inv => NodeKeepsItsState
    BY ReleaseShown DEF NodeKeepsItsState, KeyInv, ListInv, ValidList, ListStaysValid
  <1>4. QED
    BY <1>1, <1>2, <1>3, PTL DEF MCSpec

\* The running Hub has in memory what its log replays to, whatever ended, failed, was refused
\* or sent again, and nothing but an event of a type apply does not know makes a log
\* unreadable that began as a readable one, for any requests, audit events and earlier logs
\* (state.ts, sqlite-event-store.ts, server.ts l.629, l.2326-2480).
THEOREM LogsReplay == MCSpec => []LogReplays
  <1>1. MCInit => LogInv
    BY LogStart DEF MCInit
  <1>2. LogInv /\ [MCNext]_partsVars => LogInv'
    BY PartsStepAlone, LogKept
  <1>3. QED
    BY <1>1, <1>2, LogShown, PTL DEF MCSpec

\* The state of every part has its type, for any bounds.
THEOREM PartsTypesCorrect == MCSpec => []PartsTypeOK
  <1> DEFINE Inv == /\ LockInv
                    /\ HubTyped
                    /\ FleetInv
                    /\ ImprovementInv
                    /\ SITyped
                    /\ CatTyped
                    /\ PWTyped
                    /\ BrokerInv
                    /\ SandboxInv
                    /\ KeyInv
                    /\ WorkspaceListTypeOK
                    /\ NRTyped
  <1>1. MCInit => Inv
    BY InitLockInv, HubTypeStart, FleetStart, ImprovementStart, SITypeStart, CatTypeStart,
       PWTypeStart, BrokerInitInv, SandboxInitInv, KeyStart, ListTypeStart, NRTypeStart
       DEF MCInit
  <1>2. Inv /\ [MCNext]_partsVars => Inv'
    <2> SUFFICES ASSUME Inv, [MCNext]_partsVars
                 PROVE  Inv'
      OBVIOUS
    <2>1. LockInv'
      BY PartsStepAlone, NextLockInv
    <2>2. HubTyped'
      BY PartsStepAlone, HubTypeKept
    <2>3. FleetInv'
      BY PartsStepAlone, FleetKept
    <2>4. ImprovementInv' /\ SITyped'
      BY PartsStepAlone, ImprovementKept, SITypeKept
    <2>5. CatTyped'
      BY PartsStepAlone, CatTypeKept
    <2>6. PWTyped'
      BY PartsStepAlone, PWTypeKept
    <2>7. BrokerInv'
      BY PartsStepAlone, BrokerStepInv
    <2>8. SandboxInv'
      BY PartsStepAlone, SandboxStepInv
    <2>9. KeyInv'
      BY PartsStepAlone, KeyKept
    <2>10. WorkspaceListTypeOK'
      BY PartsStepAlone, ListTypeKept
    <2>11. NRTyped'
      BY PartsStepAlone, NRTypeKept
    <2>12. QED
      BY <2>1, <2>2, <2>3, <2>4, <2>5, <2>6, <2>7, <2>8, <2>9, <2>10, <2>11
  <1>3. Inv => PartsTypeOK
    <2>1. LockInv => StoreLockTypeOK
      BY DEF LockInv
    <2>2. BrokerInv => MATypeOK
      BY DEF BrokerInv, BrokerType, MATypeOK
    <2>3. KeyInv => EnrolmentTypeOK
      BY DEF KeyInv, Beside, EnrolmentTypeOK, ProcState, AtWork
    <2>4. QED
      BY <2>1, <2>2, <2>3 DEF PartsTypeOK, HubTyped, FleetInv, SITyped, CatTyped, PWTyped,
         SandboxInv, NRTyped
  <1>4. QED
    BY <1>1, <1>2, <1>3, PTL DEF MCSpec
=============================================================================
