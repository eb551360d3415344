------------------------------ MODULE SandboxJob ------------------------------
(* A job of a professional tool (codex, pi, claude) on a node: the Runner pulls *)
(* it, prepares a worktree, asks the sandbox daemon to run one container in it, *)
(* and uploads the diff and the test evidence.  The Runner, the daemon and the  *)
(* container end separately; requests and answers are lost; the lease runs out. *)
(* The Hub is reduced to the row of the job, its events and its artifacts; the  *)
(* operation of the job is develop or test.                                     *)
EXTENDS Integers, Sequences
CONSTANTS MaxSandboxLease,    \* bound: leases 1..MaxSandboxLease of the job
          MaxSandboxFaults    \* bound: crashes, lost messages and timeouts
ASSUME SandboxJobAssumption == MaxSandboxLease \in Nat \ {0} /\ MaxSandboxFaults \in Nat
VARIABLES sjHub,      \* state, lease, whether that still runs, last event, artifacts
          sjRunner,   \* what the Runner does, under which lease, its next event
          sjTree,     \* the worktree: absent, clean or changed
          sjRun,      \* the container: where it is, whether its client listens, ...
          sjRuns,     \* containers asked for so far
          sjDaemon,   \* the sandbox daemon is running
          sjFaults
sjVars == <<sjHub, sjRunner, sjTree, sjRun, sjRuns, sjDaemon, sjFaults>>
Terminal == {"SUCCEEDED", "FAILED", "CANCELLED"}
Resting == [at |-> "idle", lease |-> 0, seq |-> 0]
NoRun == [at |-> "none", heard |-> FALSE, answered |-> FALSE, ok |-> FALSE]
SandboxJobInit ==
  /\ sjHub = [state |-> "DISPATCHED", lease |-> 1, live |-> TRUE, last |-> -1, stored |-> {}, named |-> {}]
  /\ sjRunner = Resting /\ sjTree = "absent" /\ sjRun = NoRun /\ sjRuns = 0
  /\ sjDaemon = TRUE /\ sjFaults = 0
SandboxFault == sjFaults < MaxSandboxFaults /\ sjFaults' = sjFaults + 1

-----------------------------------------------------------------------------
(* The Runner.  A request is sent again once; what it asked may then be done    *)
(* without the Runner hearing of it (an upload made by the lost attempt is      *)
(* refused the second time), or not be done at all.  An error is reported to    *)
(* the Hub; an error of that report is only printed.                            *)
Leased == sjHub.live /\ sjHub.lease = sjRunner.lease
Onward(next) == [sjRunner EXCEPT !.at = next]
(* Faulty variant: an upload that failed is passed over.                        *)
PassOver(runner) == IF runner.at \in {"error", "failed", "reconcile"} THEN Resting
                    ELSE [runner EXCEPT !.at = IF @ \in {"upload diff", "upload evidence"} THEN "success" ELSE "error"]
Fail(runner) == IF runner.at \in {"error", "failed", "reconcile"} THEN Resting
                ELSE [runner EXCEPT !.at = "error"]
Exchange(at, next, allowed, hub, runner) ==
  /\ sjRunner.at = at /\ UNCHANGED <<sjTree, sjRun, sjRuns, sjDaemon>>
  /\ \/ allowed /\ sjHub' = hub /\ UNCHANGED sjFaults
        /\ sjRunner' = IF next = "idle" THEN Resting ELSE [runner EXCEPT !.at = next]
     \/ allowed /\ sjHub' = hub /\ sjRunner' = Fail(runner) /\ SandboxFault
     \/ ~allowed /\ sjRunner' = Fail(runner) /\ UNCHANGED <<sjHub, sjFaults>>
     \/ sjRunner' = Fail(runner) /\ SandboxFault /\ UNCHANGED sjHub
(* An event has the next number whether or not the one before it arrived.       *)
SendEvent(at, next, allowed, hub) ==
  Exchange(at, next, allowed /\ Leased /\ sjRunner.seq = sjHub.last + 1, [hub EXCEPT !.last = sjRunner.seq],
      [sjRunner EXCEPT !.seq = @ + 1])
ReportState(at, next, state, from) == SendEvent(at, next, sjHub.state \in from, [sjHub EXCEPT !.state = state])
(* pull: an expired lease is replaced. *)
PullSandbox ==
  /\ sjRunner.at = "idle" /\ sjHub.state = "DISPATCHED" /\ (sjHub.live \/ sjHub.lease < MaxSandboxLease)
  /\ LET lease == IF sjHub.live THEN sjHub.lease ELSE sjHub.lease + 1 IN
     /\ sjHub' = [sjHub EXCEPT !.lease = lease, !.live = TRUE]
     /\ \/ sjRunner' = [Resting EXCEPT !.at = "prepare", !.lease = lease] /\ UNCHANGED sjFaults
        \/ SandboxFault /\ UNCHANGED sjRunner
  /\ UNCHANGED <<sjTree, sjRun, sjRuns, sjDaemon>>
(* prepare: a worktree that exists is not used again. *)
Prepare == /\ sjRunner.at = "prepare"
           /\ IF sjTree = "absent" THEN sjTree' = "clean" /\ sjRunner' = Onward("running")
              ELSE sjRunner' = Onward("reconcile") /\ UNCHANGED sjTree
           /\ UNCHANGED <<sjHub, sjRun, sjRuns, sjDaemon, sjFaults>>
ReportUnknown == Exchange("reconcile", "idle", Leased,
               [sjHub EXCEPT !.state = IF @ \in {"RUNNING", "DISPATCHED"} THEN "RECONCILING" ELSE @], sjRunner)
ReportRunning == ReportState("running", "access", "RUNNING", {"DISPATCHED", "RECONCILING"})
Active == Leased /\ sjHub.state \notin Terminal
AskModelAccess == Exchange("access", "execute", Active, sjHub, sjRunner)
Execute ==
  /\ sjRunner.at = "execute"
  /\ IF sjDaemon
     THEN /\ sjRun' = [NoRun EXCEPT !.at = "asked", !.heard = TRUE] /\ sjRuns' = sjRuns + 1
          /\ sjRunner' = Onward("wait")
     ELSE sjRunner' = Fail(sjRunner) /\ UNCHANGED <<sjRun, sjRuns>>
  /\ UNCHANGED <<sjHub, sjTree, sjDaemon, sjFaults>>
(* The deadline of the Runner, above that of the container. *)
RunnerTimesOut == /\ sjRunner.at = "wait" /\ SandboxFault /\ sjRunner' = Fail(sjRunner)
                  /\ sjRun' = [sjRun EXCEPT !.heard = FALSE]
                  /\ UNCHANGED <<sjHub, sjTree, sjRuns, sjDaemon>>
AfterRun == IF sjRun.ok THEN "diff" ELSE "error"
ReportOutput == SendEvent("output", AfterRun, TRUE, sjHub)
NothingPrinted == /\ sjRunner.at = "output" /\ sjRunner' = Onward(AfterRun)
                  /\ UNCHANGED <<sjHub, sjTree, sjRun, sjRuns, sjDaemon, sjFaults>>
CollectDiff == /\ sjRunner.at = "diff" /\ sjRunner' = Onward(IF sjTree = "clean" THEN "success" ELSE "upload diff")
               /\ UNCHANGED <<sjHub, sjTree, sjRun, sjRuns, sjDaemon, sjFaults>>
Upload(artifact, at, next) == Exchange(at, next, Active, [sjHub EXCEPT !.stored = @ \union {artifact}], sjRunner)
Name(artifact, at, next) == SendEvent(at, next, TRUE, [sjHub EXCEPT !.named = @ \union {artifact}])
ReportArtifacts ==
  \/ Upload("diff", "upload diff", "name diff") \/ Name("diff", "name diff", "upload evidence")
  \/ Upload("evidence", "upload evidence", "name evidence") \/ Name("evidence", "name evidence", "success")
ReportSuccess == ReportState("success", "idle", "SUCCEEDED", {"RUNNING", "RECONCILING"})
ReportError == SendEvent("error", "failed", TRUE, sjHub)
ReportFailure == ReportState("failed", "idle", "FAILED", {"RUNNING", "RECONCILING"})
SandboxRunnerEnds == /\ SandboxFault /\ sjRunner' = Resting
                     /\ sjRun' = [sjRun EXCEPT !.heard = FALSE]
                     /\ UNCHANGED <<sjHub, sjTree, sjRuns, sjDaemon>>

-----------------------------------------------------------------------------
(* The daemon and the container.  A request is not dropped when its client is  *)
(* gone: the container is started and runs on.                                 *)
RunStep(from, to) == /\ sjDaemon /\ sjRun.at = from /\ sjRun' = [sjRun EXCEPT !.at = to]
                     /\ UNCHANGED <<sjHub, sjRunner, sjTree, sjRuns, sjDaemon, sjFaults>>
Validate == sjHub.live /\ RunStep("asked", "relay")
Launch == RunStep("relay", "container")
(* Only a live grant of a running relay reaches the model. *)
RelayAnswers == /\ sjDaemon /\ sjRun.at = "container" /\ sjHub.live /\ ~sjRun.answered
                /\ sjRun' = [sjRun EXCEPT !.answered = TRUE]
                /\ UNCHANGED <<sjHub, sjRunner, sjTree, sjRuns, sjDaemon, sjFaults>>
(* A tracked file changes; git diff leaves out the files a run creates. *)
ContainerWrites == /\ sjRun.at \in {"container", "orphan"} /\ sjRun.answered /\ sjTree' = "changed"
                   /\ UNCHANGED <<sjHub, sjRunner, sjRun, sjRuns, sjDaemon, sjFaults>>
ContainerEnds == /\ sjRun.at = "container" /\ sjDaemon
                 /\ \E ok \in {FALSE, sjRun.answered} : sjRun' = [sjRun EXCEPT !.at = "closing", !.ok = ok]
                 /\ UNCHANGED <<sjHub, sjRunner, sjTree, sjRuns, sjDaemon, sjFaults>>
OrphanEnds == /\ sjRun.at = "orphan" /\ sjRun' = [sjRun EXCEPT !.at = "over"]
              /\ UNCHANGED <<sjHub, sjRunner, sjTree, sjRuns, sjDaemon, sjFaults>>
(* A request refused by the checks, the image or the relay answers as well. *)
Refuse == sjRun.at \in {"asked", "relay"} /\ RunStep(sjRun.at, "closing")
Respond == /\ sjDaemon /\ sjRun.at = "closing" /\ sjRun' = [sjRun EXCEPT !.at = "over", !.heard = FALSE]
           /\ sjRunner' = IF sjRun.heard THEN [sjRunner EXCEPT !.at = "output"] ELSE sjRunner
           /\ UNCHANGED <<sjHub, sjTree, sjRuns, sjDaemon, sjFaults>>
(* The daemon's end leaves the container to Docker, and its client an error. *)
DaemonEnds == /\ sjDaemon /\ SandboxFault /\ sjDaemon' = FALSE
              /\ sjRun' = [sjRun EXCEPT !.heard = FALSE,
                             !.at = CASE @ = "container" -> "orphan" [] @ = "none" -> "none" [] OTHER -> "over"]
              /\ sjRunner' = IF sjRun.heard THEN Fail(sjRunner) ELSE sjRunner
              /\ UNCHANGED <<sjHub, sjTree, sjRuns>>
DaemonStarts == ~sjDaemon /\ sjDaemon' = TRUE /\ UNCHANGED <<sjHub, sjRunner, sjTree, sjRun, sjRuns, sjFaults>>
(* The Owner cancels; the lease runs out. *)
CancelSandbox == /\ sjHub.state \notin Terminal /\ sjHub' = [sjHub EXCEPT !.state = "CANCELLED"]
                 /\ UNCHANGED <<sjRunner, sjTree, sjRun, sjRuns, sjDaemon, sjFaults>>
LeaseRunsOut == /\ sjHub.live /\ sjHub' = [sjHub EXCEPT !.live = FALSE]
                /\ UNCHANGED <<sjRunner, sjTree, sjRun, sjRuns, sjDaemon, sjFaults>>
SandboxJobNext ==
  \/ PullSandbox \/ Prepare \/ ReportUnknown \/ ReportRunning \/ AskModelAccess \/ Execute \/ RunnerTimesOut
  \/ ReportOutput \/ NothingPrinted \/ CollectDiff \/ ReportArtifacts \/ ReportSuccess \/ ReportError
  \/ ReportFailure \/ SandboxRunnerEnds \/ Validate \/ Launch \/ RelayAnswers \/ ContainerWrites
  \/ ContainerEnds \/ OrphanEnds \/ Refuse \/ Respond \/ DaemonEnds \/ DaemonStarts \/ CancelSandbox
  \/ LeaseRunsOut
SandboxJobSpec == SandboxJobInit /\ [][SandboxJobNext]_sjVars
-----------------------------------------------------------------------------
RunnerPlaces == {"idle", "prepare", "reconcile", "running", "access", "execute", "wait", "output",
                 "diff", "upload diff", "name diff", "upload evidence", "name evidence", "success",
                 "error", "failed"}
(* Every variable keeps its type. *)
SandboxTypeOK ==
  /\ sjHub \in [state : Terminal \union {"DISPATCHED", "RUNNING", "RECONCILING"}, lease : 1..MaxSandboxLease,
                live : BOOLEAN, last : Int, stored : SUBSET {"diff", "evidence"},
                named : SUBSET {"diff", "evidence"}]
  /\ sjRunner \in [at : RunnerPlaces, lease : 0..MaxSandboxLease, seq : Nat]
  /\ sjTree \in {"absent", "clean", "changed"} /\ sjRuns \in Nat /\ sjDaemon \in BOOLEAN
  /\ sjRun \in [at : {"none", "asked", "relay", "container", "orphan", "closing", "over"},
                heard : BOOLEAN, answered : BOOLEAN, ok : BOOLEAN]
  /\ sjFaults \in 0..MaxSandboxFaults
(* The worktree of a professional job is given to one container, through every  *)
(* crash, lost message and renewed lease; and a job succeeded on the word of    *)
(* that container, which is over, with the diff and the evidence of every       *)
(* tracked file it changed kept by the Hub (runner.ts #pullAndExecute,          *)
(* GitWorktreeManager prepare, runSandboxJob).                                  *)
SuccessIsOfOneRun ==
  /\ sjRuns <= 1
  /\ sjHub.state = "SUCCEEDED" =>
       /\ sjRuns = 1 /\ sjRun.at = "over" /\ sjRun.ok
       /\ sjTree = "changed" => {"diff", "evidence"} \subseteq sjHub.stored \intersect sjHub.named
=============================================================================
