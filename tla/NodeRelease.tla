------------------------------ MODULE NodeRelease ------------------------------
(* Releases on a node: fridayctl builds one, copies it over SSH and runs a      *)
(* script that installs the Runner, upgrades it, or installs the sandbox        *)
(* daemon.  A script stores the release, saves what it is about to change,      *)
(* changes it step by step, restarts the services and looks at them; an error   *)
(* or a signal makes it put everything back, a kill does not.  fridayctl gives  *)
(* up after a while and its script goes on, so that two may be at work.         *)
EXTENDS Integers, Sequences
CONSTANTS Sessions,          \* runs of fridayctl
          Releases,          \* releases
          WorkingReleases,   \* those whose service stays up
          NoRelease,         \* no release
          MaxReleaseSteps    \* bound: scripts begun, failed and killed, twice for one begun beside another
ASSUME NodeReleaseAssumption == /\ NoRelease \notin Releases /\ WorkingReleases \subseteq Releases
                                /\ MaxReleaseSteps \in Nat
VARIABLES nrFiles,    \* link `current', unit file, environment (without or with the socket), sandbox link
          nrStored,   \* complete releases in the store
          nrRuns,     \* the release the Runner service runs
          nrDevice,   \* Runner id in the device file, 0 for none
          nrEnrolled, \* the device file says enrolled
          nrScripts,  \* session -> its script
          nrTorn,     \* history: what a kill, a failed rollback or a second script at work left,
                      \* until a script that is at work alone installs a Runner
          nrSteps
nrVars == <<nrFiles, nrStored, nrRuns, nrDevice, nrEnrolled, nrScripts, nrTorn, nrSteps>>
RunnerReleases == {"runner"} \X Releases
SandboxReleases == {"sandbox"} \X Releases
Stopped == [is |-> "stopped", release |-> NoRelease]
Stays(release) == release \in {"runner", "sandbox"} \X WorkingReleases
Service(files) == [is |-> IF files.unit # NoRelease /\ Stays(files.link) THEN "active" ELSE "failed",
                   release |-> files.link]
NoScript == [does |-> "nothing", at |-> "off"]
NodeReleaseInit ==
  /\ nrFiles = [link |-> NoRelease, unit |-> NoRelease, env |-> "none", box |-> NoRelease]
  /\ nrStored = {} /\ nrRuns = Stopped /\ nrDevice = 0 /\ nrEnrolled = FALSE
  /\ nrScripts = [s \in Sessions |-> NoScript] /\ nrTorn = FALSE /\ nrSteps = 0
ReleaseSteps(n) == nrSteps + n <= MaxReleaseSteps /\ nrSteps' = nrSteps + n
ReleaseStep == ReleaseSteps(1)
ScriptOver(script) == script.at \in {"off", "done", "failed", "broken"}
Goes(s, at) == nrScripts' = [nrScripts EXCEPT ![s].at = at]

(* What a script changes, in its order. *)
Changes == [bootstrap |-> <<"link", "env", "unit">>, upgrade |-> <<"link", "unit">>, sandbox |-> <<"socket", "box">>]
Changed(files, what, release) ==
  CASE what \in {"link", "unit", "box"} -> [files EXCEPT ![what] = release]
    [] what = "env" -> [files EXCEPT !.env = "plain"]
    [] what = "socket" -> [files EXCEPT !.env = "bound"]

(* The id a bootstrap carries: that of a new enrolment, or the node's own from a *)
(* handoff file that is still there.  No lock keeps two scripts apart: a script  *)
(* is alone while no other was at work since it began.                           *)
NewEnrolment == nrSteps + 1
HandoffEnrolment == {nrDevice} \ {0}
Begin(s, does, release, id) ==
  LET alone == \A t \in Sessions : ScriptOver(nrScripts[t]) IN
  /\ ReleaseSteps(IF alone THEN 1 ELSE 2) /\ ScriptOver(nrScripts[s])
  /\ nrScripts' = [t \in Sessions |->
       IF t = s THEN [does |-> does, release |-> release, id |-> id, at |-> "unpack", step |-> 1, found |-> nrFiles,
                      saved |-> nrFiles, was |-> nrRuns.is, alone |-> alone]
       ELSE IF ScriptOver(nrScripts[t]) THEN NoScript ELSE [nrScripts[t] EXCEPT !.alone = FALSE]]
  /\ nrTorn' = (nrTorn \/ ~alone)
  /\ UNCHANGED <<nrFiles, nrStored, nrRuns, nrDevice, nrEnrolled>>
BootstrapRunner(s) ==
  \E release \in RunnerReleases, id \in {NewEnrolment} \union HandoffEnrolment : Begin(s, "bootstrap", release, id)
(* The preflight and the first lines of the script. *)
Upgradable == nrFiles.link # NoRelease /\ nrEnrolled /\ nrFiles.env = "bound" /\ nrRuns.is = "active"
UpgradeRunner(s) == \E release \in RunnerReleases : Upgradable /\ Begin(s, "upgrade", release, nrDevice)
InstallSandbox(s) ==
  \E release \in SandboxReleases : nrFiles.env # "none" /\ nrEnrolled /\ Begin(s, "sandbox", release, nrDevice)
(* The archive is unpacked beside the store and moved into it, unless the       *)
(* release is there already.                                                    *)
Unpack(s) == /\ nrScripts[s].at = "unpack" /\ nrStored' = nrStored \union {nrScripts[s].release}
             /\ Goes(s, IF nrScripts[s].does = "bootstrap" THEN "enrol" ELSE "save")
             /\ UNCHANGED <<nrFiles, nrRuns, nrDevice, nrEnrolled, nrTorn, nrSteps>>
(* friday-runner --once: the device file, once made, keeps its Runner id.  A     *)
(* device that is enrolled leaves the token file where it is, which ends the     *)
(* script, and so does another id.                                               *)
EnrolNode(s) == LET takes == ~nrEnrolled /\ nrDevice \in {0, nrScripts[s].id} IN
                /\ nrScripts[s].at = "enrol" /\ Goes(s, IF takes THEN "save" ELSE "failed")
                /\ nrDevice' = (IF takes THEN nrScripts[s].id ELSE nrDevice) /\ nrEnrolled' = (nrEnrolled \/ takes)
                /\ UNCHANGED <<nrFiles, nrStored, nrRuns, nrTorn, nrSteps>>
(* It may also get as far as the device file, or the enrolment, and no further.  *)
EnrolledHalfway(s) ==
  \/ UNCHANGED <<nrDevice, nrEnrolled>>
  \/ /\ nrScripts[s].at = "enrol" /\ ~nrEnrolled /\ nrDevice \in {0, nrScripts[s].id}
     /\ nrDevice' = nrScripts[s].id /\ nrEnrolled' \in BOOLEAN
(* The upgrade has read the link before it unpacked. *)
SaveFiles(s) ==
  LET saved == IF nrScripts[s].does = "upgrade" THEN [nrFiles EXCEPT !.link = nrScripts[s].saved.link] ELSE nrFiles IN
  /\ nrScripts[s].at = "save"
  /\ nrScripts' = [nrScripts EXCEPT ![s].at = "change", ![s].saved = saved, ![s].was = nrRuns.is]
  /\ UNCHANGED <<nrFiles, nrStored, nrRuns, nrDevice, nrEnrolled, nrTorn, nrSteps>>
ChangeFile(s) ==
  LET script == nrScripts[s]
      changes == Changes[script.does] IN
  /\ script.at = "change" /\ nrFiles' = Changed(nrFiles, changes[script.step], script.release)
  /\ nrScripts' = [nrScripts EXCEPT ![s].step = @ + 1, ![s].at = IF script.step = Len(changes) THEN "start" ELSE @]
  /\ UNCHANGED <<nrStored, nrRuns, nrDevice, nrEnrolled, nrTorn, nrSteps>>
(* enable --now of the bootstrap leaves a service that runs as it is. *)
StartService(s) ==
  /\ nrScripts[s].at = "start" /\ Goes(s, "verify")
  /\ nrRuns' = IF nrScripts[s].does = "bootstrap" /\ nrRuns.is = "active" THEN nrRuns ELSE Service(nrFiles)
  /\ UNCHANGED <<nrFiles, nrStored, nrDevice, nrEnrolled, nrTorn, nrSteps>>
VerifyRelease(s) ==
  LET script == nrScripts[s]
      holds == /\ nrRuns.is = "active"
               /\ script.does = "upgrade" => nrFiles.link = script.release
               /\ script.does = "sandbox" => Stays(script.release) IN
  /\ script.at = "verify" /\ Goes(s, IF holds THEN "done" ELSE "undo")
  /\ nrTorn' = (nrTorn /\ ~(holds /\ script.alone /\ script.does # "sandbox"))
  /\ UNCHANGED <<nrFiles, nrStored, nrRuns, nrDevice, nrEnrolled, nrSteps>>
(* A command fails, or a signal is caught. *)
StepFails(s) ==
  /\ ReleaseStep /\ nrScripts[s].at \in {"unpack", "enrol", "save", "change", "start", "verify"}
  /\ Goes(s, IF nrScripts[s].at \in {"unpack", "enrol", "save"} THEN "failed" ELSE "undo")
  /\ EnrolledHalfway(s) /\ UNCHANGED <<nrFiles, nrStored, nrRuns, nrTorn>>
(* Only the upgrade and the bootstrap write the link and the unit of the Runner. *)
RestoredBy(script, files) ==
  [what \in DOMAIN files |->
     IF what \in (IF script.does = "sandbox" THEN {"env", "box"}
                  ELSE IF script.does = "upgrade" THEN {"link", "unit"} ELSE {"link", "unit", "env"})
     THEN script.saved[what] ELSE files[what]]
(* rollback_activation: the files, then the service as it was. *)
Undo(s) ==
  /\ nrScripts[s].at = "undo" /\ nrFiles' = RestoredBy(nrScripts[s], nrFiles) /\ Goes(s, "failed")
  /\ nrRuns' = IF nrScripts[s].was = "active" THEN Service(nrFiles') ELSE Stopped
  /\ UNCHANGED <<nrStored, nrDevice, nrEnrolled, nrTorn, nrSteps>>
(* A command of the rollback fails, or a kill ends it: the rest is left undone.  *)
RestoredInPart(s) ==
  \E kept \in SUBSET DOMAIN nrFiles :
    nrFiles' = [what \in DOMAIN nrFiles |->
                  IF what \in kept THEN nrFiles[what] ELSE RestoredBy(nrScripts[s], nrFiles)[what]]
Tears(script) == script.does # "sandbox" /\ script.at \in {"change", "undo"}
UndoFails(s) ==
  /\ nrScripts[s].at = "undo" /\ ReleaseStep /\ RestoredInPart(s) /\ Goes(s, "broken")
  /\ nrTorn' = (nrTorn \/ Tears(nrScripts[s]))
  /\ UNCHANGED <<nrStored, nrRuns, nrDevice, nrEnrolled>>
(* A kill, or the node loses its power. *)
ScriptKilled(s) ==
  /\ ~ScriptOver(nrScripts[s]) /\ ReleaseStep /\ nrScripts' = [nrScripts EXCEPT ![s] = NoScript]
  /\ IF nrScripts[s].at = "undo" THEN RestoredInPart(s) ELSE UNCHANGED nrFiles
  /\ nrTorn' = (nrTorn \/ Tears(nrScripts[s]))
  /\ EnrolledHalfway(s) /\ UNCHANGED <<nrStored, nrRuns>>
(* The node starts again: the service starts from the link. *)
NodeReboots == /\ ReleaseStep /\ nrRuns.is # "stopped" /\ \A s \in Sessions : ScriptOver(nrScripts[s])
               /\ nrRuns' = Service(nrFiles)
               /\ UNCHANGED <<nrFiles, nrStored, nrDevice, nrEnrolled, nrScripts, nrTorn>>
NodeReleaseNext ==
  \/ NodeReboots
  \/ \E s \in Sessions : \/ BootstrapRunner(s) \/ UpgradeRunner(s) \/ InstallSandbox(s) \/ Unpack(s) \/ EnrolNode(s) \/ SaveFiles(s) \/ ChangeFile(s)
                         \/ StartService(s) \/ VerifyRelease(s) \/ StepFails(s) \/ Undo(s) \/ UndoFails(s) \/ ScriptKilled(s)
NodeReleaseSpec == NodeReleaseInit /\ [][NodeReleaseNext]_nrVars
-----------------------------------------------------------------------------
(* Every variable keeps its type. *)
NodeReleaseTypeOK ==
  /\ nrFiles \in [link : RunnerReleases \union {NoRelease}, unit : RunnerReleases \union {NoRelease},
                  env : {"none", "plain", "bound"}, box : SandboxReleases \union {NoRelease}]
  /\ nrStored \subseteq RunnerReleases \union SandboxReleases /\ nrDevice \in 0..MaxReleaseSteps
  /\ nrEnrolled \in BOOLEAN /\ nrTorn \in BOOLEAN /\ nrSteps \in 0..MaxReleaseSteps
  /\ nrRuns \in [is : {"stopped", "active", "failed"}, release : RunnerReleases \union {NoRelease}]
  /\ \A s \in Sessions : nrScripts[s].at \in {"off", "unpack", "enrol", "save", "change", "start", "verify",
                                              "undo", "done", "failed", "broken"}
(* What a node may rely on, although nothing keeps two scripts apart and any of *)
(* them may be killed: a link names a complete release, always.  A script that  *)
(* was alone at work and says it failed, with its rollback complete, left the   *)
(* files as it found them, whatever step failed; one that says it succeeded     *)
(* left all of them at its release, an upgrade with the service running it.     *)
(* And between scripts link and unit are of one release, until a kill between   *)
(* two changes, a rollback that fails or a second script at work: what these    *)
(* leave may be of two releases, and stays so through later failures, until a   *)
(* script that is alone succeeds (upgrade-managed-runner.sh,                    *)
(* install-managed-runner.sh, install-managed-sandboxd.sh, upgradeRunner).      *)
ReleaseIsWhole ==
  /\ {nrFiles.link, nrFiles.box} \subseteq nrStored \union {NoRelease}
  /\ \A s \in Sessions : nrScripts[s].at # "off" /\ nrScripts[s].alone => LET script == nrScripts[s] IN
       /\ script.at = "failed" => nrFiles = script.found
       /\ script.at = "done" =>
            IF script.does = "sandbox" THEN nrFiles.env = "bound" /\ nrFiles.box = script.release
            ELSE nrFiles.link = script.release /\ nrFiles.unit = script.release
       /\ script.at = "done" /\ script.does = "upgrade" => nrRuns = [is |-> "active", release |-> script.release]
  /\ ~nrTorn /\ (\A s \in Sessions : ScriptOver(nrScripts[s])) => nrFiles.link = nrFiles.unit
=============================================================================
