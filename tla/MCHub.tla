-------------------------------- MODULE MCHub --------------------------------
(* The components inside the Hub, and those on a node, checked one at a time in *)
(* one run: a behaviour belongs to the component it picks at the start, and the *)
(* variables of the others stay as they are.                                    *)
EXTENDS StoreLock, HubState, ChannelFleet, SelfImprovement, SignedCatalog, PiWorker, ModelAccess,
        SandboxJob, NodeEnrolment, WorkspaceList, NodeRelease
VARIABLE component
partsVars == <<component, storeLockVars, hubVars, fleetVars, siVars, catVars, pwVars, maVars,
              sjVars, neVars, wlVars, nrVars>>
beside(which) ==
  /\ component = which
  /\ UNCHANGED component
  /\ which # "lock" => UNCHANGED storeLockVars
  /\ which # "state" => UNCHANGED hubVars
  /\ which # "fleet" => UNCHANGED fleetVars
  /\ which # "improvement" => UNCHANGED siVars
  /\ which # "catalog" => UNCHANGED catVars
  /\ which # "worker" => UNCHANGED pwVars
  /\ which # "access" => UNCHANGED maVars
  /\ which # "sandbox" => UNCHANGED sjVars
  /\ which # "enrolment" => UNCHANGED neVars
  /\ which # "workspaces" => UNCHANGED wlVars
  /\ which # "releases" => UNCHANGED nrVars

(* A Runner that registers, registers again earlier and sends heartbeats, two of *)
(* them with one id; a message, and one of the earlier version.                  *)
request(id, what, from, sent) == [id |-> id, what |-> what, from |-> from, sent |-> sent]
TwoRegistrations ==
  {request(1, "register", 1, 2), request(5, "register", 1, 1), request(2, "heartbeat", 1, 3),
   request(3, "heartbeat", 1, 2), request(3, "heartbeat", 1, 3), request(4, "message", 0, 0)}
OneMessage == <<request(6, "message", 0, 0)>>

MCInit == /\ component \in {"lock", "state", "fleet", "improvement", "catalog", "worker", "access",
                              "sandbox", "enrolment", "workspaces", "releases"}
          /\ StoreLockInit /\ HubInit /\ FleetInit /\ SIInit /\ CatInit /\ PWInit /\ MAInit
          /\ SandboxJobInit /\ EnrolmentInit /\ WorkspaceListInit /\ NodeReleaseInit
MCNext == \/ StoreLockNext /\ beside("lock")
          \/ HubNext /\ beside("state")
          \/ FleetNext /\ beside("fleet")
          \/ SINext /\ beside("improvement")
          \/ CatNext /\ beside("catalog")
          \/ PWNext /\ beside("worker")
          \/ MANext /\ beside("access")
          \/ SandboxJobNext /\ beside("sandbox")
          \/ EnrolmentNext /\ beside("enrolment")
          \/ WorkspaceListNext /\ beside("workspaces")
          \/ NodeReleaseNext /\ beside("releases")
(* The fairness of each module; in the initial state of a component that is not  *)
(* picked nothing is enabled that has to happen.                                 *)
MCSpec == MCInit /\ [][MCNext]_partsVars /\ StoreLockFairness /\ SIFairness

(* Every variable keeps its type. *)
PartsTypeOK == /\ StoreLockTypeOK /\ HubTypeOK /\ FleetTypeOK /\ SITypeOK
               /\ CatTypeOK /\ PWTypeOK /\ MATypeOK
               /\ SandboxTypeOK /\ EnrolmentTypeOK /\ WorkspaceListTypeOK /\ NodeReleaseTypeOK
(* Nothing of the Owner's is released or enabled without the evidence it needs: *)
(* improvements and patches of Friday, procedures and skills.                   *)
ExtensionsAreEvidenced == ReleasedIsEvidenced /\ EnabledIsVerified
(* What a node keeps on its disk survives the processes that write it: the key  *)
(* the Hub knows it by, a list in which one id stands for one directory, links  *)
(* that name complete releases, and files of one release wherever no kill, no   *)
(* rollback that failed and no second script at work left those of two.         *)
NodeKeepsItsState == NodeKeepsItsKey /\ ListStaysValid /\ ReleaseIsWhole
=============================================================================
