--------------------------- MODULE MCNodeToolPolicy ---------------------------
(* Two settings of NodeToolPolicy in one run: every start may have other tools, *)
(* with two calls and three leases; or every tool is always there, with three   *)
(* calls and two leases.                                                        *)
EXTENDS NodeToolPolicy, TLC
VARIABLE setting
settingVars == <<setting, allVars>>

Symmetry == Permutations(Calls)
Within == IF setting = "steady"
          THEN unavailable' = {} /\ \A j \in Jobs : lease'[j] < MaxLease
          ELSE Cardinality({c \in Calls : callStatus'[c] # "NONE"}) <= 2
MCInit == /\ PolicyInit /\ setting \in {"steady", "changing"}
          /\ setting = "steady" => unavailable = {}
MCNext == PolicyNext /\ Within /\ UNCHANGED setting
MCSpec == MCInit /\ [][MCNext]_settingVars

(* While every start finds every tool, an open job with a pending call of its    *)
(* live lease is held (node-tool-policy.ts l.117, l.185-214).                    *)
SteadyCallHoldsJob == setting = "steady" => PendingCallHoldsJob
=============================================================================
