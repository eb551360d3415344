---------------------------- MODULE SignedCatalog ----------------------------
(* The Owner's extensions as the Hub keeps them: one procedure (a skill has the *)
(* same life) with its versions, its active version and the sandbox evidence   *)
(* of each, and one MCP definition (a Runner adapter has the same life) with    *)
(* the calls of it that are under way.  Registering a version takes two         *)
(* statements in no transaction, and the Hub may end between them.              *)
EXTENDS Integers, FiniteSets
CONSTANTS Versions,          \* versions of the procedure, and of the definition
          NoVersion,
          Manifests,         \* what a version may contain
          MaxRegistrations   \* bound: how often anything is registered
ASSUME CatalogAssumption == NoVersion \notin Versions /\ MaxRegistrations \in Nat
VARIABLES catRows,       \* version -> its row, or NoRow
          catActive,     \* the active version
          catEnabled,
          catCut,        \* the last registration stopped after its first statement
          catAt,         \* registrations so far: the order of created_at
          mcp,           \* the definition: its version, whether it is enabled
          mcpCalls       \* versions the calls under way were resolved to
catVars == <<catRows, catActive, catEnabled, catCut, catAt, mcp, mcpCalls>>
NoRow == [manifest |-> NoVersion, verified |-> FALSE, at |-> 0]
Versioned == {v \in Versions : catRows[v] # NoRow}
CatInit == /\ catRows = [v \in Versions |-> NoRow] /\ catActive = NoVersion
           /\ catEnabled = FALSE /\ catCut = FALSE /\ catAt = 0
           /\ mcp = [version |-> NoVersion, enabled |-> FALSE] /\ mcpCalls = {}

(* A signed version replaces its row unverified and becomes active, disabled.   *)
RegisterVersion(v, manifest, cut) ==
  /\ catAt < MaxRegistrations /\ catAt' = catAt + 1
  /\ catRows' = [catRows EXCEPT ![v] = [manifest |-> manifest, verified |-> FALSE, at |-> catAt']]
  /\ catCut' = cut
  /\ IF cut THEN mcpCalls' = {} /\ UNCHANGED <<catActive, catEnabled>>
     ELSE catActive' = v /\ catEnabled' = FALSE /\ UNCHANGED mcpCalls
  /\ UNCHANGED mcp
MarkSandboxVerified(v) ==
  /\ v \in Versioned /\ catRows' = [catRows EXCEPT ![v].verified = TRUE]
  /\ UNCHANGED <<catActive, catEnabled, catCut, catAt, mcp, mcpCalls>>
EnableVersion ==
  /\ catActive # NoVersion /\ catRows[catActive].verified
  /\ catEnabled' = TRUE
  /\ UNCHANGED <<catRows, catActive, catCut, catAt, mcp, mcpCalls>>
(* Rollback: the version registered last among the others, if it is verified.   *)
Previous == {v \in Versioned \ {catActive} :
               \A o \in Versioned \ {catActive} : catRows[o].at <= catRows[v].at}
\* Faulty variant: whatever it is, verified or not.
AnyTarget == Previous
RollbackTargets == {v \in Previous : catRows[v].verified}
Rollback == /\ catActive # NoVersion
            /\ \E v \in RollbackTargets : catActive' = v
            /\ catEnabled' = TRUE
            /\ UNCHANGED <<catRows, catCut, catAt, mcp, mcpCalls>>

(* An MCP definition is pinned disabled; a call resolves it, then waits for the *)
(* broker while the definition may be disabled or replaced.                     *)
RegisterMcp(v) == /\ catAt < MaxRegistrations /\ catAt' = catAt + 1
                  /\ mcp' = [version |-> v, enabled |-> FALSE]
                  /\ UNCHANGED <<catRows, catActive, catEnabled, catCut, mcpCalls>>
SwitchMcp(on) == /\ mcp.version # NoVersion /\ mcp' = [mcp EXCEPT !.enabled = on]
                 /\ UNCHANGED <<catRows, catActive, catEnabled, catCut, catAt, mcpCalls>>
InvokeMcp == /\ mcp.enabled /\ mcpCalls' = mcpCalls \union {mcp.version}
             /\ UNCHANGED <<catRows, catActive, catEnabled, catCut, catAt, mcp>>
FinishMcp(v) == /\ v \in mcpCalls /\ mcpCalls' = mcpCalls \ {v}
                /\ UNCHANGED <<catRows, catActive, catEnabled, catCut, catAt, mcp>>

CatNext == \/ \E v \in Versions :
                \/ \E manifest \in Manifests, cut \in BOOLEAN : RegisterVersion(v, manifest, cut)
                \/ MarkSandboxVerified(v)
                \/ RegisterMcp(v)
                \/ FinishMcp(v)
           \/ EnableVersion
           \/ Rollback
           \/ \E on \in BOOLEAN : SwitchMcp(on)
           \/ InvokeMcp
CatSpec == CatInit /\ [][CatNext]_catVars

CatTypeOK == /\ DOMAIN catRows = Versions /\ catActive \in Versions \union {NoVersion}
             /\ catEnabled \in BOOLEAN /\ catCut \in BOOLEAN /\ catAt \in 0..MaxRegistrations
             /\ mcp.version \in Versions \union {NoVersion} /\ mcpCalls \subseteq Versions
(* Whatever versions are registered again, verified and rolled back to, what is *)
(* enabled is a version whose present row was verified; only a registration     *)
(* cut off between its two statements can leave an unverified row enabled       *)
(* (ProcedureRegistry, SkillRegistry: register, enable, rollback).              *)
EnabledIsVerified ==
  catEnabled => catActive \in Versioned /\ (catRows[catActive].verified \/ catCut)
=============================================================================
