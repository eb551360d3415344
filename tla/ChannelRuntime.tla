--------------------------- MODULE ChannelRuntime ---------------------------
(***************************************************************************)
(* Setting up a channel: the Owner's request at the Hub (server.ts         *)
(* l.1243-1261), which makes a fresh ingest token, hands it to the Gateway *)
(* and only then registers it (m2-registry.ts), and the Gateway's runtime, *)
(* which stores the settings in a file, waits for the loops that run with  *)
(* the old ones and starts new ones (channel-runtime.ts).                  *)
(*                                                                         *)
(* One channel.  A token is named by the request that made it.  Requests   *)
(* wait for each other at the Hub (mutate) and at the Gateway              *)
(* (#serialize); the Hub waits 45 s for the Gateway, the Gateway as long   *)
(* as an old loop takes to come back from a request.                       *)
(***************************************************************************)
EXTENDS Naturals, Sequences

CONSTANTS
    Setups,             \* 1..n, the Owner's requests in order
    MaxRuntimeFaults    \* ends of either process, deadlines that pass

ASSUME RuntimeAssumption == Setups \subseteq Nat \ {0} /\ MaxRuntimeFaults \in Nat

VARIABLES
    setup,      \* each request: [kind, at]
    hubToken,   \* channel_ingest_v1: the token the Hub takes, 0 for none it gave out
    file,       \* the Gateway's file: a token, or 0 when disabled or absent
    toDo,       \* the requests at the Gateway, the first being worked on
    stage,      \* of that one: "persist" or "launch"
    live,       \* tokens of the loops that were not told to stop
    ending,     \* tokens of the loops that were, but are still in a request
    runtimeFaults

runtimeVars == <<setup, hubToken, file, toDo, stage, live, ending, runtimeFaults>>

Stages == {"unsent", "gateway", "registry", "done", "failed"}
RuntimeTypeOK ==
    /\ \A s \in Setups : setup[s].kind \in {"configure", "disable"} /\ setup[s].at \in Stages
    /\ {hubToken, file} \subseteq Setups \cup {0}
    /\ live \subseteq Setups /\ ending \subseteq Setups
    /\ \A i \in DOMAIN toDo : toDo[i] \in Setups
    /\ stage \in {"persist", "launch"}

RuntimeInit ==
    /\ setup \in [Setups -> [kind : {"configure", "disable"}, at : {"unsent"}]]
    /\ hubToken = 0 /\ file = 0 /\ toDo = <<>> /\ stage = "persist"
    /\ live = {} /\ ending = {} /\ runtimeFaults = 0

RuntimeFault == runtimeFaults < MaxRuntimeFaults /\ runtimeFaults' = runtimeFaults + 1
Move(s, at) == setup' = [setup EXCEPT ![s].at = at]
TokenOf(s) == IF setup[s].kind = "configure" THEN s ELSE 0

\* The handler holds the Hub's mutation barrier from here to its end.
AskGateway(s) ==
    /\ setup[s].at = "unsent"
    /\ \A o \in Setups : o < s => setup[o].at \in {"done", "failed"}
    /\ Move(s, "gateway")
    /\ \/ toDo' = Append(toDo, s) /\ UNCHANGED runtimeFaults
       \/ RuntimeFault /\ UNCHANGED toDo         \* the request does not arrive
    /\ UNCHANGED <<hubToken, file, stage, live, ending>>

\* The file is replaced and the running loops are told to stop; the new loops of a
\* configure wait for them, a disable does not.
Persist ==
    /\ toDo # <<>> /\ stage = "persist"
    /\ file' = TokenOf(Head(toDo))
    /\ ending' = ending \cup live /\ live' = {}
    /\ stage' = "launch"
    /\ UNCHANGED <<setup, hubToken, toDo, runtimeFaults>>

PersistFails ==
    /\ toDo # <<>> /\ stage = "persist" /\ RuntimeFault
    /\ setup' = [setup EXCEPT ![Head(toDo)].at = IF @ = "gateway" THEN "failed" ELSE @]
    /\ toDo' = Tail(toDo)
    /\ UNCHANGED <<hubToken, file, stage, live, ending>>

OldLoopReturns(t) ==
    /\ t \in ending
    /\ ending' = ending \ {t}
    /\ UNCHANGED <<setup, hubToken, file, toDo, stage, live, runtimeFaults>>

\* The new loops start and the Hub, if it still waits, gets its answer.
Launch ==
    /\ toDo # <<>> /\ stage = "launch"
    /\ LET s == Head(toDo) IN
       /\ setup[s].kind = "configure" =>
            \* the loops of the setting before this one, unless a disable dropped them
            \A t \in ending : \E o \in Setups : t < o /\ o < s /\ setup[o].kind = "disable"
       /\ live' = IF setup[s].kind = "configure" THEN {s} ELSE {}
       /\ IF setup[s].at = "gateway" THEN Move(s, "registry") ELSE UNCHANGED setup
    /\ toDo' = Tail(toDo) /\ stage' = "persist"
    /\ UNCHANGED <<hubToken, file, ending, runtimeFaults>>

\* Faulty variant: the token is registered before the Gateway has it.
RegisterFirst(s) ==
    /\ setup[s].at \in {"gateway", "registry"}
    /\ hubToken' = TokenOf(s)
    /\ Move(s, "done")
    /\ UNCHANGED <<file, toDo, stage, live, ending, runtimeFaults>>

\* configure registers the token and the sender, disable a token nobody was given.
Register(s) ==
    /\ setup[s].at = "registry"
    /\ hubToken' = TokenOf(s)
    /\ Move(s, "done")
    /\ UNCHANGED <<file, toDo, stage, live, ending, runtimeFaults>>

\* 45 s have passed, the answer is lost or the Hub ends: the Owner sees a failure.
SetupFails(s) ==
    /\ setup[s].at \in {"gateway", "registry"} /\ RuntimeFault
    /\ Move(s, "failed")
    /\ UNCHANGED <<hubToken, file, toDo, stage, live, ending>>

\* The Gateway's process ends and loads its file.
RuntimeRestarts ==
    /\ RuntimeFault
    /\ toDo' = <<>> /\ stage' = "persist"
    /\ live' = IF file = 0 THEN {} ELSE {file}
    /\ ending' = {}
    /\ UNCHANGED <<setup, hubToken, file>>

RuntimeNext ==
    \/ \E s \in Setups : AskGateway(s) \/ Register(s) \/ SetupFails(s) \/ OldLoopReturns(s)
    \/ Persist \/ PersistFails \/ Launch \/ RuntimeRestarts

RuntimeSpec == RuntimeInit /\ [][RuntimeNext]_runtimeVars

Latest(s) == setup[s].at = "done" /\ \A o \in Setups : o > s => setup[o].at = "unsent"

\* When the Owner was told that the last request succeeded, Hub and Gateway agree: the
\* file and the only loops that run hold the token the Hub takes, whatever earlier
\* requests, deadlines and restarts left behind (server.ts l.1252-1257, channel-runtime.ts
\* l.62-69).
AgreedCredential ==
    \A s \in Setups : Latest(s) =>
        /\ hubToken = TokenOf(s) /\ file = TokenOf(s)
        /\ live = IF TokenOf(s) = 0 THEN {} ELSE {s}
=============================================================================
