----------------------------- MODULE NodeEnrolment -----------------------------
(* How a node becomes known to the Hub: an enrolment token is issued for one    *)
(* Runner id, a Runner process makes a key pair in its state directory, and the *)
(* Hub exchanges the token for the public key.  The installer's run (--once,    *)
(* with the token file) and the service (without) may start side by side, end   *)
(* anywhere, and lose the answer of the Hub.                                    *)
EXTENDS Integers
CONSTANTS NodeProcs,       \* Runner processes on the node
          NodeKeys,        \* key pairs
          NoKey,           \* no key pair
          MaxNodeFaults    \* bound: ends of a process and lost messages
ASSUME NodeEnrolmentAssumption == NoKey \notin NodeKeys /\ MaxNodeFaults \in Nat
VARIABLES neToken,    \* row of the token at the Hub: none, issued, expired, consumed
          neDevice,   \* key of the Runner id at the Hub
          neRevoked,  \* the Owner revoked the device
          neFile,     \* runner-device.json: absent, torn or kept; key; enrolledAt
          neTokenFile,\* the file with the token is on the node
          neProc,     \* process -> step, key, what it read, whether it has the token
          neFaults
neVars == <<neToken, neDevice, neRevoked, neFile, neTokenFile, neProc, neFaults>>
NoFile == [is |-> "absent", key |-> NoKey, enrolled |-> FALSE]
TornFile == [is |-> "torn", key |-> NoKey, enrolled |-> FALSE]
Kept(key, enrolled) == [is |-> "kept", key |-> key, enrolled |-> enrolled]
ProcOff == [at |-> "off", key |-> NoKey, enrolled |-> FALSE, token |-> FALSE]
EnrolmentInit ==
  /\ neToken = "none" /\ neDevice = NoKey /\ neRevoked = FALSE /\ neFile = NoFile
  /\ neTokenFile = FALSE /\ neProc = [p \in NodeProcs |-> ProcOff] /\ neFaults = 0
NodeFault == neFaults < MaxNodeFaults /\ neFaults' = neFaults + 1
SetProc(p, value) == neProc' = [neProc EXCEPT ![p] = value]
GoesTo(p, at) == SetProc(p, [neProc[p] EXCEPT !.at = at])
KeysSeen == {neDevice, neFile.key} \union {neProc[p].key : p \in NodeProcs}

-----------------------------------------------------------------------------
(* The Hub. *)
IssueToken == /\ neToken = "none" /\ neToken' = "issued" /\ neTokenFile' = TRUE
              /\ UNCHANGED <<neDevice, neRevoked, neFile, neProc, neFaults>>
EnrolmentExpires == /\ neToken = "issued" /\ neToken' = "expired"
                /\ UNCHANGED <<neDevice, neRevoked, neFile, neTokenFile, neProc, neFaults>>
(* The same key may ask again with a token it has consumed. *)
Redeems(key) == \/ neToken = "issued" /\ neDevice = NoKey
                \/ neToken = "consumed" /\ neDevice = key /\ ~neRevoked
RevokeDevice == /\ neDevice # NoKey /\ ~neRevoked /\ neRevoked' = TRUE
                /\ UNCHANGED <<neToken, neDevice, neFile, neTokenFile, neProc, neFaults>>
Accepts(key) == neDevice = key /\ ~neRevoked

-----------------------------------------------------------------------------
(* The Runner.  It reads its device file, or makes the file with a new key; the *)
(* file exists before its content does.                                         *)
StartNode(p) ==
  /\ neProc[p].at = "off"
  /\ \E token \in {FALSE, neTokenFile} :
       \/ /\ neFile.is = "kept"
          /\ SetProc(p, [at |-> "loaded", key |-> neFile.key, enrolled |-> neFile.enrolled, token |-> token])
       \/ /\ neFile.is = "absent"
          /\ \E key \in NodeKeys \ KeysSeen :
               SetProc(p, [at |-> "generated", key |-> key, enrolled |-> FALSE, token |-> token])
  /\ UNCHANGED <<neToken, neDevice, neRevoked, neFile, neTokenFile, neFaults>>
(* Faulty variant: a file that is already there is written over.        *)
MakeOverDeviceFile(p) ==
  /\ neProc[p].at = "generated" /\ neFile' = TornFile /\ GoesTo(p, "writing")
  /\ UNCHANGED <<neToken, neDevice, neRevoked, neTokenFile, neFaults>>
(* The process that finds the file already there takes the key of the file, or  *)
(* ends when the file cannot be read yet.                                       *)
MakeDeviceFile(p) ==
  /\ neProc[p].at = "generated"
  /\ CASE neFile.is = "absent" -> neFile' = TornFile /\ GoesTo(p, "writing")
       [] neFile.is = "torn" -> SetProc(p, ProcOff) /\ UNCHANGED neFile
       [] OTHER -> /\ SetProc(p, [neProc[p] EXCEPT !.at = "loaded", !.key = neFile.key, !.enrolled = neFile.enrolled])
                   /\ UNCHANGED neFile
  /\ UNCHANGED <<neToken, neDevice, neRevoked, neTokenFile, neFaults>>
WriteDeviceFile(p) ==
  /\ neProc[p].at = "writing" /\ neFile' = Kept(neProc[p].key, FALSE) /\ GoesTo(p, "loaded")
  /\ UNCHANGED <<neToken, neDevice, neRevoked, neTokenFile, neFaults>>
(* #ensureEnrolled: without enrolledAt and without a token the process ends.    *)
(* The request is sent at most twice; its answer is an error or is lost: the    *)
(* process ends with the token consumed or not.                                 *)
Enrol(p) ==
  /\ neProc[p].at = "loaded" /\ ~neProc[p].enrolled
  /\ LET redeemed == neProc[p].token /\ Redeems(neProc[p].key) IN
     /\ IF redeemed THEN neToken' = "consumed" /\ neDevice' = neProc[p].key
        ELSE UNCHANGED <<neToken, neDevice>>
     /\ \/ redeemed /\ GoesTo(p, "enrolled") /\ UNCHANGED neFaults
        \/ ~redeemed /\ SetProc(p, ProcOff) /\ UNCHANGED neFaults
        \/ redeemed /\ SetProc(p, ProcOff) /\ NodeFault
  /\ UNCHANGED <<neRevoked, neFile, neTokenFile>>
RequestNotSent(p) ==
  /\ neProc[p].at = "loaded" /\ ~neProc[p].enrolled /\ neProc[p].token /\ NodeFault
  /\ SetProc(p, ProcOff) /\ UNCHANGED <<neToken, neDevice, neRevoked, neFile, neTokenFile>>
(* The file is replaced whole, then the token removed; when another process has *)
(* removed it this one ends, enrolled all the same.                             *)
PersistEnrolled(p) ==
  /\ neProc[p].at = "enrolled" /\ neFile' = Kept(neProc[p].key, TRUE) /\ GoesTo(p, "persisted")
  /\ UNCHANGED <<neToken, neDevice, neRevoked, neTokenFile, neFaults>>
RemoveTokenFile(p) ==
  /\ neProc[p].at = "persisted" /\ neTokenFile' = FALSE
  /\ SetProc(p, IF neTokenFile THEN [neProc[p] EXCEPT !.at = "loaded", !.enrolled = TRUE] ELSE ProcOff)
  /\ UNCHANGED <<neToken, neDevice, neRevoked, neFile, neFaults>>
(* A registration or heartbeat: the Hub takes it, or the process of the service *)
(* ends (the first registration) or prints the refusal.                         *)
Register(p) == /\ neProc[p].at = "loaded" /\ neProc[p].enrolled /\ ~Accepts(neProc[p].key)
               /\ SetProc(p, ProcOff)
               /\ UNCHANGED <<neToken, neDevice, neRevoked, neFile, neTokenFile, neFaults>>
NodeProcEnds(p) == /\ neProc[p].at # "off" /\ NodeFault /\ SetProc(p, ProcOff)
                   /\ UNCHANGED <<neToken, neDevice, neRevoked, neFile, neTokenFile>>
EnrolmentNext ==
  \/ IssueToken \/ EnrolmentExpires \/ RevokeDevice
  \/ \E p \in NodeProcs :
       \/ StartNode(p) \/ MakeDeviceFile(p) \/ WriteDeviceFile(p) \/ Enrol(p) \/ RequestNotSent(p)
       \/ PersistEnrolled(p) \/ RemoveTokenFile(p) \/ Register(p) \/ NodeProcEnds(p)
EnrolmentSpec == EnrolmentInit /\ [][EnrolmentNext]_neVars
-----------------------------------------------------------------------------
(* Every variable keeps its type. *)
EnrolmentTypeOK ==
  /\ neToken \in {"none", "issued", "expired", "consumed"} /\ neDevice \in NodeKeys \union {NoKey}
  /\ neRevoked \in BOOLEAN /\ neTokenFile \in BOOLEAN /\ neFaults \in 0..MaxNodeFaults
  /\ neFile \in [is : {"absent", "torn", "kept"}, key : NodeKeys \union {NoKey}, enrolled : BOOLEAN]
  /\ neProc \in [NodeProcs -> [at : {"off", "generated", "writing", "loaded", "enrolled", "persisted"},
                               key : NodeKeys \union {NoKey}, enrolled : BOOLEAN, token : BOOLEAN]]
(* The Hub never knows a key the node has lost: the key the token was exchanged *)
(* for is in the device file, and every process that works under the Runner's   *)
(* id has that key, whichever process made the file and wherever one ended; and *)
(* a file that says enrolled is one the Hub agrees with                         *)
(* (resolveRunnerDevice, persistRunnerDevice, #ensureEnrolled,                  *)
(* consumeEnrollment).                                                          *)
NodeKeepsItsKey ==
  /\ neDevice # NoKey => neFile.is = "kept" /\ neFile.key = neDevice
  /\ neFile.enrolled => neDevice = neFile.key
  /\ \A p \in NodeProcs : neProc[p].at \notin {"off", "generated", "writing"} => neProc[p].key = neFile.key
=============================================================================
