----------------------------- MODULE WorkspaceList -----------------------------
(* The node's list of workspaces (workspaces.json): commands of the operator    *)
(* read the whole list, check it and write it whole, without a lock, while the  *)
(* directories it names come and go; the Runner offers the list it read when it *)
(* started, and looks a job's workspace up again.                               *)
EXTENDS Integers, FiniteSets
CONSTANTS ListCommands,      \* processes that run one command each at a time
          WorkspaceIds,      \* ids
          WorkspaceRoots,    \* canonical directories
          MostWorkspaces,    \* MAX_REGISTERED_WORKSPACES
          MaxListSteps       \* bound: commands begun and directories moved
ASSUME WorkspaceListAssumption == MostWorkspaces \in Nat \ {0} /\ MaxListSteps \in Nat
VARIABLES wlFile,       \* entries of the file
          wlThere,      \* directories that exist
          wlCommand,    \* process -> its command and the list it read
          wlOffered,    \* ids the Runner offers, or {} before it starts
          wlSteps
wlVars == <<wlFile, wlThere, wlCommand, wlOffered, wlSteps>>
Entries == [id : WorkspaceIds, root : WorkspaceRoots]
NoCommand == [does |-> "nothing"]
WorkspaceListInit ==
  /\ wlFile = {} /\ wlThere = WorkspaceRoots /\ wlCommand = [p \in ListCommands |-> NoCommand]
  /\ wlOffered = {} /\ wlSteps = 0
Counted == wlSteps < MaxListSteps /\ wlSteps' = wlSteps + 1

(* One entry whose directory is gone makes the whole list unreadable, for every *)
(* command and for the Runner.                                                  *)
Readable == \A e \in wlFile : e.root \in wlThere
BeginCommand(p) ==
  /\ wlCommand[p] = NoCommand /\ Readable /\ Counted
  /\ \E e \in Entries :
       \/ /\ e.root \in wlThere
          /\ wlCommand' = [wlCommand EXCEPT ![p] = [does |-> "register", entry |-> e, read |-> wlFile]]
       \/ wlCommand' = [wlCommand EXCEPT ![p] = [does |-> "remove", entry |-> e, read |-> wlFile]]
  /\ UNCHANGED <<wlFile, wlThere, wlOffered>>
Registers(entry, read) == /\ \A e \in read : e.id # entry.id /\ e.root # entry.root
                          /\ Cardinality(read) < MostWorkspaces
Remaining(read, entry) == {e \in read : e.id # entry.id}
(* The list as it was read, with the change; a command that is refused, or has  *)
(* nothing to change, writes nothing.                                           *)
EndCommand(p) ==
  /\ wlCommand[p] # NoCommand
  /\ LET c == wlCommand[p] IN
     wlFile' = CASE c.does = "register" /\ Registers(c.entry, c.read) -> c.read \union {c.entry}
                 [] c.does = "remove" /\ Remaining(c.read, c.entry) # c.read -> Remaining(c.read, c.entry)
                 [] OTHER -> wlFile
  /\ wlCommand' = [wlCommand EXCEPT ![p] = NoCommand]
  /\ UNCHANGED <<wlThere, wlOffered, wlSteps>>
RunnerReadsList == /\ Readable /\ wlOffered' = {e.id : e \in wlFile}
                   /\ UNCHANGED <<wlFile, wlThere, wlCommand, wlSteps>>
DirectoryMoves(root) ==
  /\ Counted /\ wlThere' = IF root \in wlThere THEN wlThere \ {root} ELSE wlThere \union {root}
  /\ UNCHANGED <<wlFile, wlCommand, wlOffered>>
WorkspaceListNext == \/ \E p \in ListCommands : BeginCommand(p) \/ EndCommand(p)
                     \/ RunnerReadsList \/ \E root \in WorkspaceRoots : DirectoryMoves(root)
WorkspaceListSpec == WorkspaceListInit /\ [][WorkspaceListNext]_wlVars
-----------------------------------------------------------------------------
(* Every variable keeps its type. *)
WorkspaceListTypeOK ==
  /\ wlFile \subseteq Entries /\ wlThere \subseteq WorkspaceRoots /\ wlOffered \subseteq WorkspaceIds
  /\ wlCommand \in [ListCommands -> {NoCommand} \union
       [does : {"register", "remove"}, entry : Entries, read : SUBSET Entries]]
  /\ wlSteps \in 0..MaxListSteps
(* However the commands interleave, an id names one directory, a directory has  *)
(* one id and the list is within its limit: what a command wrote from a list it *)
(* read earlier is still a list the next one accepts (workspace-registry.ts     *)
(* register, unregister, parseRegistry).  A change made in between is lost.     *)
ListStaysValid ==
  /\ \A e, f \in wlFile : e.id = f.id \/ e.root = f.root => e = f
  /\ Cardinality(wlFile) <= MostWorkspaces
=============================================================================
