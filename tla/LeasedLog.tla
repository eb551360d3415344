------------------------------ MODULE LeasedLog ------------------------------
(***************************************************************************)
(* What the Hub's job registry promises about one job, without saying how: *)
(* an append-only report log written under numbered leases.  Issuing a     *)
(* lease supersedes the one before it, only the current lease reports, and *)
(* a job is closed once, by a reported outcome or by a withdrawal, after   *)
(* which no state is reported and no lease is issued.                      *)
(*                                                                         *)
(* JobRegistry implements this specification; see Lifecycle there.         *)
(***************************************************************************)
EXTENDS Integers, Sequences

CONSTANTS
    Jobs,       \* the jobs
    Notes,      \* report bodies that carry no state (output, artifact, error)
    Progress,   \* reported states that leave the job open
    Outcomes    \* reported states that close it

VARIABLES
    epoch,      \* the number of leases issued: the current lease, 0 before any
    log,        \* the reports, in order
    closed      \* whether an outcome or a withdrawal closed the job

vars == <<epoch, log, closed>>

Report == [sequence : Nat, lease : Nat, body : Notes \cup Progress \cup Outcomes]

TypeOK ==
    /\ epoch \in [Jobs -> Nat]
    /\ log \in [Jobs -> Seq(Report)]
    /\ closed \in [Jobs -> BOOLEAN]

Init ==
    /\ epoch = [j \in Jobs |-> 0]
    /\ log = [j \in Jobs |-> <<>>]
    /\ closed = [j \in Jobs |-> FALSE]

Issue(j) ==
    /\ ~closed[j]
    /\ epoch' = [epoch EXCEPT ![j] = @ + 1]
    /\ UNCHANGED <<log, closed>>

AppendReport(j, b) ==
    log' = [log EXCEPT ![j] =
              Append(@, [sequence |-> Len(@), lease |-> epoch[j], body |-> b])]

\* A note may still trail in after the job closed: the lease is what counts.
ReportNote(j, b) ==
    /\ epoch[j] > 0
    /\ b \in Notes
    /\ AppendReport(j, b)
    /\ UNCHANGED <<epoch, closed>>

ReportProgress(j, b) ==
    /\ epoch[j] > 0
    /\ ~closed[j]
    /\ b \in Progress
    /\ AppendReport(j, b)
    /\ UNCHANGED <<epoch, closed>>

ReportOutcome(j, b) ==
    /\ epoch[j] > 0
    /\ ~closed[j]
    /\ b \in Outcomes
    /\ AppendReport(j, b)
    /\ closed' = [closed EXCEPT ![j] = TRUE]
    /\ UNCHANGED epoch

Withdraw(j) ==
    /\ ~closed[j]
    /\ closed' = [closed EXCEPT ![j] = TRUE]
    /\ UNCHANGED <<epoch, log>>

Next ==
    \E j \in Jobs :
        \/ Issue(j)
        \/ Withdraw(j)
        \/ \E b \in Notes : ReportNote(j, b)
        \/ \E b \in Progress : ReportProgress(j, b)
        \/ \E b \in Outcomes : ReportOutcome(j, b)

Spec == Init /\ [][Next]_vars

-----------------------------------------------------------------------------
(***************************************************************************)
(* Fencing: the leases of the log never go back, so no report of a         *)
(* superseded lease follows one of its successor.                          *)
(***************************************************************************)
Fenced ==
    \A j \in Jobs :
        /\ \A i \in DOMAIN log[j] : log[j][i].lease \in 1..epoch[j]
        /\ \A i, k \in DOMAIN log[j] : i < k => log[j][i].lease <= log[j][k].lease
=============================================================================
