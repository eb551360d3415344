------------------------------- MODULE Mailbox -------------------------------
(***************************************************************************)
(* What an outbox promises about the notices put into it: each is shown to *)
(* its recipient at least once, and it is taken off the list only after    *)
(* it was shown.                                                           *)
(***************************************************************************)
CONSTANT Mail

VARIABLES
    listed,     \* the notices ever put into the outbox
    seen,       \* those the recipient was shown
    settled     \* those that will not be shown again

mailVars == <<listed, seen, settled>>

MailInit == listed = {} /\ seen = {} /\ settled = {}

Post(new) ==
    /\ new \cap listed = {}
    /\ listed' = listed \cup new
    /\ UNCHANGED <<seen, settled>>

Show(n) ==
    /\ n \in listed
    /\ seen' = seen \cup {n}
    /\ UNCHANGED <<listed, settled>>

Settle(n) ==
    /\ n \in seen
    /\ settled' = settled \cup {n}
    /\ UNCHANGED <<listed, seen>>

MailNext ==
    \/ \E new \in SUBSET Mail : Post(new)
    \/ \E n \in Mail : Show(n) \/ Settle(n)

MailSafety == MailInit /\ [][MailNext]_mailVars

MailSpec ==
    /\ MailSafety
    /\ \A n \in Mail : n \in listed ~> n \in seen
=============================================================================
