----------------------------- MODULE MCMailQueue -----------------------------
(* MailSpec for TLC, with the rest at the end and the fairness of the loop. *)
EXTENDS MailQueue

\* All mails were asked for and nothing is left to do.
Rest ==
    /\ asked = Mails
    /\ \A m \in Mails : ~Waiting(m) /\ ~Held(m)
    /\ UNCHANGED mailVars

MCNext == Ask \/ MailNext \/ Rest
MCSpec == MailInit /\ [][MCNext]_mailVars /\ MailFairness
=============================================================================
