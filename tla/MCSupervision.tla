--------------------------- MODULE MCSupervision ---------------------------
(* One Worker that is given up to two tasks, and the Director: two agents    *)
(* that share the flag, one of them reused.                                  *)
EXTENDS Supervision

CONSTANTS w1

OneWorker == {w1}

\* All inboxes; and, for the questions that read none, only the one from which
\* the monitor acts.
AllInboxes == OneWorker \cup {Director, Sup}
SupervisorsInbox == {Sup}
=============================================================================
