--------------------------- MODULE MCWebhookIntake ---------------------------
(***************************************************************************)
(* Instances of WebhookIntake for TLC.  Retrying is about one delivery     *)
(* that comes late, again, and across a crash, with calls of the database  *)
(* that fail, and about two at once;                                       *)
(* Following about records, on every platform, with the poller at work.    *)
(***************************************************************************)
EXTENDS WebhookIntake

None == <<0, 0>>

Retrying ==
  {[host |-> "github", happens |-> {"labeled", "comment"}, polling |-> FALSE, bad |-> {1},
    changes |-> 1, resends |-> 1, expires |-> 1, crashes |-> 1, errors |-> 0],
   [host |-> "github", happens |-> {"labeled", "comment"}, polling |-> FALSE, bad |-> {1},
    changes |-> 1, resends |-> 1, expires |-> 0, crashes |-> 1, errors |-> 2],
   [host |-> "github", happens |-> {"labeled"}, polling |-> FALSE, bad |-> {1, 2},
    changes |-> 2, resends |-> 0, expires |-> 0, crashes |-> 1, errors |-> 0]}

\* One change of any kind, and two of those that a record must follow.
Following ==
  {[host |-> h, happens |-> what, polling |-> TRUE, bad |-> {},
    changes |-> IF "closed" \in what THEN 2 ELSE 1, resends |-> 0, expires |-> 0, crashes |-> 0, errors |-> 0] :
     h \in Hosts, what \in {{"closed", "reopened"}, {"merged", "pushed", "labeled", "approved", "rejected"}}}

RetryingAndFollowing == Retrying \cup Following
=============================================================================
