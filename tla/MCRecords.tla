------------------------------ MODULE MCRecords -----------------------------
(***************************************************************************)
(* The instance of Records for TLC: the handlers of accounts and those of  *)
(* collaboration.                                                          *)
(***************************************************************************)
EXTENDS Records, TLC

CONSTANTS client, admin, sweeper

\* A user's own requests beside those of an administrator, or of the same user; of teams both
\* may do all.
OpsOf(d)  == LET shared == TeamOps(d) \cup RecordOps(d) IN
             client :> (SessionOps(d) \cup CredentialOps(d) \cup shared) @@ admin :> (AdminOps(d) \cup shared)
EveryOp   == "bbolt" :> OpsOf("bbolt") @@ "mongo" :> OpsOf("mongo")

\* One record in each table and one key to use; two records of accounts; two spaces.
SomeStarts ==
  LET one == [keys |-> {1}, idle |-> {}, empty |-> {"spacecache"}, faults |-> 1]
      two == [keys |-> {1, 2}, idle |-> {1}, empty |-> Tables \ AccountTables, faults |-> 0] IN
  {one, two, [two EXCEPT !.idle = {}, !.empty = Tables \ {"spaces"}, !.faults = 1]}
=============================================================================
