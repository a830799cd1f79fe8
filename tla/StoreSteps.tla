----------------------------- MODULE StoreSteps -----------------------------
(***************************************************************************)
(* The steps of the handlers that keep accounts, teams, stacks, links and  *)
(* deployments: their transactions on the buckets of the database, and     *)
(* their operations on what they keep in memory.  A record has a table and *)
(* a key; what it says is abstracted to whose changes it contains.         *)
(*                                                                         *)
(* A step that fails, or finds no record, ends the handler ("end"), lets   *)
(* it go on ("on"), or takes it to the next record of a loop ("next") or   *)
(* out of the loop ("out").                                                *)
(***************************************************************************)
EXTENDS Sequences

Step(op, t, via, failed, body) ==
  [op |-> op, t |-> t, via |-> via, failed |-> failed, body |-> body, key |-> 0]

\* The copy becomes the record; Take deletes it too.  Vacant ends the handler where there is
\* one; one that cannot be read counts as vacant.
Get(t, failed) == Step("get", t, t, failed, <<>>)
Vacant(t)      == Step("free", t, t, "on", <<>>)
Take(t)        == Step("take", t, t, "end", <<>>)

\* The copy with the handler's own change becomes the record, Blank the change alone;
\* PutBoth writes the entry of index via in the same transaction.
Put(t, failed)   == Step("put", t, t, failed, <<>>)
PutBoth(t, i)    == Step("put", t, i, "end", <<>>)
Blank(t, failed) == Step("blank", t, t, failed, <<>>)

\* A key nobody has used, and a record under it.
FreshKey       == Step("fresh", "none", "none", "on", <<>>)
New(t, failed) == Step("new", t, t, failed, <<>>)

\* A field is set in place, where the record is.
Touch(t, failed) == Step("touch", t, t, failed, <<>>)

Del(t, failed) == Step("del", t, t, failed, <<>>)

\* Lists a table, in one transaction, and does body for each record of it that index via
\* has too, for the handler's own, or for those idle too long.
Each(t, via, failed, body) == Step("each", t, via, failed, body)
EachOwn(t, failed, body)   == Step("own", t, t, failed, body)
EachIdle(t, body)          == Step("idlers", t, t, "end", body)

\* What was listed before, of one table: the handler ends where that is nothing, and does
\* body for each record of it.
SomeOf(t)          == Step("any", t, t, "on", <<>>)
EachAgain(t, body) == Step("again", t, t, "on", body)

\* Deletes all records of the table in one database command, or the idle ones.
Purge(t, failed)     == Step("purge", t, t, failed, <<>>)
PurgeIdle(t, failed) == Step("purgeidle", t, t, failed, <<>>)

\* body only where the table has no such record.
Unless(t, body) == Step("unless", t, t, "on", body)

\* What was listed of table via goes into table t, in memory; all of t is forgotten.
Fill(t, via) == Step("fill", t, via, "on", <<>>)
Forget(t)    == Step("forget", t, t, "on", <<>>)

\* What was listed of the table is sent; whether it arrives is not looked at.
Send(t)      == Step("send", t, t, "on", <<>>)
=============================================================================
