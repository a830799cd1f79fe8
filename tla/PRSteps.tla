------------------------------ MODULE PRSteps ------------------------------
(***************************************************************************)
(* The steps of the handlers that act on a pull request.  A handler is the *)
(* sequence of its steps that other goroutines can interleave with: reads  *)
(* and writes of the database, and calls of the platform.  What it answers *)
(* and logs is left out, and so are the checks all of them begin with and  *)
(* that end them before any step: a number that is no number, no such      *)
(* group, no client, no owner or repository, no branch.  Events a handler  *)
(* publishes reach their handlers by steps of those.                       *)
(***************************************************************************)
EXTENDS Naturals, Sequences

States   == {"none", "open", "closed", "merged", "spam"}
AnyState == States \ {"none"}

Step(op, what, in) == [op |-> op, what |-> what, in |-> in]

\* A copy of the record, or of what the platform lists; no further unless its state is in S.
Read(S) == Step("read", "", S)
List(S) == Step("list", "", S)

\* The copy takes approval and spam flag from the record; no further if that has its state.
Keep == Step("keep", "", {})

\* A platform call: its error ends the command, or is only logged.
Call(c) == Step("call", c, {})
Try(c)  == Step("try", c, {})

\* GetPR: the copy takes what the platform answers, if it answers.  After a merge it
\* takes the state only, and "merged" without an answer.
Refresh == Step("refresh", "", {})
Outcome == Step("refresh", "merged", {})

\* The copy is changed and written back whole (PutPRWithIndex).
Save(change) == Step("save", change, {})

\* No further unless the test holds.
Only(test) == Step("only", test, {})

\* AddToQueue of the copy, RemoveFromQueue.
Enqueue == Step("enqueue", "", {})
Dequeue == Step("dequeue", "", {})

\* A record and a queue item under the key of no repo group.
Misfile == Step("misfile", "", {})

\* GetSpamAuthor and PutSpamAuthor: the count is read, and written back one higher.
ReadCount  == Step("readcount", "", {})
WriteCount == Step("writecount", "", {})
Count      == <<ReadCount, WriteCount>>

-----------------------------------------------------------------------------
\* What Save makes of a record
Changed(change, r) ==
  CASE change = "approved" -> [r EXCEPT !.approved = TRUE]
    [] change = "voted"    -> [r EXCEPT !.approved = TRUE, !.votes = r.votes + 1]
    [] change = "closed"   -> [r EXCEPT !.state = "closed"]
    [] change = "merged"   -> [r EXCEPT !.state = "merged"]
    [] change = "open"     -> [r EXCEPT !.state = "open", !.spam = FALSE]
    [] change = "spam"     -> [r EXCEPT !.state = "spam", !.spam = TRUE]
    [] change = "draft"    -> [r EXCEPT !.draft = TRUE]
    [] change = "ready"    -> [r EXCEPT !.draft = FALSE]
    [] change = "event"    -> r
=============================================================================
