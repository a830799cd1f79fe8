---------------------------- MODULE MCPRCommands ----------------------------
(***************************************************************************)
(* Instances of PRCommands for TLC.                                        *)
(***************************************************************************)
EXTENDS PRCommands

CONSTANTS user, chat, poll

\* One goroutine carries out requests and chores, the other what is said in chats.
AllSingles == [a \in Users |-> IF a = user THEN RestCommands \cup Chores ELSE ChatCommands]
AllBatches == [a \in Users |-> IF a = user THEN RestBatches ELSE ChatBatches]

\* PR 1 waits in the queue, is marked as a draft and needs a rebase, and no one has
\* approved it; PR 2 is the one a revert would open.
ADraft == [NoRecord EXCEPT !.state = "open", !.draft = TRUE, !.conflict = TRUE]

Start1 == [record    |-> [p \in PRs |-> IF p = 1 THEN ADraft ELSE NoRecord],
           remote    |-> [p \in PRs |-> IF p = 1 THEN [state |-> "open", conflict |-> TRUE]
                                       ELSE [state |-> "none", conflict |-> FALSE]],
           queue     |-> {1},
           did       |-> [p \in PRs |-> {}],
           approvals |-> [p \in PRs |-> 0]]

OneStart == {Start1}
=============================================================================
