------------------------------ MODULE MCSyncer ------------------------------
(***************************************************************************)
(* Instances of Syncer for TLC.                                            *)
(***************************************************************************)
EXTENDS Syncer

CONSTANT Deleting  \* a commit that only deletes files

Plain == [keeps |-> FALSE, blocking |-> FALSE, refs |-> FALSE, prs |-> FALSE, platforms |-> {1, 2},
          deletes |-> {}, atOnce |-> 2]

Kept == [Plain EXCEPT !.keeps = TRUE, !.prs = TRUE]
KeptDeleting == [Kept EXCEPT !.deletes = {Deleting}, !.atOnce = 1]

\* Two syncs at once on a clone that is kept, with mirrors' pull requests merged; one at a time,
\* with a commit that only deletes; and syncs with clones of their own to two targets, of which
\* one may fail.
AllConfigs == {Kept, KeptDeleting,
               [Plain EXCEPT !.blocking = TRUE, !.refs = TRUE, !.platforms = Platforms,
                             !.deletes = {Deleting}, !.atOnce = 1]}
=============================================================================
