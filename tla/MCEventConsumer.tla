-------------------------- MODULE MCEventConsumer --------------------------
(***************************************************************************)
(* Instances of EventConsumer for TLC, with small pools: one to two        *)
(* workers and two places in the channel, so that the channel fills, the   *)
(* pool grows and shrinks, and a Submit blocks.                            *)
(***************************************************************************)
EXTENDS EventConsumer

None == 0

Small  == [min |-> 1, max |-> 2, up |-> 75, down |-> 25]
Narrow == [min |-> 1, max |-> 1, up |-> 50, down |-> 25]

SmallAndNarrow == {Small, Narrow}
=============================================================================
