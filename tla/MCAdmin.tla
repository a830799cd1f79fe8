------------------------------ MODULE MCAdmin ------------------------------
(* The daemon's configuration and the replacement of its binary: they meet *)
(* nowhere, so that a behaviour runs the one that begins.                  *)
EXTENDS Config, SelfUpdate

AdminInit == ConfigInit /\ UpdateInit
AdminNext == \/ daemon /\ starts = 0 /\ ConfigNext /\ UNCHANGED updateVars
             \/ acts = 0 /\ UpdateNext /\ UNCHANGED configVars
Spec == AdminInit /\ [][AdminNext]_<<configVars, updateVars>>

AnyOrder == Permutations(Requests)
=============================================================================
