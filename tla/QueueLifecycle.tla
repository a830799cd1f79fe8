--------------------------- MODULE QueueLifecycle ---------------------------
(***************************************************************************)
(* What the merge queue promises for one pull request, whatever managers,  *)
(* goroutines and database writes carry it out (daemon/queue/manager.go):  *)
(* a request waits, may fail a bounded number of times, and ends either    *)
(* merged or in the dead-letter state; somebody may withdraw it before it  *)
(* is merged.  MergeQueue is shown to implement this specification.        *)
(***************************************************************************)
EXTENDS Naturals

CONSTANTS PRs,            \* the pull requests
          MaxRetryCount   \* failures after which a request is given up

VARIABLES phase,          \* phase[p]: where the request for p stands
          tries           \* tries[p]: failures counted against it

vars == <<phase, tries>>

Phases == {"absent", "waiting", "failed", "dead-letter", "merged"}

Init == /\ phase = [p \in PRs |-> "absent"]
        /\ tries = [p \in PRs |-> 0]

\* The request goes to phase s with n failures counted.
Move(p, s, n) == /\ phase' = [phase EXCEPT ![p] = s]
                 /\ tries' = [tries EXCEPT ![p] = n]

Active(p) == phase[p] \in {"waiting", "failed"}

Enqueue(p)  == phase[p] = "absent" /\ Move(p, "waiting", 0)
Defer(p)    == Active(p) /\ Move(p, "waiting", tries[p])
Fail(p)     == Active(p) /\ tries[p] < MaxRetryCount
                 /\ Move(p, "failed", tries[p] + 1)
GiveUp(p)   == phase[p] = "failed" /\ tries[p] = MaxRetryCount
                 /\ Move(p, "dead-letter", tries[p])
Merge(p)    == Active(p) /\ Move(p, "merged", 0)
Withdraw(p) == phase[p] \notin {"absent", "merged"} /\ Move(p, "absent", 0)

Next == \E p \in PRs :
          Enqueue(p) \/ Defer(p) \/ Fail(p) \/ GiveUp(p) \/ Merge(p) \/ Withdraw(p)

Spec == Init /\ [][Next]_vars
=============================================================================
