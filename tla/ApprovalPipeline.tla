-------------------------- MODULE ApprovalPipeline --------------------------
(***************************************************************************)
(* The way of pull requests from an approval to the merge:                 *)
(* handlePRApproved (daemon/consumer/handlers.go), the pending queue       *)
(* (daemon/queue/pending.go) and the queue, which judge them with          *)
(* MergeDecision while users and platform go on changing them.  The        *)
(* interleaving of CheckQueue with other writers is left to MergeQueue.    *)
(*                                                                         *)
(* An item of the queue has key "group#ID".  The pull requests in webhooks *)
(* have no ID: their key is "group#", and the records they are written     *)
(* over lose theirs.  Key p below is the one with the ID of PR p, key g    *)
(* that of group g without ID.  PRs are numbered in the order of their     *)
(* keys in the database; the IDs one PR may have in turn are one.          *)
(***************************************************************************)
EXTENDS MergeDecision

CONSTANTS PRs,            \* the pull requests
          Groups,         \* the repo groups
          GroupOf,        \* the group of each PR
          Configs,        \* configurations of the repo groups
          FirstRecord,    \* a PR at the start
          FirstFacts,     \* what the platform may answer about it at the start
          AllFacts,       \* what it may come to answer
          MaxRetryCount,  \* maxRetryCount
          MaxChanges      \* bound: changes made by users, platform and failures

ASSUME PipelineAssumption ==
  /\ PRs \subseteq Nat /\ PRs \cap Groups = {} /\ GroupOf \in [PRs -> Groups]
  /\ Configs \subseteq Config /\ FirstRecord \in Record
  /\ FirstFacts \subseteq Facts /\ AllFacts \subseteq Facts
  /\ MaxRetryCount \in Nat \ {0} /\ MaxChanges \in Nat

VARIABLES
  cfg,      \* the configuration of the groups; it does not change
  rec,      \* the records of the PRs
  named,    \* does the record have the ID of its PR?
  facts,    \* what the platform answers about each PR
  event,    \* the approval handler: "none", or what it is about to do
  pending,  \* is there an entry in the pending bucket?
  check,    \* the pending worker: "none", or what it is about to do
  item,     \* the items of the merge queue
  tries,    \* their RetryCount
  changes   \* changes left

vars == <<cfg, rec, named, facts, event, pending, check, item, tries, changes>>
queue == <<item, tries>>

Keys == PRs \cup Groups

\* The PR that getPRFromDB finds for key k, and the one that FindPRByID finds: given no
\* ID each takes the first record that has none, of the group or of the database.
Earliest(S) == {p \in S : \A q \in S : p <= q}
Found(k) == IF k \in PRs THEN {k} ELSE Earliest({p \in PRs : GroupOf[p] = k /\ ~named[p]})
Taken(k) == IF k \in PRs THEN {k} ELSE Earliest({p \in PRs : ~named[p]})

\* checkOne's first test; spam is not told from the other closed PRs.
Open(r) == r.state = "open" /\ ~r.draft

\* What to do with a PR judged v: an error is only logged by the approval handler,
\* the pending worker keeps the entry.
OnApproval(v) == CASE v = "yes" -> "queue" [] v = "no" -> "pend" [] OTHER -> "none"
OnCheck(v)    == IF v = "yes" THEN "queue" ELSE "pend"

Changed == changes > 0 /\ changes' = changes - 1

-----------------------------------------------------------------------------
\* AddToQueue of an open PR that is no draft: an item there is left as it is.
Queued(k) ==
  IF item[k] # "none" THEN UNCHANGED queue
  ELSE item' = [item EXCEPT ![k] = "waiting"] /\ tries' = [tries EXCEPT ![k] = 0]

\* A webhook says that PR p is approved, and nothing of conflicts.
Approved(p) ==
  /\ event[p] = "none" /\ Changed
  /\ LET r == [rec[p] EXCEPT !.conflict = FALSE] IN
     event' = [event EXCEPT ![p] = OnApproval(IsReadyToMerge(cfg, r, facts[p]))]
  /\ UNCHANGED <<cfg, rec, named, facts, pending, check, queue>>

\* The handler goes on to AddToQueue or AddPending.
Handled(p) ==
  /\ event[p] # "none"
  /\ event' = [event EXCEPT ![p] = "none"]
  /\ \/ event[p] = "queue" /\ Queued(GroupOf[p]) /\ UNCHANGED pending
     \/ event[p] = "pend" /\ pending' = [pending EXCEPT ![p] = TRUE] /\ UNCHANGED queue
  /\ UNCHANGED <<cfg, rec, named, facts, check, changes>>

\* A user approves PR p through the server or a bot, which queue it unjudged, with an ID.
ApprovePR(p) ==
  /\ Changed
  /\ named' = [named EXCEPT ![p] = TRUE]
  /\ IF Open(rec[p]) THEN Queued(p) ELSE UNCHANGED queue
  /\ UNCHANGED <<cfg, rec, facts, event, pending, check>>

\* checkOne reads a record for the entry of PR p, which has no ID, and judges it.
CheckPending(p) ==
  /\ pending[p] /\ check[p] = "none"
  /\ \/ /\ Found(GroupOf[p]) = {}
        /\ check' = [check EXCEPT ![p] = "drop"]
     \/ \E q \in Found(GroupOf[p]) :
          check' = [check EXCEPT ![p] =
                      IF Open(rec[q]) THEN OnCheck(IsReadyToMerge(cfg, rec[q], facts[q]))
                      ELSE "drop"]
  /\ UNCHANGED <<cfg, rec, named, facts, event, pending, queue, changes>>

\* It puts the entry back, deletes it, or deletes it after AddToQueue.
PromoteForgetting(p) ==
  /\ check[p] # "none"
  /\ check' = [check EXCEPT ![p] = "none"]
  /\ pending' = [pending EXCEPT ![p] = (check[p] = "pend")]
  /\ UNCHANGED <<cfg, rec, named, facts, event, queue, changes>>
Checked(p) ==
  /\ check[p] # "none"
  /\ check' = [check EXCEPT ![p] = "none"]
  /\ pending' = [pending EXCEPT ![p] = (check[p] = "pend")]
  /\ IF check[p] = "queue" THEN Queued(GroupOf[p]) ELSE UNCHANGED queue
  /\ UNCHANGED <<cfg, rec, named, facts, event, changes>>

-----------------------------------------------------------------------------
Becomes(k, status) == item' = [item EXCEPT ![k] = status]
Failed(k) == Becomes(k, "failed") /\ tries' = [tries EXCEPT ![k] = @ + 1]
Removed(k) == Becomes(k, "none") /\ tries' = [tries EXCEPT ![k] = 0]

Exhausted(k)     == item[k] = "failed" /\ tries[k] >= MaxRetryCount

\* CheckQueue judges item k, once the back-off of a failed one is over.
Judge(k) ==
  LET v == [p \in Found(k) |-> ShouldMerge(cfg, rec[p], facts[p])] IN
  \/ Found(k) = {} /\ Failed(k)
  \/ \E p \in Found(k) :
       \/ v[p] = "yes" /\ Becomes(k, "merging") /\ UNCHANGED tries
       \/ v[p] \in {"no", "wait"} /\ Becomes(k, "waiting") /\ UNCHANGED tries
       \/ v[p] = "fail" /\ Failed(k)

CheckItem(k) ==
  /\ item[k] \in {"waiting", "failed"}
  /\ \A j \in Keys : item[j] # "merging"
  /\ IF Exhausted(k) THEN Becomes(k, "dead-letter") /\ UNCHANGED tries ELSE Judge(k)
  /\ UNCHANGED <<cfg, rec, named, facts, event, pending, check, changes>>

\* merge: the platform takes open PRs only, and may refuse drafts and conflicts.
MergeItem(k) ==
  /\ item[k] = "merging"
  /\ \/ \E p \in Taken(k) :
          /\ rec[p].state = "open" /\ facts[p].fault # "merge"
          /\ rec' = [rec EXCEPT ![p].state = "merged"]
          /\ Removed(k)
     \/ /\ \A p \in Taken(k) : \/ rec[p].state # "open" \/ rec[p].draft
                                \/ rec[p].conflict \/ facts[p].fault = "merge"
        /\ Failed(k) /\ UNCHANGED rec
  /\ UNCHANGED <<cfg, named, facts, event, pending, check, changes>>

-----------------------------------------------------------------------------
\* Users and platform: reviews, CI results, alerts, failures.
FactsChange(p) ==
  /\ Changed
  /\ \E f \in AllFacts \ {facts[p]} : facts' = [facts EXCEPT ![p] = f]
  /\ UNCHANGED <<cfg, rec, named, event, pending, check, queue>>

\* Closing a PR or making it a draft through the server takes its own item away.
Dequeued(p) == item[p] \in {"waiting", "failed", "dead-letter"} /\ Removed(p)

\* The server edits PR p.
Edited(p) ==
  /\ \/ rec[p].draft /\ rec' = [rec EXCEPT ![p].draft = FALSE] /\ UNCHANGED queue
     \/ ~rec[p].draft /\ rec' = [rec EXCEPT ![p].draft = TRUE]
          /\ (UNCHANGED queue \/ Dequeued(p))
     \/ rec[p].state = "open" /\ rec' = [rec EXCEPT ![p].state = "closed"]
          /\ (UNCHANGED queue \/ Dequeued(p))
     \/ rec[p].state = "closed" /\ rec' = [rec EXCEPT ![p].state = "open"]
          /\ UNCHANGED queue
  /\ UNCHANGED named

\* A webhook says that PR p is closed, open again, labeled or to be changed: updatePR
\* writes the PR it carries over the record.
Overwritten(p) ==
  /\ \E s \in {"open", "closed"} :
       rec' = [rec EXCEPT ![p].state = s, ![p].conflict = FALSE]
  /\ named' = [named EXCEPT ![p] = FALSE]
  /\ UNCHANGED queue

\* The poller writes the PR as the platform lists it, with an ID and maybe in conflict.
Polled(p) ==
  /\ rec' = [rec EXCEPT ![p].conflict = ~@]
  /\ named' = [named EXCEPT ![p] = TRUE]
  /\ UNCHANGED queue

RecordChanges(p) ==
  /\ Changed
  /\ rec[p].state # "merged"
  /\ Edited(p) \/ Overwritten(p) \/ Polled(p)
  /\ UNCHANGED <<cfg, facts, event, pending, check>>

-----------------------------------------------------------------------------
Init == /\ cfg \in Configs /\ rec = [p \in PRs |-> FirstRecord] /\ named \in [PRs -> BOOLEAN]
        /\ facts \in [PRs -> FirstFacts]
        /\ event = [p \in PRs |-> "none"] /\ pending = [p \in PRs |-> FALSE]
        /\ check = [p \in PRs |-> "none"]
        /\ item = [k \in Keys |-> "none"] /\ tries = [k \in Keys |-> 0]
        /\ changes = MaxChanges

Next == \/ \E p \in PRs : \/ Approved(p) \/ Handled(p) \/ ApprovePR(p)
                          \/ CheckPending(p) \/ Checked(p)
                          \/ FactsChange(p) \/ RecordChanges(p)
        \/ \E k \in Keys : CheckItem(k) \/ MergeItem(k)

Spec == Init /\ [][Next]_vars

\* The tickers of the pending queue and of the queue keep calling, handlers finish.
Fairness ==
  /\ \A p \in PRs : WF_vars(Handled(p)) /\ WF_vars(CheckPending(p)) /\ WF_vars(Checked(p))
  /\ \A k \in Keys : SF_vars(CheckItem(k)) /\ WF_vars(MergeItem(k))

FairSpec == Spec /\ Fairness

-----------------------------------------------------------------------------
ItemStates == {"none", "waiting", "merging", "failed", "dead-letter"}

\* Only a failed or dead item has used up its retries.
ItemsOK ==
  /\ item \in [Keys -> ItemStates] /\ tries \in [Keys -> 0..MaxRetryCount]
  /\ \A k \in Keys : item[k] \in {"none", "waiting", "merging"} => tries[k] < MaxRetryCount

\* Types.  RetryCount never passes maxRetryCount, and only a failed or dead item
\* reaches it: CheckQueue buries it before it could be merged or fail once more.
TypeOK ==
  /\ cfg \in Config /\ rec \in [PRs -> Record] /\ facts \in [PRs -> Facts]
  /\ named \in [PRs -> BOOLEAN] /\ pending \in [PRs -> BOOLEAN]
  /\ event \in [PRs -> {"none", "queue", "pend"}]
  /\ check \in [PRs -> {"none", "queue", "pend", "drop"}]
  /\ changes \in 0..MaxChanges
  /\ ItemsOK

\* What a merge needs, said without gates: of people who may write to the repository
\* enough approve, one of them for every touched path that has approvers of its own.
MayMerge(k, r, f) ==
  /\ ~r.draft /\ (r.conflict => f.rebases) /\ (k.security => ~f.alerts)
  /\ k.expr # <<>> => ByExpression(k, f) = "yes"
  /\ k.expr = <<>> =>
       /\ \E S \in SUBSET (f.approvers \cap f.writers) : Cardinality(S) >= k.required
       /\ \A q \in k.rules \cap f.touched : q.approvers \cap f.approvers \cap f.writers # {}
       /\ k.ciRequired => f.ci \in {"success", "none"}
       /\ r.labels \cap k.exempt = {} => ~(k.sizeBlocks /\ f.big)
                                        /\ (k.templateBlocks => f.described)

\* CheckQueue starts to merge only for a PR that may be merged at that moment, whatever
\* was true when it was queued, and for none while a platform call it needs fails.
Mergeable(k) ==
  \E p \in Found(k) : /\ MayMerge(cfg, rec[p], facts[p])
                     /\ facts[p].fault # "approvals"
                     /\ (cfg.security => facts[p].fault # "security")
                     /\ (cfg.ciRequired => facts[p].fault # "ci")
OnlyMergeable ==
  [][\A k \in Keys : item[k] # "merging" /\ item'[k] = "merging" => Mergeable(k)]_vars

\* With no expression the test that queues an open PR without conflicts and the test
\* that merges it agree: nothing is queued that CheckQueue would then leave waiting.
Agreement ==
  \A p \in PRs : cfg.expr = <<>> /\ rec[p].state = "open" /\ ~rec[p].conflict =>
    (IsReadyToMerge(cfg, rec[p], facts[p]) = "yes" <=> ShouldMerge(cfg, rec[p], facts[p]) = "yes")

\* PR p waits in the pending queue or at key k of the merge queue, and is not about to
\* be dropped.
Tracked(p, k) == \/ k = GroupOf[p] /\ pending[p] /\ check[p] # "drop" /\ item[k] = "none"
                 \/ item[k] \in {"waiting", "merging"}
                 \/ item[k] = "failed" /\ tries[k] < MaxRetryCount

Merged(p) == rec[p].state = "merged"

\* Both tests are content with PR p, nothing fails, and key k leads to p.
Good(p, k) == /\ IsReadyToMerge(cfg, rec[p], facts[p]) = "yes"
              /\ ShouldMerge(cfg, rec[p], facts[p]) = "yes"
              /\ facts[p].fault = "nothing"
              /\ Found(k) = {p} /\ Taken(k) = {p}

\* A PR in either queue is merged once it stays good and its entry leads to it: it is
\* not lost between the two, and earlier failures do not hold it back.
ApprovedIsMerged ==
  \A p \in PRs : \A k \in Keys :
    [](Tracked(p, k) /\ [](Good(p, k) \/ Merged(p)) => <>Merged(p))

\* README.md:20, "PRs are only merged when approvals and CI checks are complete": a
\* merge takes a PR with the approvals its group asks for.
MergedIsApproved ==
  [][\A p \in PRs : ~Merged(p) /\ Merged(p)' => CountGate(cfg, facts[p]) = "pass"]_vars
=============================================================================
