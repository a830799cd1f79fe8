------------------------------- MODULE Syncer -------------------------------
(***************************************************************************)
(* Syncing the default branch of a repo group across its platforms.  A     *)
(* pull request merged on one platform starts a goroutine that picks the   *)
(* merge commit onto a copy of that platform's branch and force-pushes the *)
(* copy to the other platforms, under a lock with a lease.  The event      *)
(* consumer and the REST handler that retries a sync have a Syncer each,   *)
(* and so a name each to hold the lock by.  A branch is the set of commits *)
(* it contains.                                                            *)
(***************************************************************************)
EXTENDS Integers, FiniteSets

CONSTANTS
  Platforms,  \* numbered as getTargetPlatforms lists them
  Sources,    \* those where pull requests are merged by others than asika
  Commits,    \* the merge commits
  Side,       \* those that may be merged into another branch than the default one
  Syncs,      \* goroutines
  Configs,    \* platforms of the repo group, repo_clone_path, conflict_check blocking, branch_sync
              \* or sync_tags, sync_pr_state; the commits that do no more than delete files;
              \* and the bound of syncs at once
  NoOne, Gone,  \* who holds a free lock, and who held it before a crash
  Retries,    \* bound: records retried, each once, and while no event waits
  Faults      \* bound: errors of the database and of git other than those always possible, crashes

Holders == {"consumer", "workers"}

ASSUME SyncerAssumption ==
  /\ Platforms \subseteq Int \ {0} /\ Sources \subseteq Platforms /\ {Faults, Retries} \subseteq Nat
  /\ \A c \in Configs : c.platforms \subseteq Platforms /\ c.deletes \subseteq Commits
  /\ NoOne # Gone /\ NoOne \notin Holders \cup Commits /\ Gone \notin Holders

VARIABLES
  config,   \* of the repo group
  home,     \* home[c]: the platform of the pull request of commit c, 0 while there is none
  branch,   \* branch[p]: the default branch of platform p
  due,      \* commits whose sync the consumer has yet to start
  lock,     \* the lock's holder, and whether its lease has run out
  clone,    \* the clone that is kept: where it is from, its default branch, what it has fetched
  sync,     \* sync[g]: what goroutine g is doing
  history,  \* sync records; those of success are left out, for nothing reads them again
  faults,   \* faults left
  \* History of what the code does not look at:
  aside,    \* commits merged into another branch than the default one
  told,     \* commits whose sync failed and was notified
  dropped,  \* commits whose sync ended before it picked them, without a word
  unpicked, \* commits that were picked with success and yet not committed
  mixed     \* two syncs have been at work at once

vars == <<config, home, branch, due, lock, clone, sync, history, faults, aside, told, dropped, unpicked, mixed>>

NoClone == [from |-> 0, head |-> {}, known |-> {}]
Idle == [at |-> "idle", holder |-> NoOne, commit |-> NoOne, own |-> NoClone, copy |-> {},
         left |-> {}, failed |-> FALSE, loose |-> FALSE]
Begun(holder, c) == [Idle EXCEPT !.at = "lock", !.holder = holder, !.commit = c]

Working(g) == sync[g].at \notin {"idle", "lock"}
AtWork == {g \in Syncs : Working(g)}
Commit(g) == sync[g].commit
First(p, S) == p \in S /\ \A q \in S : p <= q

\* getTargetPlatforms
Targets(g) == config.platforms \ {home[Commit(g)]}

\* The clone goroutine g works on
Repo(g) == IF config.keeps THEN clone ELSE sync[g].own

Loosen(s, G) == [g \in Syncs |-> IF g \in G THEN [s[g] EXCEPT !.loose = TRUE] ELSE s[g]]
Goes(g, at) == [sync EXCEPT ![g].at = at]

-----------------------------------------------------------------------------
\* Pull requests are merged by people, into the default branch or another, or closed ones are
\* reopened, which is taken for a merge here; the events reach the consumer.
Merge(c, p) ==
  /\ home[c] = 0 /\ p \in config.platforms /\ home' = [home EXCEPT ![c] = p]
  /\ \/ branch' = [branch EXCEPT ![p] = @ \cup {c}] /\ UNCHANGED aside
     \/ c \in Side /\ aside' = aside \cup {c} /\ UNCHANGED branch
  /\ due' = due \cup {c}
  /\ UNCHANGED <<config, lock, clone, sync, history, faults, told, dropped, unpicked, mixed>>

MayBegin(g) == sync[g] = Idle /\ Cardinality({h \in Syncs : sync[h] # Idle}) < config.atOnce

\* handlePRMerged: a goroutine per event
Start(g, c) ==
  /\ MayBegin(g) /\ c \in due /\ due' = due \ {c}
  /\ sync' = [sync EXCEPT ![g] = Begun("consumer", c)]
  /\ UNCHANGED <<config, home, branch, lock, clone, history, faults, aside, told, dropped, unpicked, mixed>>

\* The record is "retrying" from now on; what comes of it is recorded as a sync of its own.
RetrySync(g, c, t) ==
  /\ MayBegin(g) /\ <<c, t, "failed">> \in history /\ <<c, t, "retrying">> \notin history
  /\ due = {} /\ Cardinality({r \in history : r[3] = "retrying"}) < Retries
  /\ history' = (history \ {<<c, t, "failed">>}) \cup {<<c, t, "retrying">>}
  /\ sync' = [sync EXCEPT ![g] = Begun("workers", c)]
  /\ UNCHANGED <<config, home, branch, due, lock, clone, faults, aside, told, dropped, unpicked, mixed>>

-----------------------------------------------------------------------------
\* Variants, which the properties tell from the code
GrantsUnexpired(holder) == lock.holder \in {NoOne, holder}

\* acquireLock.  A sync is loose once its lock has been let to another, or may be.
Grants(holder) == lock.holder \in {NoOne, holder} \/ lock.old

AcquireSyncLock(g) ==
  /\ sync[g].at = "lock" /\ Grants(sync[g].holder)
  /\ lock' = [holder |-> sync[g].holder, old |-> FALSE]
  /\ LET also == {h \in AtWork : sync[h].holder = sync[g].holder} IN
       sync' = Loosen(Goes(g, "open"), IF also = {} THEN {} ELSE also \cup {g})
  /\ mixed' = (mixed \/ AtWork # {})
  /\ UNCHANGED <<config, home, branch, due, clone, history, faults, aside, told, dropped, unpicked>>

\* Refused, or the database fails: the sync is not tried again.
Refused(g) ==
  /\ sync[g].at = "lock"
  /\ IF Grants(sync[g].holder) THEN faults > 0 /\ faults' = faults - 1 ELSE UNCHANGED faults
  /\ sync' = [sync EXCEPT ![g] = Idle] /\ dropped' = dropped \cup {Commit(g)}
  /\ UNCHANGED <<config, home, branch, due, lock, clone, history, aside, told, unpicked, mixed>>

ReleaseAnyones(g) ==
  /\ sync[g].at = "release" /\ sync' = [sync EXCEPT ![g] = Idle]
  /\ lock' = [holder |-> NoOne, old |-> FALSE]
  /\ UNCHANGED <<config, home, branch, due, clone, history, faults, aside, told, dropped, unpicked, mixed>>

\* ReleaseSyncLock, deferred: only the holder's own.  The record may be lost to an error.
Release(g) ==
  /\ sync[g].at = "release" /\ sync' = [sync EXCEPT ![g] = Idle]
  /\ \/ /\ lock' = IF lock.holder = sync[g].holder THEN [holder |-> NoOne, old |-> FALSE] ELSE lock
        /\ UNCHANGED faults
     \/ faults > 0 /\ faults' = faults - 1 /\ UNCHANGED lock
  /\ UNCHANGED <<config, home, branch, due, clone, history, aside, told, dropped, unpicked, mixed>>

-----------------------------------------------------------------------------
\* prepareRepoDir, openOrClone, FetchRemote.  The clone that is kept stays what its first sync
\* cloned; its default branch does not follow what is fetched.
Fetched(p) == branch[p] \cup {c \in aside : home[c] = p}
Cloned(p)  == [from |-> p, head |-> branch[p], known |-> Fetched(p)]

Open(g) ==
  /\ sync[g].at = "open"
  /\ IF config.keeps
     THEN /\ clone' = IF clone = NoClone THEN Cloned(home[Commit(g)])
                      ELSE [clone EXCEPT !.known = @ \cup Fetched(clone.from)]
          /\ sync' = Goes(g, "checkout")
     ELSE /\ sync' = [sync EXCEPT ![g] = [@ EXCEPT !.own = Cloned(home[Commit(g)]), !.at = "checkout"]]
          /\ UNCHANGED clone
  /\ UNCHANGED <<config, home, branch, due, lock, history, faults, aside, told, dropped, unpicked, mixed>>

\* No directory, no clone, no such branch to check out: only logged.
Gives(g) ==
  /\ sync[g].at \in {"open", "checkout"} /\ faults > 0 /\ faults' = faults - 1
  /\ sync' = Goes(g, "release") /\ dropped' = dropped \cup {Commit(g)}
  /\ UNCHANGED <<config, home, branch, due, lock, clone, history, aside, told, unpicked, mixed>>

\* preSyncConflictCheck: a target may have an open pull request from the same branch.  Then
\* CheckoutBranch: picking writes back the files as they are now, with the commit's own.
Checkout(g) ==
  /\ sync[g].at = "checkout"
  /\ \/ sync' = [sync EXCEPT ![g].at = "pick", ![g].copy = Repo(g).head] /\ UNCHANGED told
     \/ config.blocking /\ sync' = Goes(g, "release") /\ told' = told \cup {Commit(g)}
  /\ UNCHANGED <<config, home, branch, due, lock, clone, history, faults, aside, dropped, unpicked, mixed>>

\* gitutil.CherryPick.  Files the branch has changed since the commit's parent are conflicts,
\* so for a commit it contains nothing is left to apply only if that deletes files alone.
Applies(g) == Commit(g) \in sync[g].copy \cup Repo(g).known

\* Files are counted as staged where they are written, not where they are deleted: a commit that
\* does no more than delete leaves the branch as it was, for the next checkout restores them.
Stages(g) == Commit(g) \notin sync[g].copy \cup config.deletes

\* cherryPickWithRetry.  No error of CherryPick is one that isConflictError knows, so there is
\* no second attempt and no fallback.
CherryPick(g) ==
  LET c == Commit(g)   head == sync[g].copy \cup {c}
      next == [sync[g] EXCEPT !.at = "push", !.copy = {}, !.left = Targets(g)] IN
  /\ sync[g].at = "pick" /\ Applies(g)
  /\ \/ /\ ~Stages(g) /\ sync' = [sync EXCEPT ![g] = next] /\ UNCHANGED clone
        /\ unpicked' = IF c \in sync[g].copy THEN unpicked ELSE unpicked \cup {c}
     \/ /\ Stages(g) /\ UNCHANGED unpicked
        /\ clone' = IF config.keeps THEN [clone EXCEPT !.head = head] ELSE clone
        /\ sync' = [sync EXCEPT ![g] = IF config.keeps THEN next ELSE [next EXCEPT !.own.head = head]]
  /\ UNCHANGED <<config, home, branch, due, lock, history, faults, aside, told, dropped, mixed>>

PickFailsUnseen(g) ==
  /\ sync[g].at = "pick" /\ sync' = [sync EXCEPT ![g].at = "push", ![g].left = Targets(g)]
  /\ UNCHANGED <<config, home, branch, due, lock, clone, history, faults, aside, told, dropped, unpicked, mixed>>

PickFails(g) ==
  /\ sync[g].at = "pick" /\ sync' = Goes(g, "release") /\ told' = told \cup {Commit(g)}
  /\ UNCHANGED <<config, home, branch, due, lock, clone, history, faults, aside, dropped, unpicked, mixed>>

-----------------------------------------------------------------------------
PushesTo(g, t) == sync[g].at = "push" /\ First(t, sync[g].left)
Past(g, t) == [sync[g] EXCEPT !.left = @ \ {t}]

\* PushWithForce: the target's branch becomes the clone's.  Nothing to push is an error.
Push(g, t) ==
  /\ PushesTo(g, t) /\ branch[t] # Repo(g).head
  /\ branch' = [branch EXCEPT ![t] = Repo(g).head]
  /\ sync' = [sync EXCEPT ![g] = Past(g, t)]
  /\ UNCHANGED <<config, home, due, lock, clone, history, faults, aside, told, dropped, unpicked, mixed>>

\* The record may be lost to an error.
PushFails(g, t) ==
  /\ PushesTo(g, t)
  /\ sync' = [sync EXCEPT ![g] = [Past(g, t) EXCEPT !.failed = TRUE]]
  /\ \/ history' = history \cup {<<Commit(g), t, "failed">>} /\ UNCHANGED faults
     \/ faults > 0 /\ faults' = faults - 1 /\ UNCHANGED history
  /\ UNCHANGED <<config, home, branch, due, lock, clone, aside, told, dropped, unpicked, mixed>>

PushedOn(g) ==
  /\ sync[g].at = "push" /\ sync[g].left = {} /\ sync' = Goes(g, "refs")
  /\ told' = IF sync[g].failed THEN told \cup {Commit(g)} ELSE told
  /\ UNCHANGED <<config, home, branch, due, lock, clone, history, faults, aside, dropped, unpicked, mixed>>

\* The end of pushBranchToTargets
Pushed(g) ==
  /\ sync[g].at = "push" /\ sync[g].left = {}
  /\ IF sync[g].failed THEN sync' = Goes(g, "release") /\ told' = told \cup {Commit(g)}
                       ELSE sync' = Goes(g, "refs") /\ UNCHANGED told
  /\ UNCHANGED <<config, home, branch, due, lock, clone, history, faults, aside, dropped, unpicked, mixed>>

\* syncAllBranches, syncAllTags: pushRef names neither a remote nor a destination, which git
\* refuses, so every target has a failed record, also for the branch just pushed.
SyncAllRefs(g) ==
  /\ sync[g].at = "refs"
  /\ history' = IF config.refs THEN history \cup {<<Commit(g), t, "failed">> : t \in Targets(g)}
                ELSE history
  /\ sync' = IF config.prs /\ Targets(g) # {} THEN [sync EXCEPT ![g].at = "prs", ![g].left = Targets(g)]
             ELSE Goes(g, "release")
  /\ UNCHANGED <<config, home, branch, due, lock, clone, faults, aside, told, dropped, unpicked, mixed>>

\* findTargetPR, verifyPRState
Mirrors == {m \in Commits : home[m] = 0}
MirrorMerged(m, t) ==
  /\ home' = [home EXCEPT ![m] = t] /\ branch' = [branch EXCEPT ![t] = @ \cup {m}] /\ due' = due \cup {m}

\* syncTargetPR: the pull request on the target is merged, which comes back as a merge of the
\* target's; or there is none, or merging fails three times.
SyncTargetPR(g, t) ==
  /\ sync[g].at = "prs" /\ First(t, sync[g].left)
  /\ sync' = [sync EXCEPT ![g].left = @ \ {t}, ![g].at = IF sync[g].left = {t} THEN "release" ELSE "prs"]
  /\ \/ \E m \in Mirrors : MirrorMerged(m, t)
     \/ UNCHANGED <<home, branch, due>>
  /\ UNCHANGED <<config, lock, clone, history, faults, aside, told, dropped, unpicked, mixed>>

-----------------------------------------------------------------------------
\* Ten minutes pass; syncs do not look at the time.
LeaseExpires ==
  /\ lock.holder # NoOne /\ ~lock.old /\ lock' = [lock EXCEPT !.old = TRUE]
  /\ sync' = Loosen(sync, {g \in AtWork : sync[g].holder = lock.holder})
  /\ UNCHANGED <<config, home, branch, due, clone, history, faults, aside, told, dropped, unpicked, mixed>>

\* The Syncers of the next start have new names.
Crash ==
  /\ faults > 0 /\ faults' = faults - 1
  /\ sync' = [g \in Syncs |-> Idle] /\ due' = {}
  /\ lock' = IF lock.holder = NoOne THEN lock ELSE [lock EXCEPT !.holder = Gone]
  /\ dropped' = dropped \cup due \cup {Commit(g) : g \in {h \in Syncs : sync[h].at # "idle"}}
  /\ UNCHANGED <<config, home, branch, clone, history, aside, told, unpicked, mixed>>

-----------------------------------------------------------------------------
Init ==
  /\ config \in Configs
  /\ home = [c \in Commits |-> 0] /\ branch = [p \in Platforms |-> {}] /\ due = {}
  /\ lock = [holder |-> NoOne, old |-> FALSE] /\ clone = NoClone
  /\ sync = [g \in Syncs |-> Idle] /\ history = {} /\ faults = Faults
  /\ aside = {} /\ told = {} /\ dropped = {} /\ unpicked = {} /\ mixed = FALSE

Steps(g) ==
  \/ AcquireSyncLock(g) \/ Refused(g) \/ Open(g) \/ Gives(g) \/ Checkout(g)
  \/ CherryPick(g) \/ PickFails(g) \/ Pushed(g) \/ SyncAllRefs(g) \/ Release(g)
  \/ \E t \in Platforms : Push(g, t) \/ PushFails(g, t) \/ SyncTargetPR(g, t)

Next ==
  \/ \E c \in Commits, p \in Sources : Merge(c, p)
  \/ \E g \in Syncs, c \in Commits : Start(g, c)
  \/ \E g \in Syncs, c \in Commits, t \in Platforms : RetrySync(g, c, t)
  \/ \E g \in Syncs : Steps(g)
  \/ LeaseExpires \/ Crash

\* Goroutines run on and time passes; no one need merge or retry anything.
Fairness ==
  /\ WF_vars(LeaseExpires)
  /\ \A g \in Syncs : WF_vars(Steps(g)) /\ WF_vars(\E c \in Commits : Start(g, c))

Spec == Init /\ [][Next]_vars /\ Fairness

-----------------------------------------------------------------------------
Clones == [from : Platforms \cup {0}, head : SUBSET Commits, known : SUBSET Commits]

Places == {"idle", "lock", "open", "checkout", "pick", "push", "refs", "prs", "release"}
SyncRecords == [at : Places, holder : Holders \cup {NoOne}, commit : Commits \cup {NoOne}, own : Clones,
                copy : SUBSET Commits, left : SUBSET Platforms, failed : BOOLEAN, loose : BOOLEAN]

TypeOK ==
  /\ config \in Configs /\ lock \in [holder : Holders \cup {NoOne, Gone}, old : BOOLEAN]
  /\ home \in [Commits -> Platforms \cup {0}] /\ branch \in [Platforms -> SUBSET Commits]
  /\ clone \in Clones /\ history \subseteq Commits \X Platforms \X {"failed", "retrying"}
  /\ sync \in [Syncs -> SyncRecords]
  /\ due \subseteq Commits /\ aside \subseteq Commits /\ told \subseteq Commits
  /\ dropped \subseteq Commits /\ unpicked \subseteq Commits /\ mixed \in BOOLEAN /\ faults \in Nat

\* Two syncs of one group are at work at once only if the lock was let to one of them while
\* it was the other's: both go by the same name, or the lease had run out.
Alone == \A g, h \in AtWork : g # h => sync[g].loose \/ sync[h].loose

\* The commits outside S whose sync is over are on every platform, whatever later syncs overwrite.
Arrived(S) ==
  ~mixed => \A c \in Commits \ S :
    home[c] # 0 /\ c \notin due /\ (\A g \in Syncs : Commit(g) # c) => \A p \in config.platforms : c \in branch[p]

\* A commit whose sync is over is on every platform, unless its failure was told, the sync did
\* not get as far as picking it, picking it committed nothing, or two syncs worked at once.
NothingLost == Arrived(aside \cup told \cup dropped \cup unpicked)

\* asika merges a mirror's pull request only where the code has arrived before, if there was any
\* code to commit.
CodeFirst ==
  [][\A g \in Syncs : sync[g].at = "prs" /\ sync'[g].at # "prs" /\ ~mixed /\ faults' = faults =>
       Commit(g) \in unpicked \/ \A t \in Targets(g) : Commit(g) \in branch[t]]_vars

\* The lock is never kept from anyone for good: not by a crash, an error or a long sync.
LockReturns == \A h \in Holders : []<>Grants(h)
=============================================================================
