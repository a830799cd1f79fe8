---------------------------- MODULE SyncerProofs ----------------------------
(***************************************************************************)
(* For any number of goroutines, platforms and commits: a sync that may    *)
(* believe the lock its own has it to itself; and as long as syncs have    *)
(* been at work one at a time, no push takes away what an earlier one has  *)
(* brought, and the code is there before the mirrors' pull requests merge. *)
(***************************************************************************)
EXTENDS Syncer, TLAPS

\* A goroutine that does something does it for a commit, under a name; a commit that is
\* synced, is to be, or has a record has been merged somewhere; the kept clone is from somewhere.
Named ==
  /\ \A g \in Syncs : sync[g].at # "idle" =>
       Commit(g) \in Commits /\ sync[g].holder \in Holders /\ home[Commit(g)] # 0
  /\ \A c \in due : home[c] # 0
  /\ \A r \in history : home[r[1]] # 0
  /\ clone # NoClone => clone.from # 0

\* Two at work under one name are both loose.
NameOnce == \A g, h \in AtWork : g # h /\ sync[g].holder = sync[h].holder => sync[g].loose /\ sync[h].loose

\* The lock is that of any sync at work that is not loose, and its lease runs.
LockIs == \A g \in AtWork : ~sync[g].loose => lock.holder = sync[g].holder /\ ~lock.old

IInv == TypeOK /\ Named /\ NameOnce /\ LockIs

\* The steps between taking the lock and releasing it, which leave it alone
Inside(g) ==
  \/ Open(g) \/ Gives(g) \/ Checkout(g) \/ CherryPick(g) \/ PickFails(g) \/ Pushed(g)
  \/ SyncAllRefs(g) \/ \E t \in Platforms : Push(g, t) \/ PushFails(g, t) \/ SyncTargetPR(g, t)
-----------------------------------------------------------------------------
\* The operators of the module have their types.
LEMMA OperatorTypes ==
  ASSUME TypeOK, Named, NEW g \in Syncs
  PROVE  /\ sync[g] \in SyncRecords /\ sync[g].copy \subseteq Commits /\ sync[g].left \subseteq Platforms
         /\ sync[g].at # "idle" => Commit(g) \in Commits /\ home[Commit(g)] \in Platforms
         /\ Targets(g) \subseteq Platforms
         /\ Repo(g).head \subseteq Commits /\ Repo(g).known \subseteq Commits
         /\ \A p \in Platforms : Fetched(p) \subseteq Commits
<1>1. sync[g] \in SyncRecords
  BY DEF TypeOK
<1>2. sync[g].copy \subseteq Commits /\ sync[g].left \subseteq Platforms /\ sync[g].own \in Clones
  BY <1>1 DEF SyncRecords
<1>3. Repo(g) \in Clones
  BY <1>2 DEF Repo, TypeOK
<1>4. Targets(g) \subseteq Platforms
  BY SyncerAssumption DEF Targets, TypeOK
<1>5. \A p \in Platforms : Fetched(p) \subseteq Commits
  BY DEF Fetched, TypeOK
<1>6. sync[g].at # "idle" => Commit(g) \in Commits /\ home[Commit(g)] \in Platforms
  BY DEF Named, TypeOK
<1> QED
  BY <1>1, <1>2, <1>3, <1>4, <1>5, <1>6 DEF Clones

LEMMA ClonedType ==
  ASSUME TypeOK, NEW p \in Platforms
  PROVE  Cloned(p) \in Clones
BY SyncerAssumption DEF Cloned, Fetched, Clones, TypeOK

\* The steps between taking and releasing the lock change neither it, nor who works by which
\* name, nor who is loose.
Kept == /\ lock' = lock
        /\ \A h \in Syncs : /\ sync'[h].holder = sync[h].holder /\ sync'[h].loose = sync[h].loose
                            /\ sync'[h].commit = sync[h].commit
                            /\ (Working(h)' <=> Working(h)) /\ (sync'[h].at = "idle" <=> sync[h].at = "idle")

LEMMA InsideKeeps ==
  ASSUME TypeOK, NEW g \in Syncs, Inside(g)
  PROVE  Kept
<1>1. CASE Open(g)
  <2>1. CASE config.keeps
    BY <1>1, <2>1 DEF Kept, Open, TypeOK, SyncRecords, Working, Goes
  <2>2. CASE ~config.keeps
    <3> DEFINE r == [sync[g] EXCEPT !.own = Cloned(home[Commit(g)]), !.at = "checkout"]
    <3>1. sync' = [sync EXCEPT ![g] = r] /\ lock' = lock /\ sync[g].at = "open"
      BY <1>1, <2>2 DEF Open
    <3>2. r.holder = sync[g].holder /\ r.loose = sync[g].loose /\ r.commit = sync[g].commit /\ r.at = "checkout"
      BY DEF TypeOK, SyncRecords
    <3> HIDE DEF r
    <3> QED
      BY <3>1, <3>2 DEF Kept, TypeOK, SyncRecords, Working
  <2> QED
    BY <2>1, <2>2
<1>2. CASE Gives(g)
  BY <1>2 DEF Kept, Gives, TypeOK, SyncRecords, Working, Goes
<1>3. CASE Checkout(g)
  BY <1>3, SMTT(30) DEF Kept, Checkout, TypeOK, SyncRecords, Working, Goes
<1>4. CASE CherryPick(g)
  <2> DEFINE r == [sync[g] EXCEPT !.at = "push", !.copy = {}, !.left = Targets(g)]
             q == [r EXCEPT !.own.head = sync[g].copy \cup {Commit(g)}]
  <2>1. /\ sync' = [sync EXCEPT ![g] = r] \/ sync' = [sync EXCEPT ![g] = q]
        /\ lock' = lock /\ sync[g].at = "pick"
    BY <1>4 DEF CherryPick
  <2>2. r.holder = sync[g].holder /\ r.loose = sync[g].loose /\ r.commit = sync[g].commit /\ r.at = "push"
    BY DEF TypeOK, SyncRecords
  <2>3. q.holder = r.holder /\ q.loose = r.loose /\ q.commit = r.commit /\ q.at = r.at
    BY DEF TypeOK, SyncRecords
  <2> HIDE DEF r, q
  <2> QED
    BY <2>1, <2>2, <2>3 DEF Kept, TypeOK, SyncRecords, Working
<1>5. CASE PickFails(g)
  BY <1>5 DEF Kept, PickFails, TypeOK, SyncRecords, Working, Goes
<1>6. CASE Pushed(g)
  <2>1. (sync' = Goes(g, "release") \/ sync' = Goes(g, "refs")) /\ lock' = lock /\ sync[g].at = "push"
    BY <1>6 DEF Pushed
  <2> QED
    BY <2>1 DEF Kept, TypeOK, SyncRecords, Working, Goes
<1>7. CASE SyncAllRefs(g)
  BY <1>7 DEF Kept, SyncAllRefs, TypeOK, SyncRecords, Working, Goes
<1>8. CASE \E t \in Platforms : Push(g, t)
  BY <1>8 DEF Kept, Push, PushesTo, Past, TypeOK, SyncRecords, Working
<1>9. CASE \E t \in Platforms : PushFails(g, t)
  BY <1>9 DEF Kept, PushFails, PushesTo, Past, TypeOK, SyncRecords, Working
<1>10. CASE \E t \in Platforms : SyncTargetPR(g, t)
  BY <1>10 DEF Kept, SyncTargetPR, TypeOK, SyncRecords, Working
<1> QED
  BY <1>1, <1>2, <1>3, <1>4, <1>5, <1>6, <1>7, <1>8, <1>9, <1>10 DEF Inside

-----------------------------------------------------------------------------
\* Every update the steps make of what a goroutine does gives such a record again.
LEMMA IdleType == Idle \in SyncRecords
BY SyncerAssumption DEF Idle, SyncRecords, Places, Holders, NoClone, Clones

LEMMA BegunType ==
  ASSUME NEW c \in Commits, NEW n \in Holders
  PROVE  /\ Begun(n, c) \in SyncRecords
         /\ Begun(n, c).at = "lock" /\ Begun(n, c).holder = n /\ Begun(n, c).commit = c
BY IdleType DEF Begun, Idle, SyncRecords, Places

LEMMA UpdateTypes ==
  ASSUME NEW r \in SyncRecords
  PROVE  /\ \A a \in Places : [r EXCEPT !.at = a] \in SyncRecords
         /\ \A S \in SUBSET Platforms : [r EXCEPT !.left = S] \in SyncRecords
         /\ \A S \in SUBSET Commits : [r EXCEPT !.copy = S] \in SyncRecords
         /\ \A b \in BOOLEAN : [r EXCEPT !.failed = b] \in SyncRecords /\ [r EXCEPT !.loose = b] \in SyncRecords
         /\ \A k \in Clones : [r EXCEPT !.own = k] \in SyncRecords
         /\ \A S \in SUBSET Commits : [r EXCEPT !.own.head = S] \in SyncRecords
<1>1. \A S \in SUBSET Commits : [r.own EXCEPT !.head = S] \in Clones
  BY DEF SyncRecords, Clones
<1>2. \A k \in Clones : [r EXCEPT !.own = k] \in SyncRecords
  BY DEF SyncRecords
<1>3. \A S \in SUBSET Commits : [r EXCEPT !.own.head = S] = [r EXCEPT !.own = [r.own EXCEPT !.head = S]]
  BY DEF SyncRecords
<1> QED
  BY <1>1, <1>2, <1>3 DEF SyncRecords

LEMMA GoesType ==
  ASSUME TypeOK, NEW g \in Syncs
  PROVE  /\ \A a \in Places : Goes(g, a) \in [Syncs -> SyncRecords]
         /\ \A r \in SyncRecords : [sync EXCEPT ![g] = r] \in [Syncs -> SyncRecords]
<1>1. \A r \in SyncRecords : [sync EXCEPT ![g] = r] \in [Syncs -> SyncRecords]
  BY DEF TypeOK
<1>2. \A a \in Places : [sync[g] EXCEPT !.at = a] \in SyncRecords
  BY UpdateTypes DEF TypeOK
<1>3. \A a \in Places : Goes(g, a) = [sync EXCEPT ![g] = [sync[g] EXCEPT !.at = a]]
  BY DEF Goes, TypeOK
<1> QED
  BY <1>1, <1>2, <1>3

LEMMA Loosens ==
  ASSUME NEW s \in [Syncs -> SyncRecords], NEW G
  PROVE  /\ Loosen(s, G) \in [Syncs -> SyncRecords]
         /\ \A h \in Syncs : LET r == Loosen(s, G)[h] IN
              /\ r.holder = s[h].holder /\ r.commit = s[h].commit /\ r.at = s[h].at
              /\ r.loose <=> h \in G \/ s[h].loose
BY ZenonT(30) DEF Loosen, SyncRecords

\* What goroutines do has its type after every step.
LEMMA SyncStep ==
  ASSUME TypeOK, Named, [Next]_vars
  PROVE  sync' \in [Syncs -> SyncRecords]
<1>1. ASSUME NEW c \in Commits, NEW p \in Sources, Merge(c, p) PROVE sync' \in [Syncs -> SyncRecords]
  BY <1>1 DEF Merge, TypeOK
<1>2. ASSUME NEW g \in Syncs, NEW c \in Commits, Start(g, c) PROVE sync' \in [Syncs -> SyncRecords]
  BY <1>2, BegunType, GoesType DEF Start, Holders
<1>3. ASSUME NEW g \in Syncs, NEW c \in Commits, NEW t \in Platforms, RetrySync(g, c, t)
      PROVE sync' \in [Syncs -> SyncRecords]
  BY <1>3, BegunType, GoesType DEF RetrySync, Holders
<1>4. ASSUME NEW g \in Syncs, AcquireSyncLock(g) PROVE sync' \in [Syncs -> SyncRecords]
  BY <1>4, GoesType, Loosens DEF AcquireSyncLock, Places
<1>5. ASSUME NEW g \in Syncs, Refused(g) PROVE sync' \in [Syncs -> SyncRecords]
  BY <1>5, IdleType, GoesType DEF Refused
<1>6. ASSUME NEW g \in Syncs, Release(g) PROVE sync' \in [Syncs -> SyncRecords]
  BY <1>6, IdleType, GoesType DEF Release
<1>7. ASSUME NEW g \in Syncs, Open(g) PROVE sync' \in [Syncs -> SyncRecords]
  <2>1. CASE config.keeps
    BY <1>7, <2>1, GoesType DEF Open, Places
  <2>2. CASE ~config.keeps
    <3> DEFINE r == [sync[g] EXCEPT !.own = Cloned(home[Commit(g)]), !.at = "checkout"]
    <3>1. sync' = [sync EXCEPT ![g] = r]
      BY <1>7, <2>2 DEF Open
    <3>2. Cloned(home[Commit(g)]) \in Clones
      BY <1>7, OperatorTypes, ClonedType DEF Open
    <3>3. r \in SyncRecords
      BY <3>2, OperatorTypes DEF SyncRecords, Places
    <3> HIDE DEF r
    <3> QED
      BY <3>1, <3>3, GoesType
  <2> QED
    BY <2>1, <2>2
<1>8. ASSUME NEW g \in Syncs, Gives(g) PROVE sync' \in [Syncs -> SyncRecords]
  BY <1>8, GoesType DEF Gives, Places
<1>9. ASSUME NEW g \in Syncs, Checkout(g) PROVE sync' \in [Syncs -> SyncRecords]
  <2> DEFINE r == [[sync[g] EXCEPT !.at = "pick"] EXCEPT !.copy = Repo(g).head]
  <2>1. sync' = [sync EXCEPT ![g] = r] \/ sync' = Goes(g, "release")
    BY <1>9, OperatorTypes DEF Checkout, TypeOK
  <2>2. r \in SyncRecords
    BY OperatorTypes, UpdateTypes DEF Places
  <2> HIDE DEF r
  <2> QED
    <3>1. Goes(g, "release") \in [Syncs -> SyncRecords]
      BY GoesType DEF Places
    <3>2. [sync EXCEPT ![g] = r] \in [Syncs -> SyncRecords]
      BY <2>2, GoesType
    <3> QED
      BY <2>1, <3>1, <3>2
<1>10. ASSUME NEW g \in Syncs, CherryPick(g) PROVE sync' \in [Syncs -> SyncRecords]
  <2> DEFINE r == [sync[g] EXCEPT !.at = "push", !.copy = {}, !.left = Targets(g)]
             q == [r EXCEPT !.own.head = sync[g].copy \cup {Commit(g)}]
  <2>1. sync' = [sync EXCEPT ![g] = r] \/ sync' = [sync EXCEPT ![g] = q]
    BY <1>10 DEF CherryPick
  <2>2. r \in SyncRecords
    BY OperatorTypes DEF SyncRecords, Places
  <2>3. q \in SyncRecords
    <3>1. sync[g].copy \cup {Commit(g)} \in SUBSET Commits
      BY <1>10, OperatorTypes DEF CherryPick, Applies
    <3> HIDE DEF r
    <3> QED
      BY <2>2, <3>1, UpdateTypes
  <2> HIDE DEF r, q
  <2> QED
    BY <2>1, <2>2, <2>3, GoesType
<1>11. ASSUME NEW g \in Syncs, PickFails(g) PROVE sync' \in [Syncs -> SyncRecords]
  BY <1>11, GoesType DEF PickFails, Places
<1>12. ASSUME NEW g \in Syncs, NEW t \in Platforms, Push(g, t) PROVE sync' \in [Syncs -> SyncRecords]
  BY <1>12, OperatorTypes, UpdateTypes, GoesType DEF Push, Past
<1>13. ASSUME NEW g \in Syncs, NEW t \in Platforms, PushFails(g, t) PROVE sync' \in [Syncs -> SyncRecords]
  <2>1. Past(g, t) \in SyncRecords
    BY OperatorTypes, UpdateTypes DEF Past
  <2>2. [Past(g, t) EXCEPT !.failed = TRUE] \in SyncRecords
    BY <2>1, UpdateTypes
  <2> QED
    BY <1>13, <2>2, GoesType DEF PushFails
<1>14. ASSUME NEW g \in Syncs, Pushed(g) PROVE sync' \in [Syncs -> SyncRecords]
  BY <1>14, GoesType DEF Pushed, Places
<1>15. ASSUME NEW g \in Syncs, SyncAllRefs(g) PROVE sync' \in [Syncs -> SyncRecords]
  <2>1. [sync[g] EXCEPT !.at = "prs", !.left = Targets(g)] \in SyncRecords
    BY OperatorTypes DEF SyncRecords, Places
  <2> QED
    BY <1>15, <2>1, GoesType DEF SyncAllRefs, TypeOK, Places
<1>16. ASSUME NEW g \in Syncs, NEW t \in Platforms, SyncTargetPR(g, t) PROVE sync' \in [Syncs -> SyncRecords]
  <2>1. \A a \in Places : [sync[g] EXCEPT !.left = @ \ {t}, !.at = a] \in SyncRecords
    BY OperatorTypes DEF SyncRecords, Places
  <2> QED
    BY <1>16, <2>1 DEF SyncTargetPR, TypeOK, Places
<1>17. CASE LeaseExpires
  BY <1>17, Loosens DEF LeaseExpires, TypeOK
<1>18. CASE Crash
  BY <1>18, IdleType DEF Crash
<1>19. CASE UNCHANGED vars
  BY <1>19 DEF vars, TypeOK
<1> QED
  BY <1>1, <1>2, <1>3, <1>4, <1>5, <1>6, <1>7, <1>8, <1>9, <1>10, <1>11, <1>12, <1>13, <1>14, <1>15,
     <1>16, <1>17, <1>18, <1>19 DEF Next, Steps

\* The state has its type after every step.
LEMMA TypeStep ==
  ASSUME TypeOK, Named, [Next]_vars
  PROVE  TypeOK'
<1> USE DEF TypeOK
<1>0. sync' \in [Syncs -> SyncRecords]
  BY SyncStep
<1>1. ASSUME NEW c \in Commits, NEW p \in Sources, Merge(c, p) PROVE TypeOK'
  BY <1>0, <1>1, SyncerAssumption DEF Merge
<1>2. ASSUME NEW g \in Syncs, NEW c \in Commits, Start(g, c) PROVE TypeOK'
  BY <1>0, <1>2 DEF Start
<1>3. ASSUME NEW g \in Syncs, NEW c \in Commits, NEW t \in Platforms, RetrySync(g, c, t) PROVE TypeOK'
  BY <1>0, <1>3 DEF RetrySync
<1>4. ASSUME NEW g \in Syncs, AcquireSyncLock(g) PROVE TypeOK'
  <2>1. lock' \in [holder : Holders \cup {NoOne, Gone}, old : BOOLEAN]
    BY <1>4 DEF AcquireSyncLock, Named
  <2>2. mixed' \in BOOLEAN
    BY <1>4 DEF AcquireSyncLock
  <2> QED
    BY <1>0, <1>4, <2>1, <2>2 DEF AcquireSyncLock
<1>5. ASSUME NEW g \in Syncs, Refused(g) PROVE TypeOK'
  BY <1>0, <1>5, OperatorTypes DEF Refused
<1>6. ASSUME NEW g \in Syncs, Release(g) PROVE TypeOK'
  <2>1. lock' \in [holder : Holders \cup {NoOne, Gone}, old : BOOLEAN]
    <3>1. lock' = lock \/ lock' = [holder |-> NoOne, old |-> FALSE]
      BY <1>6 DEF Release
    <3>2. [holder |-> NoOne, old |-> FALSE] \in [holder : Holders \cup {NoOne, Gone}, old : BOOLEAN]
      OBVIOUS
    <3> QED
      BY <3>1, <3>2
  <2> QED
    BY <1>0, <1>6, <2>1 DEF Release
<1>7. ASSUME NEW g \in Syncs, Open(g) PROVE TypeOK'
  <2>1. clone' \in Clones
    <3>1. Cloned(home[Commit(g)]) \in Clones
      BY <1>7, OperatorTypes, ClonedType DEF Open
    <3>2. CASE clone # NoClone
      <4>1. clone.from \in Platforms
        BY <3>2 DEF Named, Clones
      <4> QED
        BY <1>7, <3>2, <4>1, OperatorTypes DEF Open, Clones
    <3> QED
      BY <1>7, <3>1, <3>2 DEF Open
  <2> QED
    BY <1>0, <1>7, <2>1 DEF Open
<1>8. ASSUME NEW g \in Syncs, Gives(g) PROVE TypeOK'
  BY <1>0, <1>8, OperatorTypes DEF Gives
<1>9. ASSUME NEW g \in Syncs, Checkout(g) PROVE TypeOK'
  BY <1>0, <1>9, OperatorTypes DEF Checkout
<1>10. ASSUME NEW g \in Syncs, CherryPick(g) PROVE TypeOK'
  BY <1>0, <1>10, OperatorTypes DEF CherryPick, Clones
<1>11. ASSUME NEW g \in Syncs, PickFails(g) PROVE TypeOK'
  BY <1>0, <1>11, OperatorTypes DEF PickFails
<1>12. ASSUME NEW g \in Syncs, NEW t \in Platforms, Push(g, t) PROVE TypeOK'
  BY <1>0, <1>12, OperatorTypes DEF Push
<1>13. ASSUME NEW g \in Syncs, NEW t \in Platforms, PushFails(g, t) PROVE TypeOK'
  BY <1>0, <1>13, OperatorTypes DEF PushFails, PushesTo
<1>14. ASSUME NEW g \in Syncs, Pushed(g) PROVE TypeOK'
  BY <1>0, <1>14, OperatorTypes DEF Pushed
<1>15. ASSUME NEW g \in Syncs, SyncAllRefs(g) PROVE TypeOK'
  BY <1>0, <1>15, OperatorTypes DEF SyncAllRefs
<1>16. ASSUME NEW g \in Syncs, NEW t \in Platforms, SyncTargetPR(g, t) PROVE TypeOK'
  BY <1>0, <1>16 DEF SyncTargetPR, Mirrors, MirrorMerged
<1>17. CASE LeaseExpires
  BY <1>0, <1>17 DEF LeaseExpires
<1>18. CASE Crash
  <2>1. lock' \in [holder : Holders \cup {NoOne, Gone}, old : BOOLEAN]
    BY <1>18 DEF Crash
  <2>2. dropped' \subseteq Commits
    BY <1>18, OperatorTypes DEF Crash
  <2> QED
    BY <1>0, <1>18, <2>1, <2>2 DEF Crash
<1>19. CASE UNCHANGED vars
  BY <1>19 DEF vars
<1> QED
  BY <1>1, <1>2, <1>3, <1>4, <1>5, <1>6, <1>7, <1>8, <1>9, <1>10, <1>11, <1>12, <1>13, <1>14, <1>15,
     <1>16, <1>17, <1>18, <1>19 DEF Next, Steps

-----------------------------------------------------------------------------
\* A merged commit stays merged where it was, and nothing else is recorded or due.
LEMMA HomeStays ==
  ASSUME TypeOK, Named, [Next]_vars
  PROVE  /\ \A c \in Commits : home[c] # 0 => home'[c] = home[c]
         /\ \A c \in due' : home'[c] # 0
         /\ \A r \in history' : home'[r[1]] # 0
         /\ clone' # NoClone => clone'.from # 0
<1> USE DEF TypeOK
<1>1. ASSUME NEW c \in Commits, NEW p \in Sources, Merge(c, p)
      PROVE  /\ \A d \in Commits : home[d] # 0 => home'[d] = home[d]
             /\ \A d \in due' : home'[d] # 0
             /\ UNCHANGED <<history, clone>>
  BY <1>1, SyncerAssumption DEF Merge, Named
<1>2. ASSUME NEW g \in Syncs, NEW t \in Platforms, SyncTargetPR(g, t)
      PROVE  /\ \A d \in Commits : home[d] # 0 => home'[d] = home[d]
             /\ \A d \in due' : home'[d] # 0
             /\ UNCHANGED <<history, clone>>
  BY <1>2, SyncerAssumption DEF SyncTargetPR, Mirrors, MirrorMerged, Named
<1>3. ASSUME NEW g \in Syncs, Open(g)
      PROVE  home' = home /\ due' \subseteq due /\ history' = history /\ (clone' # NoClone => clone'.from # 0)
  <2>1. home[Commit(g)] # 0 /\ Cloned(home[Commit(g)]).from = home[Commit(g)]
    BY <1>3 DEF Open, Named, Cloned
  <2> QED
    BY <1>3, <2>1 DEF Open, Named, Clones
<1>4. ASSUME NEW g \in Syncs, CherryPick(g)
      PROVE  home' = home /\ due' \subseteq due /\ history' = history /\ (clone' # NoClone => clone'.from # 0)
  <2>1. home' = home /\ due' = due /\ history' = history /\ sync[g].at = "pick"
    BY <1>4 DEF CherryPick
  <2>2. \/ clone' = clone
        \/ clone' = [clone EXCEPT !.head = sync[g].copy \cup {Commit(g)}] /\ Commit(g) \in Repo(g).known /\ config.keeps
    BY <1>4 DEF CherryPick, Applies, Stages
  <2>3. CASE clone # NoClone
    BY <2>1, <2>2, <2>3 DEF Named, Clones
  <2>4. CASE clone = NoClone
    BY <2>1, <2>2, <2>4 DEF Repo, NoClone
  <2> QED
    BY <2>1, <2>3, <2>4
<1>5. ASSUME NEW g \in Syncs, NEW t \in Platforms, PushFails(g, t)
      PROVE  UNCHANGED <<home, due, clone>> /\ \A r \in history' : r \in history \/ home[r[1]] # 0
  BY <1>5 DEF PushFails, PushesTo, Named
<1>6. ASSUME NEW g \in Syncs, SyncAllRefs(g)
      PROVE  UNCHANGED <<home, due, clone>> /\ \A r \in history' : r \in history \/ home[r[1]] # 0
  BY <1>6 DEF SyncAllRefs, Named
<1>7. ASSUME NEW g \in Syncs, NEW c \in Commits, NEW t \in Platforms, RetrySync(g, c, t)
      PROVE  UNCHANGED <<home, due, clone>> /\ \A r \in history' : r \in history \/ home[r[1]] # 0
  <2>1. home[c] # 0
    BY <1>7 DEF RetrySync, Named
  <2> QED
    BY <1>7, <2>1 DEF RetrySync
<1>8. ASSUME NEW g \in Syncs,
             \/ AcquireSyncLock(g) \/ Refused(g) \/ Gives(g) \/ Checkout(g) \/ PickFails(g) \/ Pushed(g)
             \/ Release(g) \/ (\E c \in Commits : Start(g, c)) \/ \E t \in Platforms : Push(g, t)
      PROVE  home' = home /\ due' \subseteq due /\ history' = history /\ clone' = clone
  BY <1>8 DEF AcquireSyncLock, Refused, Gives, Checkout, PickFails, Pushed, Release, Start, Push
<1>9. ASSUME LeaseExpires \/ Crash \/ UNCHANGED vars
      PROVE  home' = home /\ due' \subseteq due /\ history' = history /\ clone' = clone
  BY <1>9 DEF LeaseExpires, Crash, vars
<1>10. \A r \in history : r[1] \in Commits
  OBVIOUS
<1> QED
  BY <1>1, <1>2, <1>3, <1>4, <1>5, <1>6, <1>7, <1>8, <1>9, <1>10 DEF Named, Next, Steps

\* The steps of LeaseExpires and AcquireSyncLock change only who is loose, or has the lock.
LEMMA NamedStep ==
  ASSUME TypeOK, Named, [Next]_vars
  PROVE  Named'
<1> DEFINE NamedSync == \A h \in Syncs : sync'[h].at # "idle" =>
                          sync'[h].commit \in Commits /\ sync'[h].holder \in Holders /\ home[sync'[h].commit] # 0
<1>0. \A h \in Syncs : sync[h].at # "idle" =>
        sync[h].commit \in Commits /\ sync[h].holder \in Holders /\ home[sync[h].commit] # 0
  BY DEF Named, Commit
<1>1. ASSUME NEW g \in Syncs, Inside(g) PROVE NamedSync
  BY <1>1, InsideKeeps DEF Kept, Named, Commit
<1>2. ASSUME NEW g \in Syncs, NEW c \in Commits, Start(g, c) PROVE NamedSync
  BY <1>2, BegunType DEF Start, Named, Commit, TypeOK, Holders
<1>3. ASSUME NEW g \in Syncs, NEW c \in Commits, NEW t \in Platforms, RetrySync(g, c, t) PROVE NamedSync
  <2>1. home[c] # 0
    BY <1>3 DEF RetrySync, Named
  <2> QED
    BY <1>3, <2>1, BegunType DEF RetrySync, Named, Commit, TypeOK, Holders
<1>4. ASSUME NEW g \in Syncs, AcquireSyncLock(g) PROVE NamedSync
  <2>1. \A h \in Syncs : sync'[h].commit = sync[h].commit /\ sync'[h].holder = sync[h].holder
                         /\ (sync'[h].at # "idle" => sync[h].at # "idle")
    <3>1. PICK G : sync' = Loosen(Goes(g, "open"), G)
      BY <1>4 DEF AcquireSyncLock
    <3>2. sync[g].at = "lock" /\ Goes(g, "open") \in [Syncs -> SyncRecords]
      BY <1>4, GoesType DEF AcquireSyncLock, Places
    <3>3. \A h \in Syncs : LET r == Goes(g, "open")[h] IN
            r.commit = sync[h].commit /\ r.holder = sync[h].holder /\ (r.at # "idle" => sync[h].at # "idle")
      BY <3>2 DEF Goes, TypeOK, SyncRecords
    <3> QED
      BY <3>1, <3>2, <3>3, Loosens
  <2> QED
    BY <2>1 DEF Named, Commit
<1>5. ASSUME NEW g \in Syncs, Refused(g) \/ Release(g) PROVE NamedSync
  BY <1>5 DEF Refused, Release, Named, Commit, TypeOK, Idle
<1>6. ASSUME LeaseExpires PROVE NamedSync
  <2>1. \A h \in Syncs : sync'[h].commit = sync[h].commit /\ sync'[h].holder = sync[h].holder
                         /\ sync'[h].at = sync[h].at
    BY <1>6, Loosens DEF LeaseExpires, TypeOK
  <2> QED
    BY <1>0, <2>1
<1>7. ASSUME Crash PROVE NamedSync
  <2>1. \A h \in Syncs : sync'[h].at = "idle"
    BY <1>7 DEF Crash, Idle
  <2> QED
    BY <2>1
<1>8. ASSUME NEW c \in Commits, NEW p \in Sources, Merge(c, p) PROVE NamedSync
  BY <1>8 DEF Merge, Named, Commit
<1>9. ASSUME UNCHANGED vars PROVE NamedSync
  BY <1>9 DEF vars, Named, Commit
<1>10. NamedSync
  <2> HIDE DEF NamedSync
  <2> QED
    BY <1>1, <1>2, <1>3, <1>4, <1>5, <1>6, <1>7, <1>8, <1>9 DEF Next, Steps, Inside
<1> QED
  BY <1>10, HomeStays DEF Named, Commit

-----------------------------------------------------------------------------
\* Whoever takes the lock makes those loose that work under its name; the lease that runs out
\* makes them all so; nobody else takes a lock that is held.
LEMMA LockStep ==
  ASSUME IInv, [Next]_vars
  PROVE  NameOnce' /\ LockIs'
<1> USE DEF IInv
<1>1. ASSUME NEW g \in Syncs, Inside(g) PROVE NameOnce' /\ LockIs'
  BY <1>1, InsideKeeps DEF Kept, NameOnce, LockIs, AtWork
<1>2. ASSUME NEW g \in Syncs, NEW n \in Holders, NEW c \in Commits,
             sync' = [sync EXCEPT ![g] = Begun(n, c)], sync[g] = Idle, lock' = lock
      PROVE  NameOnce' /\ LockIs'
  BY <1>2, BegunType DEF NameOnce, LockIs, AtWork, Working, TypeOK
<1>3. ASSUME NEW g \in Syncs, AcquireSyncLock(g) PROVE NameOnce' /\ LockIs'
  <2> DEFINE also == {h \in AtWork : sync[h].holder = sync[g].holder}
  <2>1. /\ lock' = [holder |-> sync[g].holder, old |-> FALSE]
        /\ Grants(sync[g].holder) /\ ~Working(g) /\ sync[g].at # "idle"
    BY <1>3 DEF AcquireSyncLock, Working
  <2>2. \A h \in Syncs : /\ sync'[h].holder = sync[h].holder
                         /\ (Working(h)' <=> Working(h) \/ h = g)
                         /\ (sync'[h].loose <=> h \in also \/ (h = g /\ also # {}) \/ sync[h].loose)
    <3> DEFINE L == IF also = {} THEN {} ELSE also \cup {g}
    <3>1. sync' = Loosen(Goes(g, "open"), L)
      BY <1>3 DEF AcquireSyncLock
    <3>2. \A h \in also : h # g /\ Working(h)
      BY <2>1 DEF AtWork
    <3>4. \A h \in Syncs : h \in L <=> h \in also \/ (h = g /\ also # {})
      OBVIOUS
    <3>5. \A h \in Syncs : /\ Goes(g, "open")[h].holder = sync[h].holder
                           /\ Goes(g, "open")[h].loose = sync[h].loose
                           /\ Goes(g, "open")[h].at = IF h = g THEN "open" ELSE sync[h].at
      BY DEF Goes, TypeOK, SyncRecords
    <3>6. Goes(g, "open") \in [Syncs -> SyncRecords]
      BY GoesType DEF Places
    <3> HIDE DEF also, L
    <3>7. \A h \in Syncs : /\ sync'[h].holder = sync[h].holder
                           /\ sync'[h].at = IF h = g THEN "open" ELSE sync[h].at
                           /\ sync'[h].loose <=> h \in L \/ sync[h].loose
      BY <3>1, <3>5, <3>6, Loosens
    <3> QED
      BY <3>2, <3>4, <3>7 DEF Working
  <2>3. NameOnce'
    BY <2>1, <2>2 DEF NameOnce, AtWork
  <2>4. LockIs'
    <3> SUFFICES ASSUME NEW h \in AtWork', ~sync'[h].loose
                 PROVE  sync'[h].holder = sync[g].holder
      BY <2>1 DEF LockIs
    <3>1. CASE h = g
      BY <2>2, <3>1
    <3>2. CASE h # g
      <4>1. h \in AtWork /\ ~sync[h].loose /\ h \notin also
        BY <2>2, <3>2 DEF AtWork
      <4>2. lock.holder = sync[h].holder /\ ~lock.old /\ sync[h].holder # NoOne
        BY <4>1, SyncerAssumption DEF LockIs, Named, AtWork, Working
      <4> QED
        BY <2>1, <4>1, <4>2 DEF Grants
    <3> QED
      BY <3>1, <3>2
  <2> QED
    BY <2>3, <2>4
<1>4. ASSUME NEW g \in Syncs, Refused(g) PROVE NameOnce' /\ LockIs'
  BY <1>4 DEF Refused, NameOnce, LockIs, AtWork, Working, TypeOK, Idle
<1>5. ASSUME NEW g \in Syncs, Release(g) PROVE NameOnce' /\ LockIs'
  BY <1>5 DEF Release, NameOnce, LockIs, AtWork, Working, TypeOK, Idle
<1>6. CASE LeaseExpires
  <2> DEFINE L == {g \in AtWork : sync[g].holder = lock.holder}
  <2>1. /\ sync' = Loosen(sync, L) /\ lock'.old
        /\ \A h \in Syncs : h \in L <=> h \in AtWork /\ sync[h].holder = lock.holder
    BY <1>6 DEF LeaseExpires, AtWork, TypeOK
  <2> HIDE DEF L
  <2>2. \A h \in Syncs : /\ sync'[h].holder = sync[h].holder /\ sync'[h].at = sync[h].at
                         /\ sync'[h].loose <=> h \in L \/ sync[h].loose
    BY <2>1, Loosens DEF TypeOK
  <2> QED
    BY <2>1, <2>2 DEF NameOnce, LockIs, AtWork, Working
<1>7. CASE Crash
  BY <1>7 DEF Crash, NameOnce, LockIs, AtWork, Working, Idle
<1>8. ASSUME NEW c \in Commits, NEW p \in Sources, Merge(c, p) PROVE NameOnce' /\ LockIs'
  BY <1>8 DEF Merge, NameOnce, LockIs, AtWork, Working
<1>9. CASE UNCHANGED vars
  BY <1>9 DEF vars, NameOnce, LockIs, AtWork, Working
<1>10. ASSUME NEW g \in Syncs, NEW c \in Commits, Start(g, c) PROVE NameOnce' /\ LockIs'
  BY <1>2, <1>10 DEF Start, MayBegin, Holders
<1>11. ASSUME NEW g \in Syncs, NEW c \in Commits, NEW t \in Platforms, RetrySync(g, c, t)
       PROVE  NameOnce' /\ LockIs'
  BY <1>2, <1>11 DEF RetrySync, MayBegin, Holders
<1> QED
  BY <1>1, <1>3, <1>4, <1>5, <1>6, <1>7, <1>8, <1>9, <1>10, <1>11 DEF Next, Steps, Inside

\* What handlePRMerged and RetrySync leave to the lock, for every number of syncs.
LEMMA Begins ==
  ASSUME Init
  PROVE  IInv
<1>1. sync \in [Syncs -> SyncRecords] /\ clone \in Clones
  BY IdleType DEF Init, NoClone, Clones
<1>2. AtWork = {} /\ \A g \in Syncs : sync[g].at = "idle"
  BY DEF Init, Idle, AtWork, Working
<1>3. TypeOK
  BY <1>1, SyncerAssumption DEF Init, TypeOK
<1>4. Named
  BY <1>2 DEF Init, Named
<1> QED
  BY <1>2, <1>3, <1>4 DEF IInv, NameOnce, LockIs

LEMMA Always == Spec => []IInv
<1>1. IInv /\ [Next]_vars => IInv'
  BY TypeStep, NamedStep, LockStep DEF IInv
<1> QED
  BY Begins, <1>1, PTL DEF Spec

\* Every record, branch and clone stays of its type.
THEOREM SyncTyped == Spec => []TypeOK
<1>1. IInv => TypeOK
  BY DEF IInv
<1> QED
  BY Always, <1>1, PTL

\* Two syncs of one group are at work at once only if the lock was let to one of them while
\* it was the other's: for two that are not loose it would be both's, which go by one name.
THEOREM SyncAlone == Spec => []Alone
<1>1. IInv => Alone
  BY DEF IInv, NameOnce, LockIs, Alone, AtWork
<1> QED
  BY Always, <1>1, PTL

-----------------------------------------------------------------------------
\* Nothing lost, code first

\* The commits that are done with: merged, their syncs over, and no failure of them known.
Done == {c \in Commits \ (aside \cup told \cup dropped \cup unpicked) :
           home[c] # 0 /\ c \notin due /\ \A g \in Syncs : Commit(g) # c}

\* The branch of p holds what was merged there and nothing else.
Pure(p) == \A c \in Commits : /\ c \in branch[p] => home[c] = p
                              /\ home[c] = p /\ c \notin aside => c \in branch[p]

\* Those that are done with are everywhere, and in the clone that is kept.  That clone is of one platform, whose branch
\* no sync overwrites: only commits that were merged there can be picked.
DoneEverywhere == \A c \in Done : \A p \in config.platforms : c \in branch[p]
CloneKept ==
  config.keeps => /\ clone = NoClone => \A p \in Platforms : Pure(p)
                  /\ clone # NoClone => Pure(clone.from)
                  /\ \A c \in clone.head \cup clone.known : home[c] = clone.from
                  /\ Done \subseteq clone.head

\* What a sync holds, place by place: everything that is done with, so that its push takes nothing away; and its own
\* commit, at home and on the targets it has pushed to, unless picking it committed nothing.
AtHome(g) == Commit(g) \in branch[home[Commit(g)]] \cup aside
Cloning(g, S) ==
  /\ S = Repo(g).head /\ Done \subseteq S
  /\ config.keeps => clone # NoClone
  /\ ~config.keeps => S \subseteq branch[home[Commit(g)]] /\ sync[g].own.known \subseteq S \cup aside
WorkInv(g) ==
  /\ sync[g].at = "checkout" => Cloning(g, Repo(g).head)
  /\ sync[g].at = "pick" => Cloning(g, sync[g].copy)
  /\ sync[g].at = "push" => /\ Done \subseteq Repo(g).head /\ AtHome(g)
                            /\ \/ Commit(g) \in unpicked
                               \/ /\ Commit(g) \in Repo(g).head
                                  /\ \A t \in Targets(g) \ sync[g].left : Commit(g) \in branch[t] \/ sync[g].failed
                            /\ config.keeps => home[Commit(g)] = clone.from
  /\ sync[g].at \in {"refs", "prs"} => \/ Commit(g) \in unpicked
                                       \/ /\ \A t \in Targets(g) : Commit(g) \in branch[t]
                                          /\ AtHome(g) /\ (config.keeps => Commit(g) \in clone.head)
  /\ sync[g].at = "release" => \/ Commit(g) \in aside \cup told \cup dropped \cup unpicked
                               \/ /\ \A p \in config.platforms : Commit(g) \in branch[p]
                                  /\ config.keeps => Commit(g) \in clone.head

\* All of it as long as syncs have been at work one at a time.
Homes == \A c \in Commits : home[c] # 0 => home[c] \in config.platforms
OneWorks == \A g, h \in AtWork : g = h
WorkHolds == \A g \in Syncs : WorkInv(g)
LeftIn == \A g \in Syncs : sync[g].at \in {"push", "prs"} => sync[g].left \subseteq Targets(g)
IdleNone == \A g \in Syncs : sync[g].at = "idle" => sync[g].commit = NoOne
PickInv == Homes /\ (mixed \/ (DoneEverywhere /\ CloneKept /\ OneWorks /\ WorkHolds))


\* What a step may do that rewrites no branch: merges come, failures become known, and nothing is done with anew.
Growth == /\ config' = config /\ clone' = clone
          /\ \A p \in Platforms : branch[p] \subseteq branch'[p]
          /\ \A c \in Commits : home[c] # 0 => home'[c] = home[c]
          /\ \A p \in Platforms : \A c \in branch'[p] \ branch[p] : home[c] = 0 /\ home'[c] = p
          /\ \A c \in Commits : home[c] = 0 /\ home'[c] # 0 => c \in branch'[home'[c]] \cup aside'
          /\ \A c \in Commits : home'[c] # 0 => home'[c] \in config.platforms
          /\ aside \subseteq aside' /\ told \subseteq told' /\ dropped \subseteq dropped'
          /\ unpicked \subseteq unpicked'

LEMMA GrowthKeeps ==
  ASSUME TypeOK, TypeOK', Named, Homes, DoneEverywhere, CloneKept, Growth, Done' \subseteq Done
  PROVE  Homes' /\ DoneEverywhere' /\ CloneKept'
<1>1. config.platforms \subseteq Platforms BY SyncerAssumption DEF TypeOK
<1>2. Homes' BY DEF Homes, Growth
<1>3. DoneEverywhere'
  <2>1. config'.platforms = config.platforms BY DEF Growth
  <2> QED BY <1>1, <2>1 DEF DoneEverywhere, Growth
<1>4. \A p \in Platforms : Pure(p) =>
        \A c \in Commits : /\ c \in branch'[p] => home'[c] = p
                           /\ home'[c] = p /\ c \notin aside' => c \in branch'[p]
  <2>1. ASSUME NEW p \in Platforms, Pure(p), NEW c \in Commits, c \in branch'[p] PROVE home'[c] = p
    <3>1. p # 0 BY SyncerAssumption
    <3>2. CASE c \in branch[p]
      <4>1. home[c] = p BY <2>1, <3>2 DEF Pure
      <4> QED BY <3>1, <4>1 DEF Growth
    <3>3. CASE c \notin branch[p] BY <2>1, <3>3 DEF Growth
    <3> QED BY <3>2, <3>3
  <2>2. ASSUME NEW p \in Platforms, Pure(p), NEW c \in Commits, home'[c] = p, c \notin aside' PROVE c \in branch'[p]
    <3>1. p # 0 BY SyncerAssumption
    <3>2. CASE home[c] = 0 BY <2>2, <3>1, <3>2 DEF Growth
    <3>3. CASE home[c] # 0
      <4>1. home[c] = p /\ c \notin aside BY <2>2, <3>3 DEF Growth
      <4>2. c \in branch[p] BY <2>2, <4>1 DEF Pure
      <4> QED BY <4>2 DEF Growth
    <3> QED BY <3>2, <3>3
  <2> QED BY <2>1, <2>2
<1>5. CloneKept'
  <2>1. CASE ~config.keeps BY <2>1 DEF CloneKept, Growth
  <2>2. CASE config.keeps
    <3>1. clone' = clone /\ config' = config BY DEF Growth
    <3>2. clone.head \subseteq Commits /\ clone.known \subseteq Commits BY DEF TypeOK, Clones
    <3>3. clone # NoClone => clone.from \in Platforms BY DEF Named, TypeOK, Clones
    <3>4. clone = NoClone => clone.head = {} /\ clone.known = {} BY DEF NoClone
    <3>5. \A c \in clone.head \cup clone.known : home'[c] = clone.from
      <4> SUFFICES ASSUME NEW c \in clone.head \cup clone.known PROVE home'[c] = clone.from OBVIOUS
      <4>1. clone # NoClone /\ c \in Commits BY <3>2, <3>4
      <4>2. home[c] = clone.from /\ clone.from # 0 BY <2>2, <4>1 DEF CloneKept, Named
      <4> QED BY <4>1, <4>2 DEF Growth
    <3>6. Done' \subseteq clone.head BY <2>2 DEF CloneKept
    <3>7. clone = NoClone => \A p \in Platforms : Pure(p)' BY <1>4, <2>2 DEF CloneKept, Pure
    <3>8. clone # NoClone => \A c \in Commits :
            /\ c \in branch'[clone.from] => home'[c] = clone.from
            /\ home'[c] = clone.from /\ c \notin aside' => c \in branch'[clone.from]
      BY <1>4, <2>2, <3>3 DEF CloneKept
    <3> QED BY <3>1, <3>5, <3>6, <3>7, <3>8 DEF CloneKept, Pure
  <2> QED BY <2>1, <2>2
<1> QED BY <1>2, <1>3, <1>5

\* Whoever does nothing else in such a step holds what he held.
LEMMA GrowthHolds ==
  ASSUME TypeOK, Named, Homes, Growth, Done' \subseteq Done, NEW h \in Syncs, WorkInv(h),
         sync'[h].at = sync[h].at, sync[h].at # "idle", sync'[h].commit = sync[h].commit,
         sync'[h].own = sync[h].own, sync'[h].copy = sync[h].copy,
         sync'[h].left = sync[h].left, sync'[h].failed = sync[h].failed
  PROVE  WorkInv(h)'
<1> DEFINE c == sync[h].commit
<1>1. c \in Commits /\ home[c] \in Platforms /\ home'[c] = home[c]
  BY OperatorTypes, SyncerAssumption DEF Commit, Growth
<1>2. config' = config /\ clone' = clone BY DEF Growth
<1>4. \A S : S \subseteq branch[home[c]] => S \subseteq branch'[home'[c]] BY <1>1 DEF Growth
<1>5. Repo(h)' = Repo(h) /\ Targets(h)' = Targets(h) BY <1>1, <1>2 DEF Repo, Targets, Commit
<1>6. \A t \in Targets(h) : c \in branch[t] => c \in branch'[t] BY OperatorTypes DEF Growth
<1>7. AtHome(h) => c \in branch'[home'[c]] \cup aside' BY <1>1 DEF AtHome, Commit, Growth
<1>8. config.platforms \subseteq Platforms BY SyncerAssumption DEF TypeOK
<1>9. \A p \in config.platforms : c \in branch[p] => c \in branch'[p] BY <1>8 DEF Growth
<1>16. c \in unpicked => c \in unpicked' BY DEF Growth
<1>10. CASE sync[h].at = "checkout"
  <2>1. Cloning(h, Repo(h).head) BY <1>10 DEF WorkInv
  <2>2. Cloning(h, Repo(h).head)' BY <1>1, <1>2, <1>4, <1>5, <2>1 DEF Cloning, Commit, Growth
  <2> QED BY <1>10, <2>2 DEF WorkInv
<1>11. CASE sync[h].at = "pick"
  <2>1. Cloning(h, sync[h].copy) BY <1>11 DEF WorkInv
  <2>2. Cloning(h, sync[h].copy)' BY <1>1, <1>2, <1>4, <1>5, <2>1 DEF Cloning, Commit, Growth
  <2> QED BY <1>11, <2>2 DEF WorkInv
<1>12. CASE sync[h].at = "push"
  BY <1>1, <1>2, <1>5, <1>6, <1>7, <1>12, <1>16 DEF WorkInv, AtHome, Commit
<1>13. CASE sync[h].at \in {"refs", "prs"}
  BY <1>1, <1>2, <1>5, <1>6, <1>7, <1>13, <1>16 DEF WorkInv, AtHome, Commit
<1>14. CASE sync[h].at = "release"
  BY <1>1, <1>2, <1>9, <1>14 DEF WorkInv, Commit, Growth
<1>15. CASE sync[h].at \notin {"checkout", "pick", "push", "refs", "prs", "release"}
  BY <1>15 DEF WorkInv
<1> QED BY <1>10, <1>11, <1>12, <1>13, <1>14, <1>15
\* Whoever is idle has no commit.
LEMMA IdleStep ==
  ASSUME TypeOK, IdleNone, [Next]_vars
  PROVE  IdleNone'
<1>1. ASSUME NEW g \in Syncs, Inside(g) PROVE IdleNone'
  BY <1>1, InsideKeeps DEF Kept, IdleNone
<1>2. ASSUME NEW g \in Syncs, NEW n \in Holders, NEW c \in Commits, sync' = [sync EXCEPT ![g] = Begun(n, c)]
      PROVE  IdleNone'
  BY <1>2, BegunType DEF IdleNone, TypeOK
<1>3. ASSUME NEW g \in Syncs, NEW c \in Commits,
             Start(g, c) \/ \E t \in Platforms : RetrySync(g, c, t)
      PROVE  IdleNone'
  BY <1>2, <1>3 DEF Start, RetrySync, Holders
<1>4. ASSUME NEW g \in Syncs, AcquireSyncLock(g) PROVE IdleNone'
  <2>1. PICK G : sync' = Loosen(Goes(g, "open"), G) /\ sync[g].at = "lock" BY <1>4 DEF AcquireSyncLock
  <2>2. Goes(g, "open") \in [Syncs -> SyncRecords] BY GoesType DEF Places
  <2>3. \A h \in Syncs : LET r == Goes(g, "open")[h] IN
          r.at = (IF h = g THEN "open" ELSE sync[h].at) /\ r.commit = sync[h].commit
    BY DEF Goes, TypeOK, SyncRecords
  <2> QED BY <2>1, <2>2, <2>3, Loosens DEF IdleNone
<1>5. ASSUME NEW g \in Syncs, Refused(g) \/ Release(g) PROVE IdleNone'
  BY <1>5 DEF Refused, Release, IdleNone, TypeOK, Idle
<1>6. CASE LeaseExpires
  BY <1>6, Loosens DEF LeaseExpires, IdleNone, TypeOK
<1>7. CASE Crash
  BY <1>7 DEF Crash, IdleNone, Idle
<1>8. CASE UNCHANGED sync
  BY <1>8 DEF IdleNone
<1>9. ASSUME NEW c \in Commits, NEW p \in Sources, Merge(c, p) PROVE UNCHANGED sync
  BY <1>9 DEF Merge
<1> QED
  BY <1>1, <1>3, <1>4, <1>5, <1>6, <1>7, <1>8, <1>9 DEF Next, Steps, Inside, vars


\* A step outside the syncs at work: some end, wait for the lock, or take it while nobody is at work.
LEMMA OutsideKeeps ==
  ASSUME TypeOK, TypeOK', Named, PickInv, ~mixed, Growth, Done' \subseteq Done,
         \A h \in Syncs :
           \/ sync'[h].at \in {"idle", "lock", "open"}
           \/ /\ sync'[h].at = sync[h].at /\ sync[h].at # "idle" /\ sync'[h].commit = sync[h].commit
              /\ sync'[h].own = sync[h].own /\ sync'[h].copy = sync[h].copy
              /\ sync'[h].left = sync[h].left /\ sync'[h].failed = sync[h].failed,
         AtWork' \subseteq AtWork \/ \E g \in Syncs : AtWork' \subseteq {g}
  PROVE  PickInv'
<1>1. Homes /\ DoneEverywhere /\ CloneKept /\ OneWorks /\ WorkHolds BY DEF PickInv
<1>2. Homes' /\ DoneEverywhere' /\ CloneKept' BY <1>1, GrowthKeeps
<1>3. OneWorks' BY <1>1 DEF OneWorks
<1>4. ASSUME NEW h \in Syncs PROVE WorkInv(h)'
  <2>1. CASE sync'[h].at \in {"idle", "lock", "open"} BY <2>1 DEF WorkInv
  <2>2. CASE sync'[h].at \notin {"idle", "lock", "open"} BY <1>1, <2>2, GrowthHolds DEF WorkHolds
  <2> QED BY <2>1, <2>2
<1>5. WorkHolds' BY <1>4 DEF WorkHolds
<1> QED BY <1>2, <1>3, <1>5 DEF PickInv

\* A sync that begins waits for the lock, and its commit is not done with.
LEMMA BeginKeeps ==
  ASSUME TypeOK, TypeOK', Named, PickInv, ~mixed, NEW g \in Syncs, NEW n \in Holders, NEW c \in Commits,
         sync[g] = Idle, sync' = [sync EXCEPT ![g] = Begun(n, c)], due \subseteq due' \cup {c},
         UNCHANGED <<config, home, branch, lock, clone, aside, told, dropped, unpicked>>
  PROVE  PickInv'
<1>1. /\ config' = config /\ home' = home /\ branch' = branch /\ clone' = clone
      /\ aside' = aside /\ told' = told /\ dropped' = dropped /\ unpicked' = unpicked
  OBVIOUS
<1>2. Growth BY <1>1 DEF Growth, PickInv, Homes
<1>3. sync'[g].at = "lock" /\ sync'[g].commit = c /\ \A h \in Syncs : h # g => sync'[h] = sync[h]
  BY BegunType DEF TypeOK
<1>4. sync[g].commit = NoOne /\ NoOne \notin Commits /\ sync[g].at = "idle" BY SyncerAssumption DEF Idle
<1>5. Done' \subseteq Done BY <1>1, <1>3, <1>4 DEF Done, Commit
<1>6. AtWork' \subseteq AtWork BY <1>3 DEF AtWork, Working
<1>7. \A h \in Syncs : h # g => sync'[h].at \in {"idle", "lock", "open"} \/ sync[h].at # "idle" BY <1>3
<1> QED BY <1>2, <1>3, <1>5, <1>6, <1>7, OutsideKeeps

LEMMA LoosenRest ==
  ASSUME NEW s \in [Syncs -> SyncRecords], NEW G
  PROVE  \A h \in Syncs : LET r == Loosen(s, G)[h] IN
           /\ r.at = s[h].at /\ r.commit = s[h].commit /\ r.own = s[h].own /\ r.copy = s[h].copy
           /\ r.left = s[h].left /\ r.failed = s[h].failed
BY DEF Loosen, SyncRecords

LEMMA MergeKeeps ==
  ASSUME TypeOK, TypeOK', Named, PickInv, ~mixed, NEW c \in Commits, NEW p \in Sources, Merge(c, p)
  PROVE  PickInv'
<1>1. /\ config' = config /\ clone' = clone /\ sync' = sync /\ told' = told /\ dropped' = dropped
      /\ unpicked' = unpicked
      /\ home' = [home EXCEPT ![c] = p] /\ due' = due \cup {c} /\ home[c] = 0 /\ p \in config.platforms
  BY DEF Merge
<1>2. \/ branch' = [branch EXCEPT ![p] = branch[p] \cup {c}] /\ aside' = aside
      \/ branch' = branch /\ aside' = aside \cup {c}
  BY DEF Merge
<1>3. Growth
  <2>1. p \in Platforms BY SyncerAssumption
  <2>2. \A d \in Commits : home'[d] = IF d = c THEN p ELSE home[d] BY <1>1 DEF TypeOK
  <2>3. \A q \in Platforms : branch'[q] = branch[q] \/ (q = p /\ branch'[q] = branch[q] \cup {c})
    BY <1>2 DEF TypeOK
  <2>4. c \in branch'[p] \cup aside' /\ aside \subseteq aside' BY <1>2, <2>1 DEF TypeOK
  <2>5. \A d \in Commits : home[d] # 0 => home[d] \in config.platforms BY DEF PickInv, Homes
  <2> QED BY <1>1, <2>2, <2>3, <2>4, <2>5 DEF Growth
<1>4. Done' \subseteq Done BY <1>1, <1>2 DEF Done, Commit, TypeOK
<1>5. AtWork' \subseteq AtWork BY <1>1 DEF AtWork, Working
<1> QED BY <1>1, <1>3, <1>4, <1>5, OutsideKeeps

LEMMA LockKeeps ==
  ASSUME TypeOK, TypeOK', Named, PickInv, ~mixed, ~mixed', NEW g \in Syncs, AcquireSyncLock(g)
  PROVE  PickInv'
<1>1. PICK G : sync' = Loosen(Goes(g, "open"), G) BY DEF AcquireSyncLock
<1>2. /\ config' = config /\ home' = home /\ branch' = branch /\ due' = due /\ clone' = clone
      /\ aside' = aside /\ told' = told /\ dropped' = dropped /\ unpicked' = unpicked /\ sync[g].at = "lock" /\ AtWork = {}
  BY DEF AcquireSyncLock
<1>3. Goes(g, "open") \in [Syncs -> SyncRecords] BY GoesType DEF Places
<1>4. \A h \in Syncs : LET r == Goes(g, "open")[h] IN
        /\ r.at = (IF h = g THEN "open" ELSE sync[h].at) /\ r.commit = sync[h].commit
        /\ r.own = sync[h].own /\ r.copy = sync[h].copy /\ r.left = sync[h].left /\ r.failed = sync[h].failed
  BY DEF Goes, TypeOK, SyncRecords
<1>5. \A h \in Syncs :
        /\ sync'[h].at = (IF h = g THEN "open" ELSE sync[h].at) /\ sync'[h].commit = sync[h].commit
        /\ sync'[h].own = sync[h].own /\ sync'[h].copy = sync[h].copy /\ sync'[h].left = sync[h].left
        /\ sync'[h].failed = sync[h].failed
  BY <1>1, <1>3, <1>4, LoosenRest
<1>6. Growth BY <1>2 DEF Growth, PickInv, Homes
<1>7. Done' \subseteq Done BY <1>2, <1>5 DEF Done, Commit
<1>8. AtWork' \subseteq {g} BY <1>2, <1>5 DEF AtWork, Working
<1> QED BY <1>2, <1>5, <1>6, <1>7, <1>8, OutsideKeeps

LEMMA RefusedKeeps ==
  ASSUME TypeOK, TypeOK', Named, PickInv, ~mixed, NEW g \in Syncs, Refused(g) PROVE PickInv'
<1>1. /\ config' = config /\ home' = home /\ branch' = branch /\ due' = due /\ clone' = clone
      /\ aside' = aside /\ told' = told /\ dropped' = dropped \cup {Commit(g)} /\ unpicked' = unpicked /\ sync' = [sync EXCEPT ![g] = Idle]
  BY DEF Refused
<1>2. sync'[g].at = "idle" /\ \A h \in Syncs : h # g => sync'[h] = sync[h] BY <1>1 DEF TypeOK, Idle
<1>3. Growth BY <1>1 DEF Growth, PickInv, Homes
<1>4. Done' \subseteq Done BY <1>1, <1>2 DEF Done, Commit
<1>5. AtWork' \subseteq AtWork BY <1>2 DEF AtWork, Working
<1>6. \A h \in Syncs : sync[h].at = "idle" /\ h # g => sync'[h].at = "idle" BY <1>2
<1> QED BY <1>2, <1>3, <1>4, <1>5, <1>6, OutsideKeeps

LEMMA RestKeeps ==
  ASSUME TypeOK, TypeOK', Named, IdleNone, PickInv, ~mixed, LeaseExpires \/ Crash \/ UNCHANGED vars PROVE PickInv'
<1>1. CASE LeaseExpires
  <2>1. PICK G : sync' = Loosen(sync, G) BY <1>1 DEF LeaseExpires
  <2>2. /\ config' = config /\ home' = home /\ branch' = branch /\ due' = due /\ clone' = clone
        /\ aside' = aside /\ told' = told /\ dropped' = dropped /\ unpicked' = unpicked
    BY <1>1 DEF LeaseExpires
  <2>3. \A h \in Syncs :
          /\ sync'[h].at = sync[h].at /\ sync'[h].commit = sync[h].commit
          /\ sync'[h].own = sync[h].own /\ sync'[h].copy = sync[h].copy /\ sync'[h].left = sync[h].left
          /\ sync'[h].failed = sync[h].failed
    BY <2>1, LoosenRest DEF TypeOK
  <2>4. Growth BY <2>2 DEF Growth, PickInv, Homes
  <2>5. Done' \subseteq Done BY <2>2, <2>3 DEF Done, Commit
  <2>6. AtWork' \subseteq AtWork BY <2>3 DEF AtWork, Working
  <2> QED BY <2>3, <2>4, <2>5, <2>6, OutsideKeeps
<1>2. CASE Crash
  <2>1. /\ config' = config /\ home' = home /\ branch' = branch /\ due' = {} /\ clone' = clone
        /\ aside' = aside /\ told' = told /\ unpicked' = unpicked
        /\ dropped' = dropped \cup due \cup {Commit(g) : g \in {h \in Syncs : sync[h].at # "idle"}}
        /\ \A h \in Syncs : sync'[h] = Idle
    BY <1>2 DEF Crash
  <2>2. Growth BY <2>1 DEF Growth, PickInv, Homes
  <2>3. ASSUME NEW c \in Done', NEW g \in Syncs, Commit(g) = c PROVE FALSE
    <3>1. c \in Commits /\ c \notin dropped' BY DEF Done
    <3>2. sync[g].at = "idle" BY <2>1, <2>3, <3>1
    <3> QED BY <2>3, <3>1, <3>2, SyncerAssumption DEF IdleNone, Commit
  <2>4. Done' \subseteq Done BY <2>1, <2>3 DEF Done
  <2>5. \A h \in Syncs : sync'[h].at = "idle" BY <2>1 DEF Idle
  <2>6. AtWork' \subseteq AtWork BY <2>5 DEF AtWork, Working
  <2> QED BY <2>2, <2>4, <2>5, <2>6, OutsideKeeps
<1>3. CASE UNCHANGED vars
  <2>1. /\ config' = config /\ home' = home /\ branch' = branch /\ due' = due /\ clone' = clone
        /\ aside' = aside /\ told' = told /\ dropped' = dropped /\ unpicked' = unpicked /\ sync' = sync /\ mixed' = mixed
    BY <1>3 DEF vars
  <2>2. Growth BY <2>1 DEF Growth, PickInv, Homes
  <2>3. Done' \subseteq Done BY <2>1 DEF Done, Commit
  <2>4. AtWork' \subseteq AtWork BY <2>1 DEF AtWork, Working
  <2>5. \A h \in Syncs : sync[h].at = "idle" => sync'[h].at = "idle" BY <2>1
  <2> QED BY <2>1, <2>2, <2>3, <2>4, <2>5, OutsideKeeps
<1> QED BY <1>1, <1>2, <1>3

-----------------------------------------------------------------------------
\* What a sync has left are targets of its own.
LEMMA LeftStep ==
  ASSUME TypeOK, TypeOK', Named, LeftIn, [Next]_vars
  PROVE  LeftIn'
<1> DEFINE LeftSync == \A h \in Syncs : sync'[h].at \in {"push", "prs"} =>
                         /\ sync'[h].commit = sync[h].commit /\ sync[h].at # "idle"
                         /\ sync'[h].left \subseteq Targets(h)
<1>0. \A h \in Syncs : sync[h].at \in {"push", "prs"} => sync[h].left \subseteq Targets(h)
  BY DEF LeftIn
<1>1. ASSUME NEW g \in Syncs, Inside(g), NEW r \in SyncRecords, sync' = [sync EXCEPT ![g] = r],
             r.at \in {"push", "prs"} => r.left \subseteq Targets(g)
      PROVE  LeftSync
  <2>1. Kept BY <1>1, InsideKeeps
  <2>2. \A h \in Syncs : sync'[h] = IF h = g THEN r ELSE sync[h] BY <1>1 DEF TypeOK
  <2> QED BY <1>0, <1>1, <2>1, <2>2 DEF Kept
<1>2. ASSUME NEW g \in Syncs, Open(g) \/ Gives(g) \/ Checkout(g) \/ PickFails(g) \/ Pushed(g) PROVE LeftSync
  <2>1. sync[g].at \notin {"idle", "lock"} /\ sync' = [sync EXCEPT ![g] = sync'[g]]
    BY <1>2 DEF Open, Gives, Checkout, PickFails, Pushed, Goes, TypeOK
  <2>2. sync'[g].at \notin {"push", "prs"}
    <3>1. CASE Open(g)
      <4>1. CASE config.keeps BY <3>1, <4>1 DEF Open, Goes, TypeOK, SyncRecords
      <4>2. CASE ~config.keeps
        <5> DEFINE r == [sync[g] EXCEPT !.own = Cloned(home[Commit(g)]), !.at = "checkout"]
        <5>1. sync' = [sync EXCEPT ![g] = r] BY <3>1, <4>2 DEF Open
        <5>2. r.at = "checkout" BY DEF TypeOK, SyncRecords
        <5> HIDE DEF r
        <5> QED BY <5>1, <5>2 DEF TypeOK
      <4> QED BY <4>1, <4>2
    <3>2. CASE Gives(g) BY <3>2 DEF Gives, Goes, TypeOK, SyncRecords
    <3>3. CASE Checkout(g) BY <3>3 DEF Checkout, Goes, TypeOK, SyncRecords
    <3>4. CASE PickFails(g) BY <3>4 DEF PickFails, Goes, TypeOK, SyncRecords
    <3>5. CASE Pushed(g) /\ sync[g].left = {}
      BY <3>5 DEF Pushed, Goes, TypeOK, SyncRecords
    <3> QED BY <1>2, <3>1, <3>2, <3>3, <3>4, <3>5 DEF Pushed
  <2>3. sync'[g] \in SyncRecords /\ Inside(g) BY <1>2 DEF TypeOK, Inside
  <2> QED BY <1>1, <2>1, <2>2, <2>3
<1>3. ASSUME NEW g \in Syncs, CherryPick(g) PROVE LeftSync
  <2> DEFINE r == [sync[g] EXCEPT !.at = "push", !.copy = {}, !.left = Targets(g)]
             q == [r EXCEPT !.own.head = sync[g].copy \cup {Commit(g)}]
  <2>1. sync' = [sync EXCEPT ![g] = r] \/ sync' = [sync EXCEPT ![g] = q] BY <1>3 DEF CherryPick
  <2>2. r.left = Targets(g) BY DEF TypeOK, SyncRecords
  <2>3. q.left = r.left BY DEF TypeOK, SyncRecords
  <2> HIDE DEF r, q
  <2>4. sync'[g].left = Targets(g) /\ sync' = [sync EXCEPT ![g] = sync'[g]]
    BY <2>1, <2>2, <2>3 DEF TypeOK
  <2>5. sync'[g] \in SyncRecords /\ Inside(g) BY <1>3 DEF TypeOK, Inside
  <2> QED BY <1>1, <2>4, <2>5
<1>4. ASSUME NEW g \in Syncs, NEW t \in Platforms, Push(g, t) \/ PushFails(g, t) \/ SyncTargetPR(g, t)
      PROVE  LeftSync
  <2>1. /\ sync[g].at \in {"push", "prs"} /\ sync' = [sync EXCEPT ![g] = sync'[g]]
        /\ sync'[g].left = sync[g].left \ {t}
    <3>1. CASE Push(g, t) BY <3>1 DEF Push, PushesTo, Past, TypeOK, SyncRecords
    <3>2. CASE PushFails(g, t) BY <3>2 DEF PushFails, PushesTo, Past, TypeOK, SyncRecords
    <3>3. CASE SyncTargetPR(g, t)
      <4> DEFINE a == IF sync[g].left = {t} THEN "release" ELSE "prs"
                 r == [sync[g] EXCEPT !.left = sync[g].left \ {t}, !.at = a]
      <4>1. sync' = [sync EXCEPT ![g] = r] /\ sync[g].at = "prs" BY <3>3 DEF SyncTargetPR, TypeOK
      <4>2. r.left = sync[g].left \ {t} BY DEF TypeOK, SyncRecords
      <4> HIDE DEF r
      <4> QED BY <4>1, <4>2 DEF TypeOK
    <3> QED BY <1>4, <3>1, <3>2, <3>3
  <2>2. sync'[g] \in SyncRecords /\ Inside(g) BY <1>4 DEF TypeOK, Inside
  <2> QED BY <1>0, <1>1, <2>1, <2>2
<1>5. ASSUME NEW g \in Syncs, SyncAllRefs(g) PROVE LeftSync
  <2>1. /\ sync' = [sync EXCEPT ![g] = sync'[g]]
        /\ sync'[g].at = "prs" => sync'[g].left = Targets(g)
        /\ sync'[g].at \in {"prs", "release"}
    <3>1. CASE sync' = Goes(g, "release") BY <3>1 DEF Goes, TypeOK, SyncRecords
    <3>2. CASE sync' = [sync EXCEPT ![g].at = "prs", ![g].left = Targets(g)]
      <4> DEFINE r == [sync[g] EXCEPT !.at = "prs", !.left = Targets(g)]
      <4>1. sync' = [sync EXCEPT ![g] = r] BY <3>2 DEF TypeOK
      <4>2. r.at = "prs" /\ r.left = Targets(g) BY DEF TypeOK, SyncRecords
      <4> HIDE DEF r
      <4> QED BY <4>1, <4>2 DEF TypeOK
    <3> QED BY <1>5, <3>1, <3>2 DEF SyncAllRefs
  <2>2. sync'[g] \in SyncRecords /\ Inside(g) BY <1>5 DEF TypeOK, Inside
  <2> QED BY <1>1, <2>1, <2>2
<1>6. ASSUME NEW G, NEW s \in [Syncs -> SyncRecords], sync' = Loosen(s, G),
             \A h \in Syncs : s[h].at \in {"push", "prs"} => s[h] = sync[h]
      PROVE  LeftSync
  <2>1. \A h \in Syncs : /\ sync'[h].at = s[h].at /\ sync'[h].commit = s[h].commit
                         /\ sync'[h].left = s[h].left
    BY <1>6, LoosenRest
  <2> QED BY <1>0, <1>6, <2>1
<1>7. ASSUME NEW g \in Syncs, AcquireSyncLock(g) PROVE LeftSync
  <2>1. PICK G : sync' = Loosen(Goes(g, "open"), G) BY <1>7 DEF AcquireSyncLock
  <2>2. Goes(g, "open") \in [Syncs -> SyncRecords] BY GoesType DEF Places
  <2>3. \A h \in Syncs : Goes(g, "open")[h].at \in {"push", "prs"} => Goes(g, "open")[h] = sync[h]
    BY DEF Goes, TypeOK, SyncRecords
  <2> QED BY <1>6, <2>1, <2>2, <2>3
<1>8. ASSUME LeaseExpires PROVE LeftSync
  BY <1>6, <1>8 DEF LeaseExpires, TypeOK
<1>9. ASSUME NEW g \in Syncs, NEW r \in SyncRecords, r.at \in {"idle", "lock"}, sync' = [sync EXCEPT ![g] = r] PROVE LeftSync
  BY <1>0, <1>9 DEF TypeOK
<1>10. ASSUME NEW g \in Syncs, NEW c \in Commits, Start(g, c) \/ \E t \in Platforms : RetrySync(g, c, t)
       PROVE  LeftSync
  <2>2. PICK n \in Holders : sync' = [sync EXCEPT ![g] = Begun(n, c)] BY <1>10 DEF Start, RetrySync, Holders
  <2>3. Begun(n, c) \in SyncRecords /\ Begun(n, c).at \in {"idle", "lock"} BY BegunType
  <2> QED BY <1>9, <2>2, <2>3
<1>11. ASSUME NEW g \in Syncs, Refused(g) \/ Release(g) PROVE LeftSync
  <2>1. Idle \in SyncRecords /\ Idle.at = "idle" BY IdleType DEF Idle
  <2> QED BY <1>9, <1>11, <2>1 DEF Refused, Release
<1>12. ASSUME Crash PROVE LeftSync
  BY <1>12 DEF Crash, Idle
<1>13. ASSUME UNCHANGED sync PROVE LeftSync
  BY <1>0, <1>13
<1>14. LeftSync
  <2>1. ASSUME NEW c \in Commits, NEW p \in Sources, Merge(c, p) PROVE UNCHANGED sync BY <2>1 DEF Merge
  <2> HIDE DEF LeftSync
  <2> QED
    BY <1>2, <1>3, <1>4, <1>5, <1>7, <1>8, <1>10, <1>11, <1>12, <1>13, <2>1 DEF Next, Steps, vars
<1>15. \A h \in Syncs : sync[h].at # "idle" => home'[Commit(h)] = home[Commit(h)]
  BY HomeStays DEF Named
<1>16. config' = config
  BY ZenonT(30) DEF Next, Steps, vars, Merge, Start, RetrySync, AcquireSyncLock, Refused, Open, Gives, Checkout, CherryPick,
         PickFails, Pushed, SyncAllRefs, Release, Push, PushFails, SyncTargetPR, LeaseExpires, Crash
<1> QED
  BY <1>14, <1>15, <1>16 DEF LeftIn, Targets, Commit

-----------------------------------------------------------------------------
\* A step of the one sync at work: the others have nothing to hold, and it is enough to look at its own.
LEMMA WorkerKeeps ==
  ASSUME TypeOK, Named, PickInv, ~mixed, NEW g \in Syncs, Inside(g), Working(g),
         Homes', DoneEverywhere', CloneKept', WorkInv(g)'
  PROVE  PickInv'
<1>1. Kept BY InsideKeeps
<1>2. \A h \in Syncs : h # g => sync'[h].at \in {"idle", "lock"}
  <2>1. \A h \in AtWork : h = g BY DEF PickInv, OneWorks, AtWork
  <2> QED BY <1>1, <2>1 DEF Kept, AtWork, Working
<1>3. OneWorks' BY <1>2 DEF OneWorks, AtWork, Working
<1>4. ASSUME NEW h \in Syncs, h # g PROVE WorkInv(h)' BY <1>2, <1>4 DEF WorkInv
<1>5. WorkHolds' BY <1>4 DEF WorkHolds
<1> QED BY <1>3, <1>5 DEF PickInv

\* Nothing is done with by such a step.
LEMMA InsideDone ==
  ASSUME TypeOK, NEW g \in Syncs, Inside(g), due \subseteq due',
         \A c \in Commits : home'[c] = home[c] \/ c \in due',
         aside \subseteq aside', told \subseteq told', dropped \subseteq dropped',
         unpicked \subseteq unpicked'
  PROVE  Done' \subseteq Done
<1>1. Kept BY InsideKeeps
<1> QED BY <1>1 DEF Done, Kept, Commit

\* What is done with is in the branch of every merged commit's platform.
LEMMA HomeHasDone ==
  ASSUME TypeOK, Homes, DoneEverywhere, NEW c \in Commits, home[c] # 0
  PROVE  Done \subseteq branch[home[c]]
BY DEF Homes, DoneEverywhere

\* Giving up, failing to pick, checking out and recording take nothing from any branch.
LEMMA QuietKeeps ==
  ASSUME TypeOK, TypeOK', Named, PickInv, ~mixed, LeftIn, NEW g \in Syncs,
         \/ Gives(g) \/ Checkout(g) \/ PickFails(g) \/ Pushed(g)
         \/ SyncAllRefs(g) \/ \E t \in Platforms : PushFails(g, t)
  PROVE  PickInv'
<1>1. Inside(g) BY DEF Inside
<1>2. Working(g)
  BY DEF Working, Gives, Checkout, PickFails, Pushed, SyncAllRefs, PushFails, PushesTo
<1>3. /\ config' = config /\ home' = home /\ branch' = branch /\ clone' = clone /\ due' = due
      /\ aside' = aside /\ told \subseteq told' /\ dropped \subseteq dropped'
      /\ unpicked' = unpicked
  BY DEF Gives, Checkout, PickFails, Pushed, SyncAllRefs, PushFails
<1>4. Growth BY <1>3 DEF Growth, PickInv, Homes
<1>5. Done' \subseteq Done BY <1>1, <1>3, InsideDone
<1>6. Homes' /\ DoneEverywhere' /\ CloneKept' BY <1>4, <1>5, GrowthKeeps DEF PickInv
<1>7. sync'[g].commit = sync[g].commit /\ Targets(g)' = Targets(g)
  BY <1>1, <1>3, InsideKeeps DEF Kept, Targets, Commit
<1>8. WorkInv(g) BY DEF PickInv, WorkHolds
<1>9. ASSUME sync'[g].at = "release", Commit(g) \in told' \cup dropped' PROVE WorkInv(g)'
  BY <1>7, <1>9 DEF WorkInv, Commit
<1>10. CASE Gives(g)
  <2>1. sync'[g].at = "release" BY <1>10 DEF Gives, Goes, TypeOK, SyncRecords
  <2>2. WorkInv(g)' BY <1>9, <1>10, <2>1 DEF Gives
  <2> QED BY <1>1, <1>2, <1>6, <2>2, WorkerKeeps
<1>11. CASE PickFails(g)
  <2>1. sync'[g].at = "release" BY <1>11 DEF PickFails, Goes, TypeOK, SyncRecords
  <2>2. WorkInv(g)' BY <1>9, <1>11, <2>1 DEF PickFails
  <2> QED BY <1>1, <1>2, <1>6, <2>2, WorkerKeeps
<1>12. CASE Checkout(g)
  <2>1. \/ /\ sync'[g].at = "pick" /\ sync'[g].copy = Repo(g).head /\ sync'[g].own = sync[g].own
        \/ sync'[g].at = "release" /\ Commit(g) \in told'
    <3>1. CASE sync' = [sync EXCEPT ![g].at = "pick", ![g].copy = Repo(g).head]
      BY <3>1 DEF TypeOK, SyncRecords
    <3>2. CASE sync' = Goes(g, "release") /\ told' = told \cup {Commit(g)}
      BY <3>2 DEF Goes, TypeOK, SyncRecords
    <3> QED BY <1>12, <3>1, <3>2 DEF Checkout
  <2>2. CASE sync'[g].at = "pick" /\ sync'[g].copy = Repo(g).head /\ sync'[g].own = sync[g].own
    <3>1. Cloning(g, Repo(g).head) BY <1>8, <1>12 DEF WorkInv, Checkout
    <3>2. Repo(g)' = Repo(g) BY <1>3, <2>2 DEF Repo
    <3>3. Cloning(g, sync[g].copy)' BY <1>3, <1>5, <1>7, <2>2, <3>1, <3>2 DEF Cloning, Commit
    <3>4. WorkInv(g)' BY <2>2, <3>3 DEF WorkInv
    <3> QED BY <1>1, <1>2, <1>6, <3>4, WorkerKeeps
  <2>3. CASE sync'[g].at = "release" /\ Commit(g) \in told'
    <3>1. WorkInv(g)' BY <1>9, <2>3
    <3> QED BY <1>1, <1>2, <1>6, <3>1, WorkerKeeps
  <2> QED BY <2>1, <2>2, <2>3
<1>13. CASE Pushed(g)
  <2>1. CASE sync[g].failed
    <3>1. sync' = Goes(g, "release") /\ Commit(g) \in told' BY <1>13, <2>1 DEF Pushed
    <3>2. sync'[g].at = "release" BY <3>1 DEF Goes, TypeOK, SyncRecords
    <3>3. WorkInv(g)' BY <1>9, <3>1, <3>2
    <3> QED BY <1>1, <1>2, <1>6, <3>3, WorkerKeeps
  <2>2. CASE ~sync[g].failed
    <3>1. sync' = Goes(g, "refs") /\ sync[g].left = {} /\ sync[g].at = "push" BY <1>13, <2>2 DEF Pushed
    <3>2. sync'[g].at = "refs" BY <3>1 DEF Goes, TypeOK, SyncRecords
    <3>3. \/ Commit(g) \in unpicked
          \/ /\ \A t \in Targets(g) : Commit(g) \in branch[t]
             /\ AtHome(g) /\ (config.keeps => Commit(g) \in clone.head)
      BY <1>8, <2>2, <3>1 DEF WorkInv, Repo
    <3>4. WorkInv(g)' BY <1>3, <1>7, <3>2, <3>3 DEF WorkInv, AtHome, Commit
    <3> QED BY <1>1, <1>2, <1>6, <3>4, WorkerKeeps
  <2> QED BY <2>1, <2>2
<1>14. CASE SyncAllRefs(g)
  <2>1. \/ Commit(g) \in unpicked
        \/ /\ \A t \in Targets(g) : Commit(g) \in branch[t]
           /\ AtHome(g) /\ (config.keeps => Commit(g) \in clone.head)
    BY <1>8, <1>14 DEF WorkInv, SyncAllRefs
  <2>2. sync'[g].at = "prs" \/ sync'[g].at = "release"
    <3>1. CASE sync' = Goes(g, "release") BY <3>1 DEF Goes, TypeOK, SyncRecords
    <3>2. CASE sync' = [sync EXCEPT ![g].at = "prs", ![g].left = Targets(g)]
      BY <3>2 DEF TypeOK, SyncRecords
    <3> QED BY <1>14, <3>1, <3>2 DEF SyncAllRefs
  <2>3. \/ Commit(g) \in aside \cup unpicked
        \/ \A p \in config.platforms : Commit(g) \in branch[p]
    BY <2>1 DEF AtHome, Targets
  <2>4. WorkInv(g)' BY <1>3, <1>7, <2>1, <2>2, <2>3 DEF WorkInv, AtHome, Commit
  <2> QED BY <1>1, <1>2, <1>6, <2>4, WorkerKeeps
<1>15. ASSUME NEW t \in Platforms, PushFails(g, t) PROVE PickInv'
  <2>1. /\ sync[g].at = "push" /\ sync'[g].at = "push" /\ sync'[g].failed
        /\ sync'[g].own = sync[g].own
    <3> DEFINE r == [sync[g] EXCEPT !.left = @ \ {t}]
               q == [r EXCEPT !.failed = TRUE]
    <3>1. sync' = [sync EXCEPT ![g] = q] /\ sync[g].at = "push" BY <1>15 DEF PushFails, PushesTo, Past
    <3>2. r.at = sync[g].at /\ r.own = sync[g].own /\ r \in SyncRecords
      <4>1. sync[g] \in SyncRecords /\ sync[g].left \ {t} \in SUBSET Platforms BY OperatorTypes
      <4>2. r \in SyncRecords BY <4>1, UpdateTypes
      <4> QED BY <4>1, <4>2 DEF SyncRecords
    <3> HIDE DEF r
    <3>3. q.at = r.at /\ q.own = r.own /\ q.failed BY <3>2 DEF SyncRecords
    <3> HIDE DEF q
    <3> QED BY <3>1, <3>2, <3>3 DEF TypeOK
  <2>2. Repo(g)' = Repo(g) BY <1>3, <2>1 DEF Repo
  <2>3. WorkInv(g)' BY <1>3, <1>5, <1>7, <1>8, <2>1, <2>2 DEF WorkInv, AtHome, Commit
  <2> QED BY <1>1, <1>2, <1>6, <2>3, WorkerKeeps
<1> QED BY <1>10, <1>11, <1>12, <1>13, <1>14, <1>15

\* A push overwrites the branch of a target, which is neither its own commit's platform nor the kept clone's, with
\* one that holds all that is done with.
LEMMA PushKeeps ==
  ASSUME TypeOK, TypeOK', Named, PickInv, ~mixed, LeftIn, NEW g \in Syncs, NEW t \in Platforms, Push(g, t)
  PROVE  PickInv'
<1>1. Inside(g) /\ Working(g) BY DEF Inside, Working, Push, PushesTo
<1>2. /\ config' = config /\ home' = home /\ clone' = clone /\ due' = due /\ aside' = aside /\ told' = told
      /\ dropped' = dropped /\ unpicked' = unpicked /\ branch' = [branch EXCEPT ![t] = Repo(g).head] /\ sync[g].at = "push"
      /\ t \in sync[g].left
  BY DEF Push, PushesTo, First
<1>3. \A p \in Platforms : branch'[p] = IF p = t THEN Repo(g).head ELSE branch[p] BY <1>2 DEF TypeOK
<1>4. t \in Targets(g) BY <1>2 DEF LeftIn
<1>5. /\ sync'[g].at = "push" /\ sync'[g].own = sync[g].own /\ sync'[g].failed = sync[g].failed
      /\ sync'[g].left = sync[g].left \ {t} /\ sync'[g].commit = sync[g].commit
  BY DEF Push, PushesTo, Past, TypeOK, SyncRecords
<1>6. Repo(g)' = Repo(g) /\ Targets(g)' = Targets(g) BY <1>2, <1>5 DEF Repo, Targets, Commit
<1>7. Done' \subseteq Done BY <1>1, <1>2, InsideDone
<1>8. /\ Done \subseteq Repo(g).head /\ AtHome(g)
      /\ \/ Commit(g) \in unpicked
         \/ /\ Commit(g) \in Repo(g).head
            /\ \A p \in Targets(g) \ sync[g].left : Commit(g) \in branch[p] \/ sync[g].failed
      /\ config.keeps => home[Commit(g)] = clone.from
  BY <1>2 DEF PickInv, WorkHolds, WorkInv
<1>9. Homes' BY <1>2 DEF PickInv, Homes
<1>10. config.platforms \subseteq Platforms /\ Targets(g) \subseteq Platforms
  BY OperatorTypes, SyncerAssumption DEF TypeOK
<1>11. DoneEverywhere' BY <1>2, <1>3, <1>7, <1>8, <1>10 DEF DoneEverywhere, PickInv
<1>12. Commit(g) \in Commits /\ home[Commit(g)] \in Platforms /\ home[Commit(g)] # t
  BY <1>2, <1>4, OperatorTypes DEF Targets
<1>13. CloneKept'
  <2>1. CASE ~config.keeps BY <1>2, <2>1 DEF CloneKept
  <2>2. CASE config.keeps
    <3>1. clone.from = home[Commit(g)] /\ clone.from \in Platforms /\ clone.from # t BY <1>8, <1>12, <2>2
    <3>2. clone # NoClone BY <3>1, SyncerAssumption DEF NoClone
    <3>3. Pure(clone.from) /\ (\A c \in clone.head \cup clone.known : home[c] = clone.from) /\ Done \subseteq clone.head
      BY <2>2, <3>2 DEF PickInv, CloneKept
    <3>4. Pure(clone.from)' BY <1>2, <1>3, <3>1, <3>3 DEF Pure
    <3> QED BY <1>2, <1>7, <3>2, <3>3, <3>4 DEF CloneKept
  <2> QED BY <2>1, <2>2
<1>14. AtHome(g)' BY <1>2, <1>3, <1>5, <1>8, <1>12 DEF AtHome, Commit
<1>15. \/ Commit(g) \in unpicked
       \/ /\ Commit(g) \in Repo(g).head
          /\ \A p \in Targets(g) \ sync'[g].left : Commit(g) \in branch'[p] \/ sync[g].failed
  BY <1>3, <1>5, <1>8, <1>10
<1>16. WorkInv(g)' BY <1>2, <1>5, <1>6, <1>7, <1>8, <1>14, <1>15 DEF WorkInv, Commit
<1> QED BY <1>1, <1>9, <1>11, <1>13, <1>16, WorkerKeeps

\* Merging a mirror's pull request only adds to the target's branch, as any merge does.
LEMMA TargetPRKeeps ==
  ASSUME TypeOK, TypeOK', Named, PickInv, ~mixed, LeftIn, NEW g \in Syncs, NEW t \in Platforms,
         SyncTargetPR(g, t)
  PROVE  PickInv'
<1>1. Inside(g) /\ Working(g) BY DEF Inside, Working, SyncTargetPR
<1>2. /\ config' = config /\ clone' = clone /\ aside' = aside /\ told' = told /\ dropped' = dropped
      /\ unpicked' = unpicked /\ sync[g].at = "prs" /\ t \in Targets(g)
  BY DEF SyncTargetPR, First, LeftIn
<1>3. \/ home' = home /\ branch' = branch /\ due' = due
      \/ \E m \in Commits : /\ home[m] = 0 /\ home' = [home EXCEPT ![m] = t]
                           /\ branch' = [branch EXCEPT ![t] = branch[t] \cup {m}] /\ due' = due \cup {m}
  BY DEF SyncTargetPR, Mirrors, MirrorMerged
<1>4. t \in config.platforms BY <1>2 DEF Targets
<1>5. Growth
  <2>1. CASE home' = home /\ branch' = branch BY <1>2, <2>1 DEF Growth, PickInv, Homes
  <2>2. ASSUME NEW m \in Commits, home[m] = 0, home' = [home EXCEPT ![m] = t],
               branch' = [branch EXCEPT ![t] = branch[t] \cup {m}]
        PROVE  Growth
    <3>1. \A d \in Commits : home'[d] = IF d = m THEN t ELSE home[d] BY <2>2 DEF TypeOK
    <3>2. \A q \in Platforms : branch'[q] = IF q = t THEN branch[t] \cup {m} ELSE branch[q] BY <2>2 DEF TypeOK
    <3>3. \A d \in Commits : home[d] # 0 => home[d] \in config.platforms BY DEF PickInv, Homes
    <3> QED BY <1>2, <1>4, <2>2, <3>1, <3>2, <3>3 DEF Growth
  <2> QED BY <1>3, <2>1, <2>2
<1>6. due \subseteq due' /\ \A c \in Commits : home'[c] = home[c] \/ c \in due' BY <1>3 DEF TypeOK
<1>7. Done' \subseteq Done BY <1>1, <1>2, <1>6, InsideDone
<1>8. Homes' /\ DoneEverywhere' /\ CloneKept' BY <1>5, <1>7, GrowthKeeps DEF PickInv
<1>9. sync'[g].commit = sync[g].commit BY <1>1, InsideKeeps DEF Kept
<1>10. sync'[g].at \in {"prs", "release"}
  <2> DEFINE a == IF sync[g].left = {t} THEN "release" ELSE "prs"
  <2>1. sync' = [sync EXCEPT ![g].left = @ \ {t}, ![g].at = a] BY DEF SyncTargetPR
  <2>2. a \in {"prs", "release"} OBVIOUS
  <2> HIDE DEF a
  <2> QED BY <2>1, <2>2 DEF TypeOK, SyncRecords
<1>11. \/ Commit(g) \in unpicked
       \/ /\ \A p \in Targets(g) : Commit(g) \in branch[p]
          /\ AtHome(g) /\ (config.keeps => Commit(g) \in clone.head)
  BY <1>2 DEF PickInv, WorkHolds, WorkInv
<1>12. Commit(g) \in Commits /\ home[Commit(g)] \in Platforms /\ home'[Commit(g)] = home[Commit(g)]
  BY <1>2, <1>5, OperatorTypes, SyncerAssumption DEF Growth
<1>13. /\ Targets(g)' = Targets(g)
       /\ \/ Commit(g) \in unpicked
          \/ /\ \A p \in Targets(g) : Commit(g) \in branch'[p]
             /\ Commit(g) \in branch'[home'[Commit(g)]] \cup aside' /\ (config.keeps => Commit(g) \in clone.head)
  BY <1>2, <1>5, <1>9, <1>11, <1>12, OperatorTypes DEF Growth, Targets, Commit, AtHome
<1>14. \/ Commit(g) \in aside \cup unpicked
       \/ \A p \in config.platforms : Commit(g) \in branch'[p]
  BY <1>2, <1>12, <1>13 DEF Targets
<1>15. WorkInv(g)' BY <1>2, <1>9, <1>10, <1>11, <1>13, <1>14 DEF WorkInv, AtHome, Commit
<1> QED BY <1>1, <1>8, <1>15, WorkerKeeps

\* The clone that is kept, or the sync's own, takes the picked commit on top of all it had.
LEMMA CherryPickKeeps ==
  ASSUME TypeOK, TypeOK', Named, PickInv, ~mixed, LeftIn', NEW g \in Syncs, CherryPick(g)
  PROVE  PickInv'
<1> DEFINE c == Commit(g)   S == sync[g].copy
<1>1. Inside(g) /\ Working(g) /\ sync[g].at = "pick" BY DEF Inside, Working, CherryPick
<1>2. /\ config' = config /\ home' = home /\ branch' = branch /\ due' = due
      /\ aside' = aside /\ told' = told /\ dropped' = dropped /\ unpicked \subseteq unpicked'
      /\ c \in S \cup Repo(g).known
  BY DEF CherryPick, Applies, Stages
<1>3. sync'[g].at = "push" /\ sync'[g].left = Targets(g) /\ sync'[g].commit = c
      /\ (config.keeps => sync'[g].own = sync[g].own)
  <2> DEFINE r == [sync[g] EXCEPT !.at = "push", !.copy = {}, !.left = Targets(g)]
             q == [r EXCEPT !.own.head = S \cup {c}]
  <2>1. sync' = [sync EXCEPT ![g] = r] \/ (~config.keeps /\ sync' = [sync EXCEPT ![g] = q]) BY DEF CherryPick
  <2>2. r.at = "push" /\ r.left = Targets(g) /\ r.commit = c /\ r.own = sync[g].own
    BY DEF TypeOK, SyncRecords, Commit
  <2>3. q.at = r.at /\ q.left = r.left /\ q.commit = r.commit BY DEF TypeOK, SyncRecords
  <2> HIDE DEF r, q
  <2> QED BY <2>1, <2>2, <2>3 DEF TypeOK
<1>4. Cloning(g, S) BY <1>1 DEF PickInv, WorkHolds, WorkInv
<1>5. \/ Repo(g)'.head = S \cup {c} /\ (config.keeps => clone' = [clone EXCEPT !.head = S \cup {c}])
      \/ Repo(g)'.head = S /\ clone' = clone /\ c \in S \cup unpicked'
  <2>1. S = Repo(g).head BY <1>4 DEF Cloning
  <2> DEFINE r == [sync[g] EXCEPT !.at = "push", !.copy = {}, !.left = Targets(g)]
             q == [r EXCEPT !.own.head = S \cup {c}]
  <2>2. r.own = sync[g].own /\ r \in SyncRecords
    <3>1. sync[g] \in SyncRecords /\ Targets(g) \subseteq Platforms BY OperatorTypes
    <3> QED BY <3>1 DEF SyncRecords, Places
  <2>3. \/ ~Stages(g) /\ sync' = [sync EXCEPT ![g] = r] /\ clone' = clone /\ c \in S \cup unpicked'
        \/ config.keeps /\ sync' = [sync EXCEPT ![g] = r] /\ clone' = [clone EXCEPT !.head = S \cup {c}]
        \/ ~config.keeps /\ sync' = [sync EXCEPT ![g] = q]
    BY DEF CherryPick
  <2> HIDE DEF r
  <2>4. q.own.head = S \cup {c} BY <2>2 DEF SyncRecords, Clones
  <2> HIDE DEF q
  <2>5. CASE ~Stages(g) /\ sync' = [sync EXCEPT ![g] = r] /\ clone' = clone /\ c \in S \cup unpicked'
    <3>1. sync'[g].own = sync[g].own BY <2>2, <2>5 DEF TypeOK
    <3>2. Repo(g)' = Repo(g) BY <1>2, <2>5, <3>1 DEF Repo
    <3> QED BY <2>1, <2>5, <3>2
  <2>6. CASE config.keeps /\ sync' = [sync EXCEPT ![g] = r] /\ clone' = [clone EXCEPT !.head = S \cup {c}]
    <3>1. clone'.head = S \cup {c} BY <2>6 DEF TypeOK, Clones
    <3> QED BY <1>2, <2>6, <3>1 DEF Repo
  <2>7. CASE ~config.keeps /\ sync' = [sync EXCEPT ![g] = q]
    <3>1. sync'[g].own.head = S \cup {c} BY <2>4, <2>7 DEF TypeOK
    <3> QED BY <1>2, <2>7, <3>1 DEF Repo
  <2> QED BY <2>3, <2>5, <2>6, <2>7
<1>6. Targets(g)' = Targets(g) BY <1>2, <1>3 DEF Targets, Commit
<1>7. Done' \subseteq Done BY <1>1, <1>2, InsideDone
<1>8. Homes' /\ DoneEverywhere' BY <1>2, <1>7 DEF PickInv, Homes, DoneEverywhere
<1>9. c \in Commits /\ home[c] \in Platforms BY <1>1, OperatorTypes
<1>10. CASE config.keeps
  <2>1. /\ clone # NoClone /\ Pure(clone.from) /\ (\A d \in clone.head \cup clone.known : home[d] = clone.from)
        /\ Done \subseteq clone.head /\ S = clone.head
    BY <1>4, <1>10 DEF PickInv, CloneKept, Cloning, Repo
  <2>2. home[c] = clone.from BY <1>2, <1>10, <2>1 DEF Repo
  <2>3. AtHome(g) BY <1>9, <2>1, <2>2 DEF AtHome, Pure
  <2>4. /\ clone'.from = clone.from /\ clone'.known = clone.known /\ clone' # NoClone
        /\ clone'.head = S \cup {c} \/ (clone'.head = S /\ c \in S \cup unpicked')
    <3>1. clone' = clone \/ clone' = [clone EXCEPT !.head = S \cup {c}] BY <1>10 DEF CherryPick
    <3>2. clone'.from = clone.from /\ clone'.known = clone.known BY <3>1 DEF TypeOK, Clones
    <3>3. Repo(g)' = clone' BY <1>2, <1>10 DEF Repo
    <3>4. clone'.from # 0 BY <1>9, <2>2, <3>2, SyncerAssumption
    <3> QED BY <1>5, <3>2, <3>3, <3>4 DEF NoClone
  <2>5. Pure(clone.from)' BY <1>2, <2>1, <2>4 DEF Pure
  <2>6. CloneKept' BY <1>2, <1>7, <2>1, <2>2, <2>4, <2>5 DEF CloneKept, Pure
  <2>7. WorkInv(g)'
    BY <1>2, <1>3, <1>5, <1>6, <1>7, <2>1, <2>2, <2>3, <2>4 DEF WorkInv, AtHome, Commit
  <2> QED BY <1>1, <1>8, <2>6, <2>7, WorkerKeeps
<1>11. CASE ~config.keeps
  <2>1. S = Repo(g).head /\ Done \subseteq S /\ S \subseteq branch[home[c]] /\ Repo(g).known \subseteq S \cup aside
    BY <1>4, <1>11 DEF Cloning, Repo
  <2>2. AtHome(g) BY <1>2, <2>1 DEF AtHome
  <2>3. CloneKept' BY <1>2, <1>11 DEF CloneKept
  <2>4. WorkInv(g)' BY <1>2, <1>3, <1>5, <1>6, <1>7, <1>11, <2>1, <2>2 DEF WorkInv, AtHome, Commit
  <2> QED BY <1>1, <1>8, <2>3, <2>4, WorkerKeeps
<1> QED BY <1>10, <1>11

\* A clone has what its platform's branch has, and so all that is done with.
LEMMA OpenKeeps ==
  ASSUME TypeOK, TypeOK', Named, PickInv, ~mixed, NEW g \in Syncs, Open(g)
  PROVE  PickInv'
<1> DEFINE p == home[Commit(g)]
<1>1. Inside(g) /\ Working(g) /\ sync[g].at = "open" BY DEF Inside, Working, Open
<1>2. /\ config' = config /\ home' = home /\ branch' = branch /\ due' = due
      /\ aside' = aside /\ told' = told /\ dropped' = dropped /\ unpicked' = unpicked
  BY DEF Open
<1>3. sync'[g].at = "checkout" /\ sync'[g].commit = sync[g].commit
      /\ (~config.keeps => sync'[g].own = Cloned(p))
  <2>1. CASE config.keeps BY <2>1 DEF Open, Goes, TypeOK, SyncRecords
  <2>2. CASE ~config.keeps
    <3> DEFINE r == [sync[g] EXCEPT !.own = Cloned(home[Commit(g)]), !.at = "checkout"]
    <3>1. sync' = [sync EXCEPT ![g] = r] BY <2>2 DEF Open
    <3>2. r.at = "checkout" /\ r.commit = sync[g].commit /\ r.own = Cloned(p) BY DEF TypeOK, SyncRecords
    <3> HIDE DEF r
    <3> QED BY <3>1, <3>2 DEF TypeOK
  <2> QED BY <2>1, <2>2
<1>4. Commit(g) \in Commits /\ p \in Platforms /\ p # 0 BY <1>1, OperatorTypes, SyncerAssumption
<1>5. Done \subseteq branch[p] BY <1>4, HomeHasDone DEF PickInv
<1>6. Done' \subseteq Done BY <1>1, <1>2, InsideDone
<1>7. Homes' /\ DoneEverywhere' BY <1>2, <1>6 DEF PickInv, Homes, DoneEverywhere
<1>8. /\ Cloned(p).from = p /\ Cloned(p).head = branch[p]
      /\ Cloned(p).known = branch[p] \cup {c \in aside : home[c] = p}
  BY DEF Cloned, Fetched
<1>9. CASE config.keeps
  <2>1. Repo(g)' = clone' BY <1>2, <1>9 DEF Repo
  <2>2. CASE clone = NoClone
    <3>1. clone' = Cloned(p) /\ \A q \in Platforms : Pure(q) BY <1>9, <2>2 DEF Open, PickInv, CloneKept
    <3>2. clone' # NoClone BY <1>4, <1>8, <3>1 DEF NoClone
    <3>3. \A c \in clone'.head \cup clone'.known : home[c] = p
      <4>1. branch[p] \subseteq Commits /\ aside \subseteq Commits BY <1>4 DEF TypeOK
      <4> QED BY <1>4, <1>8, <3>1, <4>1 DEF Pure
    <3>4. Pure(clone'.from) BY <1>4, <1>8, <3>1
    <3>5. CloneKept'
      <4>1. clone'.from = p /\ clone'.head = branch[p] BY <1>8, <3>1
      <4>2. Done' \subseteq clone'.head BY <1>5, <1>6, <4>1
      <4>3. Pure(clone.from)' BY <1>2, <3>4 DEF Pure
      <4>4. \A c \in clone'.head \cup clone'.known : home'[c] = clone'.from BY <1>2, <3>3, <4>1
      <4> QED BY <3>2, <4>2, <4>3, <4>4 DEF CloneKept
    <3>6. WorkInv(g)' BY <1>2, <1>3, <1>5, <1>6, <1>8, <1>9, <2>1, <3>1, <3>2 DEF WorkInv, Cloning
    <3> QED BY <1>1, <1>7, <3>5, <3>6, WorkerKeeps
  <2>3. CASE clone # NoClone
    <3>1. clone' = [clone EXCEPT !.known = clone.known \cup Fetched(clone.from)] BY <1>9, <2>3 DEF Open
    <3>2. /\ clone'.from = clone.from /\ clone'.head = clone.head
          /\ clone'.known = clone.known \cup Fetched(clone.from)
      BY <3>1 DEF TypeOK, Clones
    <3>3. /\ Pure(clone.from) /\ (\A c \in clone.head \cup clone.known : home[c] = clone.from)
          /\ Done \subseteq clone.head /\ clone.from \in Platforms /\ clone.from # 0
      BY <1>9, <2>3 DEF PickInv, CloneKept, Named, TypeOK, Clones
    <3>4. \A c \in Fetched(clone.from) : home[c] = clone.from
      <4>1. branch[clone.from] \subseteq Commits BY <3>3 DEF TypeOK
      <4> QED BY <3>3, <4>1 DEF Fetched, Pure
    <3>5. clone' # NoClone BY <3>2, <3>3 DEF NoClone
    <3>6. Pure(clone.from)' BY <1>2, <3>2, <3>3 DEF Pure
    <3>7. CloneKept' BY <1>2, <1>6, <3>2, <3>3, <3>4, <3>5, <3>6 DEF CloneKept, Pure
    <3>8. WorkInv(g)' BY <1>2, <1>3, <1>6, <1>9, <2>1, <3>2, <3>3, <3>5 DEF WorkInv, Cloning
    <3> QED BY <1>1, <1>7, <3>7, <3>8, WorkerKeeps
  <2> QED BY <2>2, <2>3
<1>10. CASE ~config.keeps
  <2>1. Repo(g)' = Cloned(p) /\ sync'[g].own = Cloned(p) BY <1>2, <1>3, <1>10 DEF Repo
  <2>2. CloneKept' BY <1>2, <1>10 DEF CloneKept
  <2>3. home'[sync'[g].commit] = p BY <1>2, <1>3 DEF Commit
  <2>4. WorkInv(g)' BY <1>2, <1>3, <1>5, <1>6, <1>8, <1>10, <2>1, <2>3 DEF WorkInv, Cloning, Commit
  <2> QED BY <1>1, <1>7, <2>2, <2>4, WorkerKeeps
<1> QED BY <1>9, <1>10

\* The commit of a sync that is over is done with, or known not to be.
LEMMA ReleaseKeeps ==
  ASSUME TypeOK, TypeOK', Named, PickInv, ~mixed, NEW g \in Syncs, Release(g)
  PROVE  PickInv'
<1>1. /\ config' = config /\ home' = home /\ branch' = branch /\ due' = due /\ clone' = clone
      /\ aside' = aside /\ told' = told /\ dropped' = dropped /\ unpicked' = unpicked /\ sync[g].at = "release"
      /\ sync' = [sync EXCEPT ![g] = Idle]
  BY DEF Release
<1>2. \A h \in Syncs : sync'[h] = IF h = g THEN Idle ELSE sync[h] BY <1>1 DEF TypeOK
<1>3. \A h \in Syncs : h # g => sync[h].at \in {"idle", "lock"}
  <2>1. g \in AtWork /\ \A h \in AtWork : h = g BY <1>1 DEF PickInv, OneWorks, AtWork, Working
  <2> QED BY <2>1 DEF AtWork, Working
<1>4. \/ Commit(g) \in aside \cup told \cup dropped \cup unpicked
      \/ /\ \A p \in config.platforms : Commit(g) \in branch[p]
         /\ config.keeps => Commit(g) \in clone.head
  BY <1>1 DEF PickInv, WorkHolds, WorkInv
<1>5. \A c \in Done' : c \in Done \/ (c = Commit(g) /\ c \notin aside \cup told \cup dropped \cup unpicked)
  BY <1>1, <1>2 DEF Done, Commit
<1>6. Homes' BY <1>1 DEF PickInv, Homes
<1>7. DoneEverywhere' BY <1>1, <1>4, <1>5 DEF PickInv, DoneEverywhere
<1>8. CloneKept'
  <2>1. CASE ~config.keeps BY <1>1, <2>1 DEF CloneKept
  <2>2. CASE config.keeps
    <3>1. Done' \subseteq clone.head BY <1>4, <1>5, <2>2 DEF PickInv, CloneKept
    <3> QED BY <1>1, <2>2, <3>1 DEF PickInv, CloneKept, Pure
  <2> QED BY <2>1, <2>2
<1>9. \A h \in Syncs : sync'[h].at \in {"idle", "lock"} BY <1>2, <1>3 DEF Idle
<1>10. OneWorks' /\ WorkHolds' BY <1>9 DEF OneWorks, AtWork, Working, WorkHolds, WorkInv
<1> QED BY <1>6, <1>7, <1>8, <1>10 DEF PickInv

\* Homes are platforms of the group; that two have been at work at once is not forgotten.
LEMMA HomesStep ==
  ASSUME TypeOK, Homes, LeftIn, [Next]_vars
  PROVE  Homes' /\ (mixed => mixed')
<1>1. ASSUME NEW c \in Commits, NEW p \in Sources, Merge(c, p) PROVE Homes' /\ (mixed => mixed')
  BY <1>1 DEF Merge, Homes, TypeOK
<1>2. ASSUME NEW g \in Syncs, NEW t \in Platforms, SyncTargetPR(g, t) PROVE Homes' /\ (mixed => mixed')
  <2>1. t \in config.platforms BY <1>2 DEF SyncTargetPR, First, LeftIn, Targets
  <2> QED BY <1>2, <2>1 DEF SyncTargetPR, MirrorMerged, Mirrors, Homes, TypeOK
<1>3. ASSUME home' = home, config' = config, mixed => mixed' PROVE Homes' /\ (mixed => mixed')
  BY <1>3 DEF Homes
<1>4. ASSUME NEW g \in Syncs,
             \/ Refused(g) \/ Open(g) \/ Gives(g) \/ Checkout(g)
             \/ CherryPick(g) \/ PickFails(g) \/ Pushed(g) \/ SyncAllRefs(g) \/ Release(g)
             \/ \E t \in Platforms : Push(g, t) \/ PushFails(g, t)
      PROVE  home' = home /\ config' = config /\ mixed' = mixed
  BY <1>4 DEF Refused, Open, Gives, Checkout, CherryPick, PickFails, Pushed, SyncAllRefs, Release,
              Push, PushFails
<1>5. ASSUME NEW g \in Syncs, NEW c \in Commits, Start(g, c) \/ \E t \in Platforms : RetrySync(g, c, t)
      PROVE  home' = home /\ config' = config /\ mixed' = mixed
  BY <1>5 DEF Start, RetrySync
<1>6. ASSUME LeaseExpires \/ Crash \/ UNCHANGED vars PROVE home' = home /\ config' = config /\ mixed' = mixed
  BY <1>6 DEF LeaseExpires, Crash, vars
<1>7. ASSUME NEW g \in Syncs, AcquireSyncLock(g) PROVE home' = home /\ config' = config /\ (mixed => mixed')
  BY <1>7 DEF AcquireSyncLock
<1> QED BY <1>1, <1>2, <1>3, <1>4, <1>5, <1>6, <1>7 DEF Next, Steps

LEMMA PickStep ==
  ASSUME TypeOK, TypeOK', Named, IdleNone, LeftIn, LeftIn', PickInv, [Next]_vars
  PROVE  PickInv'
<1>1. Homes' /\ (mixed => mixed') BY HomesStep DEF PickInv
<1>2. CASE mixed' BY <1>1, <1>2 DEF PickInv
<1>3. CASE ~mixed'
  <2>1. ~mixed BY <1>1, <1>3
  <2>2. ASSUME NEW g \in Syncs, NEW c \in Commits, Start(g, c) PROVE PickInv'
    BY <2>1, <2>2, BeginKeeps DEF Start, MayBegin, Holders
  <2>3. ASSUME NEW g \in Syncs, NEW c \in Commits, NEW t \in Platforms, RetrySync(g, c, t) PROVE PickInv'
    BY <2>1, <2>3, BeginKeeps DEF RetrySync, MayBegin, Holders
  <2>4. ASSUME NEW g \in Syncs, Steps(g) PROVE PickInv'
    BY <1>3, <2>1, <2>4, LockKeeps, RefusedKeeps, QuietKeeps, PushKeeps, TargetPRKeeps, CherryPickKeeps, OpenKeeps,
       ReleaseKeeps DEF Steps
  <2> QED BY <2>1, <2>2, <2>3, <2>4, MergeKeeps, RestKeeps DEF Next
<1> QED BY <1>2, <1>3

LEMMA PickBegins == Init => IdleNone /\ LeftIn /\ PickInv
<1> SUFFICES ASSUME Init PROVE IdleNone /\ LeftIn /\ PickInv OBVIOUS
<1>1. \A g \in Syncs : sync[g].at = "idle" /\ sync[g].commit = NoOne BY DEF Init, Idle
<1>2. Done = {} BY DEF Init, Done
<1>3. 0 \notin Platforms BY SyncerAssumption
<1>4. clone = NoClone /\ clone.head = {} /\ clone.known = {} BY DEF Init, NoClone
<1>5. DoneEverywhere /\ CloneKept BY <1>2, <1>3, <1>4 DEF DoneEverywhere, CloneKept, Pure, Init
<1>6. OneWorks /\ WorkHolds BY <1>1 DEF OneWorks, AtWork, Working, WorkHolds, WorkInv
<1>7. Homes BY DEF Init, Homes
<1> QED BY <1>1, <1>5, <1>6, <1>7 DEF IdleNone, LeftIn, PickInv

LEMMA AlwaysPick == Spec => [](IInv /\ IdleNone /\ LeftIn /\ PickInv)
<1> DEFINE I == IInv /\ IdleNone /\ LeftIn /\ PickInv
<1>1. Init => I BY Begins, PickBegins
<1>2. I /\ [Next]_vars => I'
  <2> SUFFICES ASSUME I, [Next]_vars PROVE I' OBVIOUS
  <2>1. IInv' BY TypeStep, NamedStep, LockStep DEF IInv
  <2>2. IdleNone' /\ LeftIn' BY <2>1, IdleStep, LeftStep DEF IInv
  <2> QED BY <2>1, <2>2, PickStep DEF IInv
<1> QED BY <1>1, <1>2, PTL DEF Spec

\* A commit whose sync is over is on every platform, whatever pickings and pushes of later syncs overwrite, unless
\* its failure was told, the sync did not get as far as picking it, picking it committed nothing, or two syncs have
\* worked at once.
THEOREM NothingLostHolds == Spec => []NothingLost
<1>1. PickInv => NothingLost BY DEF PickInv, DoneEverywhere, Done, NothingLost, Arrived
<1> QED BY AlwaysPick, <1>1, PTL

\* A sync leaves the mirrors' pull requests only after its commit has reached every target, unless picking it
\* committed nothing.
THEOREM CodeFirstHolds == Spec => CodeFirst
<1>1. IInv /\ IdleNone /\ LeftIn /\ PickInv /\ [Next]_vars =>
        [\A g \in Syncs : sync[g].at = "prs" /\ sync'[g].at # "prs" /\ ~mixed /\ faults' = faults =>
             Commit(g) \in unpicked \/ \A t \in Targets(g) : Commit(g) \in branch[t]]_vars
  BY DEF PickInv, WorkHolds, WorkInv
<1> QED BY AlwaysPick, <1>1, PTL DEF Spec, CodeFirst

=============================================================================
