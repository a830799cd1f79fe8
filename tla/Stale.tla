------------------------------- MODULE Stale -------------------------------
(***************************************************************************)
(* Pull requests nobody works on: a check lists the open ones of each      *)
(* platform, labels those idle for long, and closes those that stay idle   *)
(* with the label.  Checks run on a ticker and on request, and may overlap *)
(* with one another and with what people do.  The days a pull request has  *)
(* been idle are counted from its last update, whoever made it: labels and *)
(* comments of the check itself too; or, where the platform does not tell  *)
(* the update (some of Gitea and Forgejo), from its creation.              *)
(***************************************************************************)
EXTENDS Integers, FiniteSets

CONSTANTS
  Platforms,  \* numbered in the order of GroupPlatforms
  Shown,      \* those whose listings show labels: not Gerrit
  Numbers,    \* of pull requests; each platform has its own under a number
  Configs,    \* days_until_stale, days_until_close, remove_stale_on_activity; which platforms take
              \* labels: not Bitbucket; and the pull requests listed without their last update
  Checks,     \* "ticker" and the requests
  Acts,       \* bound: what people do, requests included
  Faults      \* bound: calls of a platform that fail, and crashes

ASSUME StaleAssumption ==
  /\ Platforms \subseteq Nat
  /\ {Acts, Faults} \subseteq Nat /\ "ticker" \in Checks
  /\ \A c \in Configs : c.stale \in Nat \ {0} /\ c.close \in Nat /\ c.removes \in BOOLEAN
                       /\ Shown \subseteq c.takes /\ c.takes \subseteq Platforms /\ c.undated \subseteq Platforms \X Numbers

VARIABLES
  config,
  pr,        \* pr[id]: open, label, spared (a draft, an exempt label), age (the days it counts as idle)
  created,   \* platforms where the label has been created
  check,     \* check[k]: what check k is doing
  tick,      \* the ticker's check of the day is due
  removals,  \* pull requests from which the label is being taken
  acts, faults,
  \* History of what the code does not look at:
  since,     \* since[id]: days the pull request has been open since the label was put on
  promised   \* promised[id]: the days left by the comment that goes with the label

staleVars == <<config, pr, created, check, tick, removals, acts, faults, since, promised>>

PRs == Platforms \X Numbers
Enough == config.stale + config.close
Older(days) == IF days < Enough THEN days + 1 ELSE days
Idle == [at |-> "idle", left |-> {}, seen |-> {}, id |-> <<0, 0>>, age |-> 0, over |-> FALSE]
IsLeast(p, S) == p \in S /\ \A q \in S : p <= q

Pass(k, c) == check' = [check EXCEPT ![k] = c]
Back(k) == [check[k] EXCEPT !.at = "list", !.id = Idle.id, !.age = 0]
Act == acts > 0 /\ acts' = acts - 1
Fault == faults > 0 /\ faults' = faults - 1

\* Variants, which the properties tell from the code
ToCloseUnlabelled(s) == config.close > 0 /\ s.age >= Enough

\* The platform's update of a pull request, which makes it young again if it is told
Update(id, r) == pr' = [pr EXCEPT ![id] = IF id \in config.undated THEN r ELSE [r EXCEPT !.age = 0]]

-----------------------------------------------------------------------------
\* CheckAllGroups on the ticker, HandleStaleCheck on request
CheckAllGroups(k) ==
  /\ check[k] = Idle
  /\ IF k = "ticker" THEN tick /\ tick' = FALSE /\ UNCHANGED acts ELSE Act /\ UNCHANGED tick
  /\ LET over == \E h \in Checks : check[h].at # "idle" IN
       check' = [h \in Checks |->
         IF h = k THEN [Idle EXCEPT !.at = "list", !.left = Platforms, !.over = over]
         ELSE IF check[h].at # "idle" THEN [check[h] EXCEPT !.over = TRUE] ELSE check[h]]
  /\ UNCHANGED <<config, pr, created, removals, faults, since, promised>>

Listed(p) == {[id |-> <<p, n>>, label |-> p \in Shown /\ pr[<<p, n>>].label,
               spared |-> pr[<<p, n>>].spared, age |-> pr[<<p, n>>].age]
              : n \in {m \in Numbers : pr[<<p, m>>].open}}

\* CheckRepoGroup: a platform that cannot be listed is left out.
CheckRepoGroup(k) ==
  /\ check[k].at = "list" /\ check[k].seen = {}
  /\ IF check[k].left = {} THEN Pass(k, Idle) /\ UNCHANGED faults
     ELSE \E p \in Platforms : LET next == [check[k] EXCEPT !.left = @ \ {p}] IN
          /\ IsLeast(p, check[k].left)
          /\ \/ Pass(k, [next EXCEPT !.seen = Listed(p)]) /\ UNCHANGED faults
             \/ Pass(k, next) /\ Fault
  /\ UNCHANGED <<config, pr, created, tick, removals, acts, since, promised>>

ToMark(s) == ~s.spared /\ ~s.label /\ s.age >= config.stale
ToClose(s) == ~s.spared /\ s.label /\ config.close > 0 /\ s.age >= Enough

\* processPR, of what was listed
ProcessPR(k) == \E s \in check[k].seen :
  /\ check[k].at = "list"
  /\ Pass(k, [check[k] EXCEPT !.seen = @ \ {s}, !.at = IF ToClose(s) THEN "close" ELSE IF ToMark(s) THEN "mark" ELSE "list",
                              !.id = IF ToClose(s) \/ ToMark(s) THEN s.id ELSE @,
                              !.age = IF ToClose(s) \/ ToMark(s) THEN s.age ELSE @])
  /\ UNCHANGED <<config, pr, created, tick, removals, acts, faults, since, promised>>

EnsureLabelNew(p) == p \notin created /\ created' = created \cup {p}

\* ensureLabelExists: that there is one already is no error
EnsureLabel(p) == created' = created \cup {p}

\* markStale: the label, and then the comment that says how long is left
MarkStale(k) ==
  LET id == check[k].id IN
  \/ /\ check[k].at = "mark" /\ id[1] \in config.takes /\ EnsureLabel(id[1])
     /\ Update(id, [pr[id] EXCEPT !.label = TRUE])
     /\ since' = [since EXCEPT ![id] = IF pr[id].label THEN @ ELSE 0]
     /\ promised' = [promised EXCEPT ![id] = IF check[k].age < Enough THEN Enough - check[k].age ELSE 0]
     /\ Pass(k, [check[k] EXCEPT !.at = "comment"]) /\ UNCHANGED <<config, tick, removals, acts, faults>>
  \/ /\ check[k].at = "comment" /\ Update(id, pr[id]) /\ Pass(k, Back(k))
     /\ UNCHANGED <<config, created, tick, removals, acts, faults, since, promised>>

\* autoClose, whatever has become of the pull request since it was listed
AutoClose(k) ==
  LET id == check[k].id IN
  /\ check[k].at = "close" /\ Update(id, [pr[id] EXCEPT !.open = FALSE])
  /\ Pass(k, Back(k))
  /\ UNCHANGED <<config, created, tick, removals, acts, faults, since, promised>>

\* A call to a platform fails: only logged.
CallFails(k) ==
  /\ check[k].at \in {"mark", "comment", "close"}
  /\ IF check[k].at = "mark" /\ check[k].id[1] \notin config.takes THEN UNCHANGED faults ELSE Fault
  /\ Pass(k, Back(k))
  /\ UNCHANGED <<config, pr, created, tick, removals, acts, since, promised>>

-----------------------------------------------------------------------------
\* What people do
Touch(id) ==
  /\ Act /\ \E s \in BOOLEAN : Update(id, [pr[id] EXCEPT !.spared = s])
  /\ UNCHANGED <<config, created, check, tick, removals, faults, since, promised>>

\* A closed pull request is opened again: HandleActivity takes the label off the pull requests
\* of that number on every platform of the group, if the event shows it.
HandleActivity(id) ==
  /\ Act /\ ~pr[id].open /\ Update(id, [pr[id] EXCEPT !.open = TRUE])
  /\ removals' = IF config.removes /\ id[1] \in Shown /\ pr[id].label
                 THEN removals \cup {<<p, id[2]>> : p \in Platforms} ELSE removals
  /\ UNCHANGED <<config, tick, created, check, faults, since, promised>>

\* On request: HandleStaleUnmark tries GitHub, GitLab and Gitea only.
HandleStaleUnmark(n) ==
  /\ Act /\ removals' = removals \cup {<<p, n>> : p \in Shown}
  /\ UNCHANGED <<config, tick, pr, created, check, faults, since, promised>>

\* The bots try every platform.
Unstale(n) ==
  /\ Act /\ removals' = removals \cup {<<p, n>> : p \in Platforms}
  /\ UNCHANGED <<config, tick, pr, created, check, faults, since, promised>>

\* removeStaleLabel, platform by platform: where there is no label it is an error.
RemoveStaleLabel(id) ==
  /\ id \in removals /\ removals' = removals \ {id}
  /\ \/ /\ IF pr[id].label THEN Update(id, [pr[id] EXCEPT !.label = FALSE]) ELSE UNCHANGED pr
        /\ UNCHANGED faults
     \/ pr[id].label /\ Fault /\ UNCHANGED pr
  /\ UNCHANGED <<config, tick, created, check, acts, since, promised>>

\* A check is taken to end within the day, and the ticker to tick once in it.
Day ==
  /\ \A k \in Checks : check[k] = Idle
  /\ tick' = TRUE
  /\ pr' = [id \in PRs |-> IF pr[id].open \/ id \in config.undated THEN [pr[id] EXCEPT !.age = Older(@)] ELSE pr[id]]
  /\ since' = [id \in PRs |-> IF pr[id].open /\ pr[id].label THEN Older(since[id]) ELSE since[id]]
  /\ UNCHANGED <<config, created, check, removals, acts, faults, promised>>

Crash ==
  /\ Fault /\ check' = [k \in Checks |-> Idle] /\ removals' = {} /\ tick' = TRUE
  /\ UNCHANGED <<config, pr, created, acts, since, promised>>

-----------------------------------------------------------------------------
StaleInit ==
  /\ config \in Configs /\ created = {} /\ removals = {} /\ acts = Acts /\ faults = Faults
  /\ pr = [id \in PRs |-> [open |-> TRUE, label |-> FALSE, spared |-> FALSE, age |-> 0]]
  /\ check = [k \in Checks |-> Idle] /\ tick = TRUE
  /\ since = [id \in PRs |-> 0] /\ promised = [id \in PRs |-> 0]

Steps(k) == CheckRepoGroup(k) \/ ProcessPR(k) \/ MarkStale(k) \/ AutoClose(k) \/ CallFails(k)

StaleNext ==
  \/ \E k \in Checks : CheckAllGroups(k) \/ Steps(k)
  \/ \E id \in PRs : Touch(id) \/ HandleActivity(id) \/ RemoveStaleLabel(id)
  \/ \E n \in Numbers : HandleStaleUnmark(n) \/ Unstale(n)
  \/ Day \/ Crash

-----------------------------------------------------------------------------
\* A check that has run alone closes a pull request only when it has been open with the label
\* for the days the comment gave it, and for days_until_close if its update is told.
WarnedBeforeClose ==
  [][\A k \in Checks : LET id == check[k].id IN
       check[k].at = "close" /\ ~check[k].over /\ ~pr'[id].open =>
         since[id] >= promised[id] /\ (id \in config.undated \/ since[id] >= config.close)]_staleVars

\* What nobody touches is closed in the end, where labels are shown and closing is on.
IdleEnds ==
  \A id \in PRs : <>[](config.close > 0 /\ id[1] \in Shown => ~pr[id].open \/ pr[id].spared)
=============================================================================
