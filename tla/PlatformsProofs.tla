-------------------------- MODULE PlatformsProofs --------------------------
(***************************************************************************)
(* Proofs about four of the parts of MCPlatforms, for every value of the   *)
(* constants: stale checks, labels, the judging of CI before a merge, and  *)
(* the reading of reviews.  Each part has an inductive invariant of its    *)
(* own, which its own steps keep and those of the others leave alone.      *)
(***************************************************************************)
EXTENDS MCPlatforms, FiniteSetTheorems, SequenceTheorems, WellFoundedInduction, TLAPS

-----------------------------------------------------------------------------
\* Pull requests nobody works on

PullRecords == [open : BOOLEAN, label : BOOLEAN, spared : BOOLEAN, age : Nat]
Entries == [id : PRs, label : BOOLEAN, spared : BOOLEAN, age : Nat]
CheckRecords == [at : {"idle", "list", "mark", "comment", "close"}, left : SUBSET Platforms, seen : SUBSET Entries,
                 id : PRs \cup {<<0, 0>>}, age : Nat, over : BOOLEAN]
StaleTyped == /\ config \in Configs /\ pr \in [PRs -> PullRecords] /\ check \in [Checks -> CheckRecords]
              /\ since \in [PRs -> Nat] /\ promised \in [PRs -> Nat]

\* A pull request of this age has had the label for days, and its comment said that said days were left: where the
\* platform tells updates, its last one is no older than the label; where not, the days left are counted from its age.
Warned(g, id, age, days, said) ==
  IF id \in g.undated THEN days + (g.stale + g.close) >= said + age ELSE days >= age
Counted(g, prs, days, said) == \A id \in PRs : prs[id].label => Warned(g, id, prs[id].age, days[id], said[id])

\* No comment promises more than days_until_close, days are counted up to Enough, and a pull request without an update
\* has been closed at that age.
Aged(g, prs, said) ==
  \A id \in PRs : /\ said[id] <= g.close /\ prs[id].age <= g.stale + g.close
                  /\ id \in g.undated /\ ~prs[id].open => prs[id].age = g.stale + g.close

\* What a check has listed and has still to see to, and what it is seeing to, are different pull requests, and the
\* age of those without an update is what it was; and a check that has run alone, on whose pull requests nobody else
\* can have put the label anew, closes only what has been warned for long.
SoundCheck(g, c, prs, days, said) ==
  /\ c.at = "idle" => c.seen = {}
  /\ \A s, u \in c.seen : s.id = u.id => s = u
  /\ c.at \in {"mark", "comment", "close"} => c.id \in PRs /\ \A s \in c.seen : s.id # c.id
  /\ \A s \in c.seen : s.id \in g.undated => s.age = prs[s.id].age
  /\ c.at \in {"mark", "close"} => c.age >= g.stale /\ (c.id \in g.undated => c.age = prs[c.id].age)
  /\ c.at = "close" => c.age >= g.stale + g.close
  /\ ~c.over => \A s \in c.seen : s.label => Warned(g, s.id, s.age, days[s.id], said[s.id])
  /\ ~c.over /\ c.at = "close" => days[c.id] >= said[c.id] /\ (c.id \in g.undated \/ days[c.id] >= g.close)

AloneOrOver == \A k, h \in Checks : k # h /\ check[k].at # "idle" /\ check[h].at # "idle" => check[k].over

StaleInv == /\ StaleTyped /\ Counted(config, pr, since, promised) /\ Aged(config, pr, promised) /\ AloneOrOver
            /\ \A k \in Checks : SoundCheck(config, check[k], pr, since, promised)

\* Pull requests without an update keep their age.
AgesStand(g, prs, next) == \A id \in PRs : id \in g.undated => next[id].age = prs[id].age

LEMMA StaleSizes ==
  ASSUME StaleTyped
  PROVE  config.close \in Nat /\ config.stale \in Nat /\ Enough \in Nat /\ Enough = config.stale + config.close
         /\ Enough >= config.close
BY StaleAssumption DEF StaleTyped, Enough

\* A step of a check: whatever becomes of the days counted, the other checks are idle, or know that they were not alone.
LEMMA CheckKeeps ==
  ASSUME StaleInv, NEW k \in Checks, check[k].at # "idle", NEW c \in CheckRecords, check' = [check EXCEPT ![k] = c],
         c.at = "idle" \/ c.over = check[k].over, config' = config, pr' \in [PRs -> PullRecords],
         since' \in [PRs -> Nat], promised' \in [PRs -> Nat], Counted(config, pr', since', promised'),
         Aged(config, pr', promised'), AgesStand(config, pr, pr'), SoundCheck(config, c, pr', since', promised')
  PROVE  StaleInv'
<1> USE DEF StaleInv
<1>1. \A h \in Checks : check'[h] = IF h = k THEN c ELSE check[h]
  BY DEF StaleTyped
<1>2. StaleTyped'
  BY DEF StaleTyped
<1>3. AloneOrOver'
  BY <1>1 DEF AloneOrOver
<1>4. ASSUME NEW h \in Checks PROVE SoundCheck(config, check'[h], pr', since', promised')
  <2>1. CASE h = k
    BY <1>1, <2>1
  <2>2. CASE h # k
    <3>1. check[h].at = "idle" \/ check[h].over
      BY <2>2 DEF AloneOrOver
    <3>2. SoundCheck(config, check[h], pr, since, promised) /\ check'[h] = check[h] /\ check[h] \in CheckRecords
      BY <1>1, <2>2 DEF StaleTyped
    <3>3. check[h].seen \subseteq Entries /\ \A s \in Entries : s.id \in PRs
      BY <3>2 DEF CheckRecords, Entries
    <3>4. SoundCheck(config, check[h], pr', since', promised')
      BY <3>1, <3>2, <3>3 DEF SoundCheck, AgesStand
    <3> QED
      BY <3>2, <3>4
  <2> QED
    BY <2>1, <2>2
<1> QED
  BY <1>2, <1>3, <1>4

\* What people do makes no check less sound.
LEMMA OthersKeep ==
  ASSUME StaleInv, UNCHANGED <<check, config, since, promised>>, pr' \in [PRs -> PullRecords],
         Counted(config, pr', since', promised'), Aged(config, pr', promised'), AgesStand(config, pr, pr')
  PROVE  StaleInv'
<1> USE DEF StaleInv
<1>1. StaleTyped'
  BY DEF StaleTyped
<1>2. AloneOrOver'
  BY DEF AloneOrOver
<1>3. ASSUME NEW k \in Checks PROVE SoundCheck(config, check[k], pr', since, promised)
  <2>1. SoundCheck(config, check[k], pr, since, promised) /\ check[k] \in CheckRecords
    BY DEF StaleTyped
  <2>2. check[k].seen \subseteq Entries /\ \A s \in Entries : s.id \in PRs
    BY <2>1 DEF CheckRecords, Entries
  <2> QED
    BY <2>1, <2>2 DEF SoundCheck, AgesStand
<1> QED
  BY <1>1, <1>2, <1>3

LEMMA IdleSound == /\ Idle \in CheckRecords /\ Idle.at = "idle" /\ Idle.seen = {}
                   /\ \A g, prs, days, said : SoundCheck(g, Idle, prs, days, said)
BY DEF Idle, CheckRecords, SoundCheck

LEMMA StaleInvInit == StaleInit => StaleInv
<1> SUFFICES ASSUME StaleInit PROVE StaleInv
  OBVIOUS
<1>1. StaleTyped
  BY IdleSound DEF StaleInit, StaleTyped, PullRecords
<1>2. Aged(config, pr, promised)
  BY <1>1, StaleSizes DEF StaleInit, Aged
<1>3. Counted(config, pr, since, promised) /\ AloneOrOver
  BY IdleSound DEF StaleInit, Counted, AloneOrOver
<1>4. \A k \in Checks : SoundCheck(config, check[k], pr, since, promised)
  BY IdleSound DEF StaleInit
<1> QED
  BY <1>1, <1>2, <1>3, <1>4 DEF StaleInv

\* An update of one pull request makes it young where the platform tells it; that its label is new is noted.
LEMMA UpdateCounts ==
  ASSUME StaleInv, NEW id \in PRs, NEW r \in PullRecords, Update(id, r), r.age = pr[id].age,
         r.open \/ r.age >= Enough \/ id \notin config.undated,
         since' \in [PRs -> Nat], promised' \in [PRs -> Nat], promised'[id] <= config.close,
         \A i \in PRs : i # id => since'[i] = since[i] /\ promised'[i] = promised[i],
         r.label /\ id \in config.undated => Warned(config, id, r.age, since'[id], promised'[id])
  PROVE  /\ pr' \in [PRs -> PullRecords] /\ Counted(config, pr', since', promised')
         /\ Aged(config, pr', promised') /\ AgesStand(config, pr, pr')
<1> DEFINE young == [r EXCEPT !.age = 0]   q == IF id \in config.undated THEN r ELSE young
<1>1. pr \in [PRs -> PullRecords] /\ Counted(config, pr, since, promised) /\ Aged(config, pr, promised) /\ StaleTyped
  BY DEF StaleInv, StaleTyped
<1>2. young \in PullRecords /\ young.age = 0 /\ young.open = r.open /\ young.label = r.label
  BY DEF PullRecords
<1>3. pr' = [pr EXCEPT ![id] = q]
  BY DEF Update
<1> HIDE DEF young
<1>4. q \in PullRecords /\ q.open = r.open /\ q.label = r.label /\ q.age = IF id \in config.undated THEN r.age ELSE 0
  BY <1>2
<1> HIDE DEF q
<1>5. \A i \in PRs : pr'[i] = IF i = id THEN q ELSE pr[i]
  BY <1>1, <1>3
<1>6. pr' \in [PRs -> PullRecords]
  BY <1>1, <1>3, <1>4
<1>7. q.label => Warned(config, id, q.age, since'[id], promised'[id])
  BY <1>4 DEF Warned
<1>8. Counted(config, pr', since', promised')
  <2> SUFFICES ASSUME NEW i \in PRs, pr'[i].label PROVE Warned(config, i, pr'[i].age, since'[i], promised'[i])
    BY DEF Counted
  <2>1. CASE i = id
    BY <1>5, <1>7, <2>1
  <2>2. CASE i # id
    BY <1>1, <1>5, <2>2 DEF Counted
  <2> QED
    BY <2>1, <2>2
<1>9. Aged(config, pr', promised')
  <2>1. r.age <= config.stale + config.close /\ r.age \in Nat /\ config.stale + config.close = Enough /\ Enough \in Nat
    BY <1>1, StaleSizes DEF Aged, PullRecords
  <2>2. /\ q.age <= config.stale + config.close
        /\ id \in config.undated /\ ~q.open => q.age = config.stale + config.close
    BY <1>4, <2>1
  <2> QED
    BY <1>1, <1>5, <2>2 DEF Aged
<1>10. AgesStand(config, pr, pr')
  BY <1>4, <1>5 DEF AgesStand
<1> QED
  BY <1>6, <1>8, <1>9, <1>10

\* Where nothing but the pull request changes, it keeps the warning it had.
LEMMA PlainUpdate ==
  ASSUME StaleInv, NEW id \in PRs, NEW r \in PullRecords, Update(id, r), r.age = pr[id].age,
         r.open \/ r.age >= Enough \/ id \notin config.undated, r.label => pr[id].label, UNCHANGED <<since, promised>>
  PROVE  /\ pr' \in [PRs -> PullRecords] /\ Counted(config, pr', since', promised')
         /\ Aged(config, pr', promised') /\ AgesStand(config, pr, pr')
<1>1. /\ since \in [PRs -> Nat] /\ promised \in [PRs -> Nat] /\ Counted(config, pr, since, promised)
      /\ promised[id] <= config.close
  BY DEF StaleInv, StaleTyped, Aged
<1>2. r.label => Warned(config, id, r.age, since'[id], promised'[id])
  BY <1>1 DEF Counted
<1> QED
  BY <1>1, <1>2, UpdateCounts

LEMMA StepKeeps ==
  ASSUME StaleInv, NEW k \in Checks, Steps(k)
  PROVE  StaleInv'
<1> DEFINE c == check[k]   Sound(d) == SoundCheck(config, d, pr, since, promised)
<1>1. /\ StaleTyped /\ c \in CheckRecords /\ Sound(c) /\ config \in Configs
      /\ pr \in [PRs -> PullRecords] /\ since \in [PRs -> Nat] /\ promised \in [PRs -> Nat]
      /\ Counted(config, pr, since, promised) /\ Aged(config, pr, promised)
  BY DEF StaleInv, StaleTyped
<1>2. /\ c.at \in {"idle", "list", "mark", "comment", "close"} /\ c.left \subseteq Platforms /\ c.seen \subseteq Entries
      /\ c.id \in PRs \cup {<<0, 0>>} /\ c.over \in BOOLEAN /\ c.age \in Nat
  BY <1>1 DEF CheckRecords
<1>3. /\ Back(k) \in CheckRecords /\ Back(k).at = "list" /\ Back(k).over = c.over /\ Back(k).seen = c.seen
  <2> DEFINE b == [c EXCEPT !.at = "list", !.id = <<0, 0>>, !.age = 0]
  <2>1. b \in CheckRecords /\ b.at = "list" /\ b.over = c.over /\ b.seen = c.seen
    BY <1>1 DEF CheckRecords
  <2>2. Back(k) = b
    BY DEF Back, Idle
  <2> HIDE DEF b
  <2> QED
    BY <2>1, <2>2
<1>4. \A s \in c.seen : s \in Entries /\ s.id \in PRs /\ s.age \in Nat /\ s.label \in BOOLEAN
  BY <1>2 DEF Entries
<1>5. c.at \in {"mark", "comment", "close"} => c.id \in PRs /\ \A s \in c.seen : s.id # c.id
  BY <1>1 DEF SoundCheck
<1>6. ASSUME NEW d \in CheckRecords, Pass(k, d), c.at # "idle", d.at = "idle" \/ d.over = c.over,
             UNCHANGED <<config, pr, since, promised>>, Sound(d)
      PROVE  StaleInv'
  <2>1. AgesStand(config, pr, pr')
    BY <1>6 DEF AgesStand
  <2> QED
    BY <1>1, <1>6, <2>1, CheckKeeps DEF Pass
\* What is back at the list is sound if what is still to be seen to has kept what the check knows of it.
<1>7. ASSUME c.at \in {"mark", "comment", "close"}, Pass(k, Back(k)), UNCHANGED <<config, since, promised>>,
             pr' \in [PRs -> PullRecords], Counted(config, pr', since', promised'), Aged(config, pr', promised'),
             AgesStand(config, pr, pr')
      PROVE  StaleInv'
  <2>1. SoundCheck(config, Back(k), pr', since', promised')
    BY <1>1, <1>3, <1>4, <1>7 DEF SoundCheck, AgesStand
  <2> QED
    BY <1>1, <1>3, <1>7, <2>1, CheckKeeps DEF Pass
<1>8. CASE CheckRepoGroup(k)
  <2>1. c.at = "list" /\ c.seen = {} /\ UNCHANGED <<config, pr, since, promised>>
    BY <1>8 DEF CheckRepoGroup
  <2>2. CASE Pass(k, Idle)
    BY <1>6, <2>1, <2>2, IdleSound
  <2>3. ASSUME NEW p \in Platforms, Pass(k, [c EXCEPT !.left = c.left \ {p}, !.seen = Listed(p)]) PROVE StaleInv'
    <3> DEFINE rest == c.left \ {p}   d == [c EXCEPT !.left = rest, !.seen = Listed(p)]
    <3>1. Listed(p) \subseteq Entries
      <4> SUFFICES ASSUME NEW n \in Numbers, pr[<<p, n>>].open
                   PROVE  [id |-> <<p, n>>, label |-> p \in Shown /\ pr[<<p, n>>].label,
                           spared |-> pr[<<p, n>>].spared, age |-> pr[<<p, n>>].age] \in Entries
        BY DEF Listed
      <4>1. <<p, n>> \in PRs
        BY DEF PRs
      <4>2. pr[<<p, n>>] \in PullRecords
        BY <1>1, <4>1
      <4>3. pr[<<p, n>>].spared \in BOOLEAN /\ pr[<<p, n>>].label \in BOOLEAN /\ pr[<<p, n>>].age \in Nat
        BY <4>2 DEF PullRecords
      <4> QED
        BY <4>1, <4>3 DEF Entries
    <3>2. \A s \in Listed(p) : s.id \in PRs /\ s.age = pr[s.id].age /\ (s.label => pr[s.id].label)
      <4> SUFFICES ASSUME NEW n \in Numbers, NEW s,
                          s = [id |-> <<p, n>>, label |-> p \in Shown /\ pr[<<p, n>>].label,
                               spared |-> pr[<<p, n>>].spared, age |-> pr[<<p, n>>].age]
                   PROVE  s.id \in PRs /\ s.age = pr[s.id].age /\ (s.label => pr[s.id].label)
        BY DEF Listed
      <4>1. s.id = <<p, n>> /\ s.age = pr[<<p, n>>].age /\ s.label = (p \in Shown /\ pr[<<p, n>>].label)
        OBVIOUS
      <4> QED
        BY <4>1 DEF PRs
    <3>3. \A s, u \in Listed(p) : s.id = u.id => s = u
      <4> SUFFICES ASSUME NEW s \in Listed(p), NEW u \in Listed(p), s.id = u.id PROVE s = u
        OBVIOUS
      <4> DEFINE E(n) == [id |-> <<p, n>>, label |-> p \in Shown /\ pr[<<p, n>>].label,
                          spared |-> pr[<<p, n>>].spared, age |-> pr[<<p, n>>].age]
      <4>1. PICK n \in Numbers : s = E(n)
        BY DEF Listed
      <4>2. PICK m \in Numbers : u = E(m)
        BY DEF Listed
      <4>3. n = m
        <5>1. s.id = <<p, n>> /\ u.id = <<p, m>>
          BY <4>1, <4>2
        <5>2. <<p, n>> = <<p, m>>
          BY <5>1
        <5>3. <<p, n>>[2] = n /\ <<p, m>>[2] = m
          OBVIOUS
        <5> QED
          BY <5>2, <5>3
      <4> QED
        BY <4>1, <4>2, <4>3
    <3>4. \A s \in Listed(p) : s.label => Warned(config, s.id, s.age, since[s.id], promised[s.id])
      BY <1>1, <3>2 DEF Counted
    <3>5. d \in CheckRecords /\ d.at = "list" /\ d.over = c.over /\ d.seen = Listed(p)
      BY <1>1, <1>2, <2>1, <3>1 DEF CheckRecords
    <3>6. Pass(k, d)
      BY <2>3
    <3> HIDE DEF d
    <3>7. Sound(d)
      BY <3>2, <3>3, <3>4, <3>5 DEF SoundCheck
    <3> QED
      BY <1>6, <2>1, <3>5, <3>6, <3>7
  <2>4. ASSUME NEW p \in Platforms, Pass(k, [c EXCEPT !.left = c.left \ {p}]) PROVE StaleInv'
    <3> DEFINE rest == c.left \ {p}   d == [c EXCEPT !.left = rest]
    <3>1. d \in CheckRecords /\ d.at = "list" /\ d.over = c.over /\ d.seen = {}
      BY <1>1, <1>2, <2>1 DEF CheckRecords
    <3>2. Pass(k, d)
      BY <2>4
    <3> HIDE DEF d
    <3>3. Sound(d)
      BY <3>1 DEF SoundCheck
    <3> QED
      BY <1>6, <2>1, <3>1, <3>2, <3>3
  <2> QED
    BY <1>8, <2>1, <2>2, <2>3, <2>4 DEF CheckRepoGroup
<1>9. CASE ProcessPR(k)
  <2>1. c.at = "list" /\ UNCHANGED <<config, pr, since, promised>>
    BY <1>9 DEF ProcessPR
  <2>2. PICK s \in c.seen : Pass(k, [c EXCEPT !.seen = c.seen \ {s}, !.at = IF ToClose(s) THEN "close" ELSE IF ToMark(s) THEN "mark" ELSE "list",
                                             !.id = IF ToClose(s) \/ ToMark(s) THEN s.id ELSE c.id,
                                             !.age = IF ToClose(s) \/ ToMark(s) THEN s.age ELSE c.age])
    BY <1>9 DEF ProcessPR
  <2>3. s \in Entries /\ s.id \in PRs /\ s.age \in Nat
    BY <1>4
  <2> DEFINE at == IF ToClose(s) THEN "close" ELSE IF ToMark(s) THEN "mark" ELSE "list"
             id == IF ToClose(s) \/ ToMark(s) THEN s.id ELSE c.id
             age == IF ToClose(s) \/ ToMark(s) THEN s.age ELSE c.age
             seen == c.seen \ {s}
             d == [c EXCEPT !.seen = seen, !.at = at, !.id = id, !.age = age]
  <2>4. /\ at \in {"close", "mark", "list"} /\ id \in PRs \cup {<<0, 0>>} /\ age \in Nat /\ seen \subseteq Entries
        /\ at # "list" => id = s.id /\ age = s.age
        /\ at = "close" => ToClose(s)
        /\ at = "mark" => ToMark(s)
    BY <1>2, <2>3
  <2>5. Pass(k, d)
    BY <2>2
  <2> HIDE DEF at, id, age
  <2>6. d \in CheckRecords /\ d.at = at /\ d.id = id /\ d.age = age /\ d.seen = seen /\ d.over = c.over
    BY <1>1, <2>4 DEF CheckRecords
  <2> HIDE DEF d
  <2>7. ASSUME at = "close", ~c.over
        PROVE  since[id] >= promised[id] /\ (id \in config.undated \/ since[id] >= config.close)
    <3>1. s.label /\ s.age >= Enough
      BY <2>4, <2>7 DEF ToClose
    <3>2. Warned(config, s.id, s.age, since[s.id], promised[s.id])
      BY <1>1, <2>3, <2>7, <3>1 DEF SoundCheck
    <3>3. since[s.id] \in Nat /\ promised[s.id] \in Nat /\ promised[s.id] <= config.close
      BY <1>1, <2>3 DEF Aged
    <3> QED
      BY <1>1, <2>3, <2>4, <2>7, <3>1, <3>2, <3>3, StaleSizes DEF Warned
  <2>8. \A u \in seen : u.id # s.id
    BY <1>1 DEF SoundCheck
  <2>9. at # "list" => age >= config.stale /\ (id \in config.undated => age = pr[id].age)
    <3>1. s.id \in config.undated => s.age = pr[s.id].age
      BY <1>1 DEF SoundCheck
    <3> QED
      BY <1>1, <2>3, <2>4, <3>1, StaleSizes DEF ToClose, ToMark
  <2>10. at = "close" => age >= config.stale + config.close
    BY <1>1, <2>4, StaleSizes DEF ToClose
  <2>11. Sound(d)
    BY <1>1, <2>3, <2>4, <2>6, <2>7, <2>8, <2>9, <2>10 DEF SoundCheck
  <2> QED
    BY <1>6, <2>1, <2>5, <2>6, <2>11
<1>10. CASE MarkStale(k)
  <2>1. CASE c.at = "mark"
    <3> DEFINE id == c.id   r == [pr[id] EXCEPT !.label = TRUE]   d == [c EXCEPT !.at = "comment"]
               days == IF pr[id].label THEN since[id] ELSE 0
               said == IF c.age < Enough THEN Enough - c.age ELSE 0
    <3>1. id \in PRs
      BY <1>5, <2>1
    <3>2. /\ Update(id, r) /\ Pass(k, d) /\ config' = config
          /\ since' = [since EXCEPT ![id] = days] /\ promised' = [promised EXCEPT ![id] = said]
      BY <1>10, <2>1 DEF MarkStale
    <3>3. r \in PullRecords /\ r.age = pr[id].age /\ r.open = pr[id].open /\ pr[id].age \in Nat
      BY <1>1, <3>1 DEF PullRecords
    <3>4. d \in CheckRecords /\ d.at = "comment" /\ d.over = c.over /\ d.seen = c.seen /\ d.id = id
      BY <1>1 DEF CheckRecords
    <3>5. c.age >= config.stale /\ (id \in config.undated => c.age = pr[id].age)
      BY <1>1, <2>1 DEF SoundCheck
    <3>6. days \in Nat /\ said \in Nat /\ said <= config.close
      BY <1>1, <1>2, <3>1, <3>5, StaleSizes
    <3>7. pr[id].age <= Enough /\ (id \in config.undated /\ ~pr[id].open => pr[id].age >= Enough)
      BY <1>1, <3>1, <3>3, StaleSizes DEF Aged
    <3>8. id \in config.undated => Warned(config, id, r.age, days, said)
      BY <1>1, <1>2, <3>3, <3>5, <3>6, <3>7, StaleSizes DEF Warned
    <3> HIDE DEF id, r, d, days, said
    <3>9. /\ since' \in [PRs -> Nat] /\ promised' \in [PRs -> Nat] /\ since'[id] = days /\ promised'[id] = said
          /\ \A i \in PRs : i # id => since'[i] = since[i] /\ promised'[i] = promised[i]
      BY <1>1, <3>1, <3>2, <3>6
    <3>10. /\ pr' \in [PRs -> PullRecords] /\ Counted(config, pr', since', promised')
           /\ Aged(config, pr', promised') /\ AgesStand(config, pr, pr')
      BY <3>1, <3>2, <3>3, <3>6, <3>7, <3>8, <3>9, UpdateCounts
    <3>11. SoundCheck(config, d, pr', since', promised')
      <4>1. \A s \in c.seen : s.id # id
        BY <1>5, <2>1 DEF id
      <4>2. ~c.over => \A s \in c.seen : s.label => Warned(config, s.id, s.age, since'[s.id], promised'[s.id])
        BY <1>1, <1>4, <3>9, <4>1 DEF SoundCheck
      <4>3. \A s, u \in c.seen : s.id = u.id => s = u
        BY <1>1 DEF SoundCheck
      <4>4. \A s \in c.seen : s.id \in config.undated => s.age = pr'[s.id].age
        BY <1>1, <1>4, <3>10 DEF SoundCheck, AgesStand
      <4> QED
        BY <3>1, <3>4, <4>1, <4>2, <4>3, <4>4 DEF SoundCheck
    <3>12. check' = [check EXCEPT ![k] = d]
      BY <3>2 DEF Pass
    <3> QED
      BY <2>1, <3>2, <3>4, <3>9, <3>10, <3>11, <3>12, CheckKeeps
  <2>2. CASE c.at = "comment"
    <3>1. c.id \in PRs
      BY <1>5, <2>2
    <3>2. Update(c.id, pr[c.id]) /\ Pass(k, Back(k)) /\ UNCHANGED <<config, since, promised>>
      BY <1>10, <2>2 DEF MarkStale
    <3>3. pr[c.id] \in PullRecords /\ pr[c.id].age \in Nat
      BY <1>1, <3>1 DEF PullRecords
    <3>4. pr[c.id].open \/ pr[c.id].age >= Enough \/ c.id \notin config.undated
      BY <1>1, <3>1, <3>3, StaleSizes DEF Aged
    <3> QED
      BY <1>7, <2>2, <3>1, <3>2, <3>3, <3>4, PlainUpdate
  <2> QED
    BY <1>10, <2>1, <2>2 DEF MarkStale
<1>11. CASE AutoClose(k)
  <2> DEFINE r == [pr[c.id] EXCEPT !.open = FALSE]
  <2>1. c.at = "close" /\ c.id \in PRs
    BY <1>5, <1>11 DEF AutoClose
  <2>2. Update(c.id, r) /\ Pass(k, Back(k)) /\ UNCHANGED <<config, since, promised>>
    BY <1>11 DEF AutoClose
  <2>3. r \in PullRecords /\ r.age = pr[c.id].age /\ r.label = pr[c.id].label
    BY <1>1, <2>1 DEF PullRecords
  <2>4. r.age >= Enough \/ c.id \notin config.undated
    <3>1. c.age >= Enough /\ (c.id \in config.undated => c.age = pr[c.id].age)
      BY <1>1, <2>1, StaleSizes DEF SoundCheck
    <3> QED
      BY <2>3, <3>1
  <2> HIDE DEF r
  <2> QED
    BY <1>7, <2>1, <2>2, <2>3, <2>4, PlainUpdate
<1>12. CASE CallFails(k)
  <2>1. c.at \in {"mark", "comment", "close"} /\ Pass(k, Back(k)) /\ UNCHANGED <<config, pr, since, promised>>
    BY <1>12 DEF CallFails
  <2>2. AgesStand(config, pr, pr')
    BY <2>1 DEF AgesStand
  <2> QED
    BY <1>1, <1>7, <2>1, <2>2
<1> QED
  BY <1>8, <1>9, <1>10, <1>11, <1>12 DEF Steps

LEMMA StaleInvStep == StaleInv /\ StaleNext => StaleInv'
<1> SUFFICES ASSUME StaleInv, StaleNext PROVE StaleInv'
  OBVIOUS
<1>1. /\ StaleTyped /\ pr \in [PRs -> PullRecords] /\ since \in [PRs -> Nat] /\ promised \in [PRs -> Nat]
      /\ Counted(config, pr, since, promised) /\ Aged(config, pr, promised)
  BY DEF StaleInv, StaleTyped
<1>2. \A id \in PRs : pr[id].open \in BOOLEAN /\ pr[id].label \in BOOLEAN /\ pr[id].spared \in BOOLEAN /\ pr[id].age \in Nat
                      /\ since[id] \in Nat /\ promised[id] \in Nat /\ pr[id].age <= Enough
                      /\ (pr[id].open \/ pr[id].age >= Enough \/ id \notin config.undated)
  BY <1>1, StaleSizes DEF PullRecords, Aged
<1>3. ASSUME NEW id \in PRs, NEW r \in PullRecords, Update(id, r), r.age = pr[id].age, pr[id].open => r.open,
             r.label => pr[id].label, UNCHANGED <<config, check, since, promised>>
      PROVE  StaleInv'
  <2>1. r.open \/ r.age >= Enough \/ id \notin config.undated
    BY <1>2, <1>3
  <2> QED
    BY <1>3, <2>1, PlainUpdate, OthersKeep
<1>4. ASSUME UNCHANGED <<config, check, since, promised, pr>> PROVE StaleInv'
  <2>1. AgesStand(config, pr, pr')
    BY <1>4 DEF AgesStand
  <2> QED
    BY <1>1, <1>4, <2>1, OthersKeep
<1>5. ASSUME NEW k \in Checks, CheckAllGroups(k) PROVE StaleInv'
  <2> DEFINE over == \E h \in Checks : check[h].at # "idle"
             new == [Idle EXCEPT !.at = "list", !.left = Platforms, !.over = over]
             informed(h) == [check[h] EXCEPT !.over = TRUE]
             after(h) == IF h = k THEN new ELSE IF check[h].at # "idle" THEN informed(h) ELSE check[h]
  <2>a. check[k] = Idle /\ UNCHANGED <<config, pr, since, promised>>
    BY <1>5 DEF CheckAllGroups
  <2>0. check[k].at = "idle" /\ UNCHANGED <<config, pr, since, promised>>
    BY <2>a DEF Idle
  <2>1. check' = [h \in Checks |-> after(h)]
    BY <1>5, Zenon DEF CheckAllGroups
  <2>2. new \in CheckRecords /\ new.at = "list" /\ new.seen = {} /\ new.over = over
    BY DEF Idle, CheckRecords
  <2>3. \A h \in Checks : check[h] \in CheckRecords /\ SoundCheck(config, check[h], pr, since, promised)
    BY DEF StaleInv, StaleTyped
  <2>4. \A h \in Checks : /\ informed(h) \in CheckRecords /\ informed(h).over /\ informed(h).at = check[h].at
                          /\ informed(h).seen = check[h].seen /\ informed(h).id = check[h].id
                          /\ informed(h).age = check[h].age
    BY <2>3 DEF CheckRecords
  <2> HIDE DEF new, informed
  <2>5. \A h \in Checks : check'[h] = after(h)
    BY <2>1
  <2>6. StaleTyped'
    BY <1>1, <2>0, <2>1, <2>2, <2>3, <2>4 DEF StaleTyped
  <2>7. AloneOrOver'
    <3> SUFFICES ASSUME NEW h \in Checks, NEW i \in Checks, h # i, check'[h].at # "idle", check'[i].at # "idle"
                 PROVE  check'[h].over
      BY DEF AloneOrOver
    <3>1. CASE h = k
      <4>1. check[i].at # "idle"
        BY <2>0, <2>4, <2>5, <3>1
      <4> QED
        BY <2>2, <2>5, <3>1, <4>1
    <3>2. CASE h # k
      <4>1. check[h].at # "idle"
        BY <2>5, <3>2
      <4> QED
        BY <2>4, <2>5, <3>2, <4>1
    <3> QED
      BY <3>1, <3>2
  <2>8. \A h \in Checks : SoundCheck(config, after(h), pr, since, promised)
    <3>1. SoundCheck(config, new, pr, since, promised)
      BY <2>2 DEF SoundCheck
    <3>2. \A h \in Checks : SoundCheck(config, informed(h), pr, since, promised)
      BY <2>3, <2>4 DEF SoundCheck
    <3> QED
      BY <2>3, <3>1, <3>2
  <2>9. \A h \in Checks : SoundCheck(config', check'[h], pr', since', promised')
    BY <2>0, <2>5, <2>8
  <2>10. Counted(config', pr', since', promised') /\ Aged(config', pr', promised')
    BY <1>1, <2>0
  <2> HIDE DEF after
  <2> QED
    BY <2>6, <2>7, <2>9, <2>10 DEF StaleInv
<1>6. ASSUME NEW k \in Checks, Steps(k) PROVE StaleInv'
  BY <1>6, StepKeeps
<1>7. ASSUME NEW id \in PRs, Touch(id) PROVE StaleInv'
  <2>1. PICK s \in BOOLEAN : Update(id, [pr[id] EXCEPT !.spared = s])
    BY <1>7 DEF Touch
  <2> DEFINE r == [pr[id] EXCEPT !.spared = s]
  <2>2. r \in PullRecords /\ r.age = pr[id].age /\ r.open = pr[id].open /\ r.label = pr[id].label
    BY <1>1 DEF PullRecords
  <2>3. Update(id, r)
    BY <2>1
  <2> HIDE DEF r
  <2> QED
    BY <1>3, <1>7, <2>2, <2>3 DEF Touch
<1>8. ASSUME NEW id \in PRs, HandleActivity(id) PROVE StaleInv'
  <2> DEFINE r == [pr[id] EXCEPT !.open = TRUE]
  <2>1. r \in PullRecords /\ r.age = pr[id].age /\ r.open = TRUE /\ r.label = pr[id].label
    BY <1>1 DEF PullRecords
  <2>2. Update(id, r)
    BY <1>8 DEF HandleActivity
  <2> HIDE DEF r
  <2> QED
    BY <1>3, <1>8, <2>1, <2>2 DEF HandleActivity
<1>9. ASSUME NEW id \in PRs, RemoveStaleLabel(id) PROVE StaleInv'
  <2>1. CASE pr' = pr
    BY <1>4, <1>9, <2>1 DEF RemoveStaleLabel
  <2>2. CASE Update(id, [pr[id] EXCEPT !.label = FALSE])
    <3> DEFINE r == [pr[id] EXCEPT !.label = FALSE]
    <3>1. r \in PullRecords /\ r.age = pr[id].age /\ r.open = pr[id].open /\ r.label = FALSE
      BY <1>1 DEF PullRecords
    <3>2. Update(id, r)
      BY <2>2
    <3> HIDE DEF r
    <3> QED
      BY <1>3, <1>9, <3>1, <3>2 DEF RemoveStaleLabel
  <2> QED
    BY <1>9, <2>1, <2>2 DEF RemoveStaleLabel
<1>10. ASSUME NEW n \in Numbers, HandleStaleUnmark(n) \/ Unstale(n) PROVE StaleInv'
  BY <1>4, <1>10 DEF HandleStaleUnmark, Unstale
<1>11. CASE Day
  <2> DEFINE older(id) == [pr[id] EXCEPT !.age = Older(pr[id].age)]
  <2>1. /\ pr' = [id \in PRs |-> IF pr[id].open \/ id \in config.undated THEN older(id) ELSE pr[id]]
        /\ UNCHANGED <<config, check, promised>> /\ \A k \in Checks : check[k] = Idle
        /\ since' = [id \in PRs |-> IF pr[id].open /\ pr[id].label THEN Older(since[id]) ELSE since[id]]
    BY <1>11 DEF Day
  <2>2. Enough \in Nat /\ Enough = config.stale + config.close /\ config.close \in Nat /\ config.stale \in Nat
    BY <1>1, StaleSizes
  <2>3. \A n \in Nat : Older(n) \in Nat /\ Older(n) = IF n < Enough THEN n + 1 ELSE n
    BY <2>2 DEF Older
  <2>4. \A id \in PRs : /\ older(id) \in PullRecords /\ older(id).age = Older(pr[id].age)
                        /\ older(id).label = pr[id].label /\ older(id).open = pr[id].open
    BY <1>1, <1>2, <2>3 DEF PullRecords
  <2> HIDE DEF older
  <2>5. pr' \in [PRs -> PullRecords] /\ since' \in [PRs -> Nat]
    BY <1>1, <1>2, <2>1, <2>3, <2>4
  <2>6. Aged(config, pr', promised')
    <3> SUFFICES ASSUME NEW id \in PRs
                 PROVE  /\ promised[id] <= config.close /\ pr'[id].age <= Enough
                        /\ id \in config.undated /\ ~pr'[id].open => pr'[id].age = Enough
      BY <2>1, <2>2 DEF Aged
    <3>1. promised[id] <= config.close
      BY <1>1 DEF Aged
    <3>2. CASE pr'[id] = older(id)
      BY <1>2, <2>2, <2>3, <2>4, <3>1, <3>2
    <3>3. CASE pr'[id] = pr[id]
      BY <1>2, <2>2, <3>1, <3>3
    <3> QED
      BY <2>1, <3>2, <3>3
  <2>7. ASSUME NEW id \in PRs, pr'[id].label PROVE Warned(config, id, pr'[id].age, since'[id], promised'[id])
    <3>1. pr[id].label
      BY <2>1, <2>4, <2>7
    <3>2. Warned(config, id, pr[id].age, since[id], promised[id]) /\ promised'[id] = promised[id]
          /\ promised[id] <= config.close
      BY <1>1, <2>1, <3>1 DEF Counted, Aged
    <3>3. CASE pr[id].open
      <4>1. pr'[id].age = Older(pr[id].age) /\ since'[id] = Older(since[id])
        BY <2>1, <2>4, <3>1, <3>3
      <4>2. CASE id \in config.undated
        <5>1. since[id] + Enough >= promised[id] + pr[id].age
          BY <2>2, <3>2, <4>2 DEF Warned
        <5>2. since'[id] + Enough >= promised[id] + pr'[id].age
          BY <1>2, <2>2, <2>3, <3>2, <4>1, <5>1
        <5> QED
          BY <2>2, <3>2, <4>2, <5>2 DEF Warned
      <4>3. CASE id \notin config.undated
        <5>1. since[id] >= pr[id].age
          BY <3>2, <4>3 DEF Warned
        <5>2. since'[id] >= pr'[id].age
          BY <1>2, <2>2, <2>3, <4>1, <5>1
        <5> QED
          BY <4>3, <5>2 DEF Warned
      <4> QED
        BY <4>2, <4>3
    <3>4. CASE ~pr[id].open /\ id \notin config.undated
      <4>1. pr'[id] = pr[id] /\ since'[id] = since[id]
        BY <2>1, <3>4
      <4> QED
        BY <3>2, <4>1
    <3>5. CASE ~pr[id].open /\ id \in config.undated
      <4>1. pr'[id].age = Older(pr[id].age) /\ since'[id] = since[id] /\ pr[id].age >= Enough
        BY <1>2, <2>1, <2>4, <3>5
      <4>2. pr'[id].age = pr[id].age
        BY <1>2, <2>2, <2>3, <4>1
      <4> QED
        BY <3>2, <4>1, <4>2
    <3> QED
      BY <3>3, <3>4, <3>5
  <2>8. \A k \in Checks : SoundCheck(config', check'[k], pr', since', promised')
    BY <2>1, IdleSound
  <2>9. StaleTyped' /\ AloneOrOver'
    BY <1>1, <2>1, <2>5, IdleSound DEF StaleTyped, AloneOrOver
  <2>10. Counted(config', pr', since', promised') /\ Aged(config', pr', promised')
    BY <2>1, <2>6, <2>7 DEF Counted
  <2> QED
    BY <2>8, <2>9, <2>10 DEF StaleInv
<1>12. CASE Crash
  <2>1. check' = [k \in Checks |-> Idle] /\ UNCHANGED <<config, pr, since, promised>>
    BY <1>12 DEF Crash
  <2>2. \A k \in Checks : SoundCheck(config', check'[k], pr', since', promised')
    BY <2>1, IdleSound
  <2>3. StaleTyped' /\ AloneOrOver'
    BY <1>1, <2>1, IdleSound DEF StaleTyped, AloneOrOver
  <2>4. Counted(config', pr', since', promised') /\ Aged(config', pr', promised')
    BY <1>1, <2>1
  <2> QED
    BY <2>2, <2>3, <2>4 DEF StaleInv
<1> QED
  BY <1>5, <1>6, <1>7, <1>8, <1>9, <1>10, <1>11, <1>12 DEF StaleNext

LEMMA StaleInvRest == StaleInv /\ UNCHANGED staleVars => StaleInv'
<1> SUFFICES ASSUME StaleInv, UNCHANGED staleVars PROVE StaleInv'
  OBVIOUS
<1>1. UNCHANGED <<config, pr, check, since, promised>>
  BY DEF staleVars
<1> QED
  BY <1>1 DEF StaleInv, StaleTyped, AloneOrOver

\* A check that is about to close a pull request, and has run alone, has seen to it that the warning stood long enough.
LEMMA ClosesWarned ==
  ASSUME StaleInv, NEW k \in Checks, check[k].at = "close", ~check[k].over
  PROVE  /\ since[check[k].id] >= promised[check[k].id]
         /\ check[k].id \in config.undated \/ since[check[k].id] >= config.close
BY DEF StaleInv, SoundCheck

-----------------------------------------------------------------------------
\* Labels

\* However the sort leaves rules of one priority, none goes before one of a higher priority.
Falling(s) == \A m, n \in DOMAIN s : m < n => s[m].priority >= s[n].priority

LEMMA OrdersFall ==
  ASSUME NEW b \in RuleBooks, NEW s \in Orders(b)
  PROVE  s \in Seq(Rules) /\ Falling(s)
<1> DEFINE rules == MergeRules(b)
<1>1. rules \in Seq(Rules)
  BY LabellingAssumption, ConcatProperties DEF MergeRules
<1>2. PICK place \in [DOMAIN rules -> DOMAIN rules] :
        /\ s = [n \in DOMAIN rules |-> rules[place[n]]]
        /\ \A m, n \in DOMAIN rules : m < n => rules[place[m]].priority >= rules[place[n]].priority
  BY DEF Orders
<1> HIDE DEF rules
<1>3. Len(rules) \in Nat /\ DOMAIN rules = 1..Len(rules) /\ \A i \in DOMAIN rules : rules[i] \in Rules
  BY <1>1, LenProperties, ElementOfSeq
<1>4. s \in [1..Len(rules) -> Rules]
  BY <1>2, <1>3
<1>5. s \in Seq(Rules)
  BY <1>3, <1>4, SeqDef
<1> QED
  BY <1>2, <1>3, <1>5 DEF Falling

TaskPlaces == {"idle", "make", "create", "read", "write", "done"}
TaskRecords == [at : TaskPlaces, todo : Seq(Rules), adds : BOOLEAN, seen : SUBSET Labels]

LabelTyped ==
  /\ forge \in Forges /\ order \in Seq(Rules) /\ Falling(order) /\ made \subseteq Labels /\ on \subseteq Labels
  /\ task \in [Tasks -> TaskRecords] /\ changed \in [Tasks -> SUBSET Labels]
  /\ want \subseteq Labels /\ back \subseteq Labels /\ put \subseteq Labels
  /\ hands \in Nat /\ breaks \in Nat /\ hurt \in BOOLEAN

\* A task on its way has a label to see to.  What a GitLab client has read differs from the labels as they are by
\* changes that are noted.
LabelStages ==
  \A j \in Tasks : /\ task[j].at \notin {"idle", "done"} => task[j].todo # <<>>
                   /\ task[j].at = "create" => forge = "gitea"
                   /\ task[j].at = "write" /\ forge = "gitlab" => Differ(on, task[j].seen) \subseteq changed[j]

\* The labels of the rules due: down to the first exclusive one.
DueOf(rules) == {rules[i].label : i \in {k \in DOMAIN rules : \A h \in 1..(k - 1) : ~rules[h].exclusive}}

\* Whatever the order of ties: a rule that outranks all exclusive ones is due, and one that an exclusive rule outranks
\* is not.
LEMMA PriorityDecides ==
  ASSUME NEW rules \in Seq(Rules), Falling(rules)
  PROVE  /\ \A i \in DOMAIN rules :
              (\A h \in DOMAIN rules : rules[h].exclusive => rules[h].priority < rules[i].priority) =>
                rules[i].label \in DueOf(rules)
         /\ \A l \in DueOf(rules) : \E i \in DOMAIN rules :
              /\ rules[i].label = l
              /\ \A h \in DOMAIN rules : rules[h].exclusive => rules[h].priority <= rules[i].priority
<1>1. DOMAIN rules = 1..Len(rules) /\ Len(rules) \in Nat /\ \A i \in DOMAIN rules : rules[i].priority \in Int
  <2>1. \A i \in DOMAIN rules : rules[i] \in Rules
    BY ElementOfSeq, LenProperties
  <2> QED
    BY <2>1, LenProperties DEF Rules
<1>2. ASSUME NEW i \in DOMAIN rules, \A h \in DOMAIN rules : rules[h].exclusive => rules[h].priority < rules[i].priority,
             NEW h \in 1..(i - 1)
      PROVE  ~rules[h].exclusive
  BY <1>1, <1>2 DEF Falling
<1>3. ASSUME NEW i \in DOMAIN rules, \A h \in 1..(i - 1) : ~rules[h].exclusive, NEW h \in DOMAIN rules, rules[h].exclusive
      PROVE  rules[h].priority <= rules[i].priority
  <2>1. h = i \/ i < h
    BY <1>1, <1>3
  <2> QED
    BY <1>1, <2>1 DEF Falling
<1> QED
  BY <1>2, <1>3 DEF DueOf

\* A run t has the last of the rules left, and those before, of which none was exclusive, are among the labels put on,
\* unless a call failed.
RunSound(rules, t, labels, failed) ==
  /\ t.at \notin {"idle", "done"} =>
       LET n == Len(rules) - Len(t.todo) IN
         /\ n \in Nat /\ \A i \in 1..Len(t.todo) : t.todo[i] = rules[n + i]
         /\ ~failed => \A h \in 1..n : ~rules[h].exclusive /\ rules[h].label \in labels
  /\ t.at = "done" /\ ~failed => DueOf(rules) \subseteq labels
RunsSound == /\ ~hurt => put \subseteq DueOf(order)
             /\ \A j \in Opened : RunSound(order, task[j], put, hurt)

LabelInv == LabelTyped /\ LabelStages /\ LabelsAddUp /\ RunsSound

LEMMA HeadLabel ==
  ASSUME LabelTyped, LabelStages, NEW j \in Tasks, task[j].at \notin {"idle", "done"}
  PROVE  /\ task[j] \in TaskRecords /\ task[j].todo \in Seq(Rules) /\ task[j].todo # <<>>
         /\ Head(task[j].todo) = task[j].todo[1] /\ Head(task[j].todo) \in Rules /\ Label(j) \in Labels
         /\ Tail(task[j].todo) \in Seq(Rules) /\ Len(task[j].todo) \in Nat \ {0}
         /\ Len(Tail(task[j].todo)) = Len(task[j].todo) - 1
         /\ \A i \in 1..Len(Tail(task[j].todo)) : Tail(task[j].todo)[i] = task[j].todo[i + 1]
         /\ Tail(task[j].todo) = <<>> <=> Len(task[j].todo) = 1
<1>1. task[j] \in TaskRecords
  BY DEF LabelTyped
<1>2. task[j].todo \in Seq(Rules) /\ task[j].todo # <<>>
  BY <1>1 DEF TaskRecords, LabelStages
<1>3. /\ Head(task[j].todo) = task[j].todo[1] /\ Head(task[j].todo) \in Rules
      /\ Tail(task[j].todo) \in Seq(Rules) /\ Len(task[j].todo) \in Nat \ {0}
      /\ Len(Tail(task[j].todo)) = Len(task[j].todo) - 1
      /\ \A i \in 1..Len(Tail(task[j].todo)) : Tail(task[j].todo)[i] = task[j].todo[i + 1]
  <2>1. Head(task[j].todo) \in Rules /\ Tail(task[j].todo) \in Seq(Rules) /\ Len(Tail(task[j].todo)) = Len(task[j].todo) - 1
        /\ \A i \in 1..Len(Tail(task[j].todo)) : Tail(task[j].todo)[i] = task[j].todo[i + 1]
    BY <1>2, HeadTailProperties
  <2>2. Len(task[j].todo) \in Nat \ {0}
    BY <1>2, EmptySeq, LenProperties
  <2>3. Head(task[j].todo) = task[j].todo[1]
    BY <1>2
  <2> QED
    BY <2>1, <2>2, <2>3
<1>4. Tail(task[j].todo) = <<>> <=> Len(task[j].todo) = 1
  <2>1. Len(Tail(task[j].todo)) \in Nat /\ (Tail(task[j].todo) = <<>> <=> Len(Tail(task[j].todo)) = 0)
    <3> DEFINE left == Tail(task[j].todo)
    <3>1. left \in Seq(Rules)
      BY <1>3
    <3> HIDE DEF left
    <3>2. Len(left) \in Nat /\ (left = <<>> <=> Len(left) = 0)
      BY <3>1, EmptySeq, LenProperties
    <3> QED
      BY <3>2 DEF left
  <2> QED
    BY <1>3, <2>1
<1> QED
  BY <1>1, <1>2, <1>3, <1>4 DEF Label, Rules

LEMMA AfterRuleIs ==
  ASSUME LabelTyped, LabelStages, NEW j \in Tasks, task[j].at \notin {"idle", "done"}, NEW d \in BOOLEAN
  PROVE  LET t == AfterRule(j, d) IN
           /\ t \in TaskRecords /\ t.adds = task[j].adds /\ t.seen = {}
           /\ t.todo = IF d /\ Head(task[j].todo).exclusive THEN <<>> ELSE Tail(task[j].todo)
           /\ t.at = IF t.todo = <<>> THEN "done" ELSE "make"
<1> DEFINE left == IF d /\ Head(task[j].todo).exclusive THEN <<>> ELSE Tail(task[j].todo)
           at == IF left = <<>> THEN "done" ELSE "make"
<1>1. left \in Seq(Rules)
  BY HeadLabel, EmptySeq
<1>2. at \in TaskPlaces
  BY DEF TaskPlaces
<1>3. AfterRule(j, d) = [task[j] EXCEPT !.at = at, !.todo = left, !.seen = {}]
  BY DEF AfterRule
<1>4. task[j] \in TaskRecords
  BY HeadLabel
<1> HIDE DEF left, at
<1>5. LET t == [task[j] EXCEPT !.at = at, !.todo = left, !.seen = {}] IN
        t \in TaskRecords /\ t.adds = task[j].adds /\ t.seen = {} /\ t.todo = left /\ t.at = at
  BY <1>1, <1>2, <1>4 DEF TaskRecords
<1> QED
  BY <1>3, <1>5 DEF left, at

LEMMA RunUnderWay ==
  ASSUME NEW rules \in Seq(Rules), NEW t \in TaskRecords, NEW labels \in SUBSET Labels, NEW failed \in BOOLEAN,
         NEW n \in Nat, Len(rules) - Len(t.todo) = n, t.at # "done",
         \A i \in 1..Len(t.todo) : t.todo[i] = rules[n + i],
         ~failed => \A h \in 1..n : ~rules[h].exclusive /\ rules[h].label \in labels
  PROVE  RunSound(rules, t, labels, failed)
BY DEF RunSound

LEMMA RunAdvances ==
  ASSUME NEW rules \in Seq(Rules), NEW t \in TaskRecords, t.at \notin {"idle", "done"}, t.todo # <<>>,
         NEW labels \in SUBSET Labels, NEW failed \in BOOLEAN, RunSound(rules, t, labels, failed),
         NEW d \in BOOLEAN, NEW u \in TaskRecords,
         u.todo = IF d /\ Head(t.todo).exclusive THEN <<>> ELSE Tail(t.todo),
         u.at = IF u.todo = <<>> THEN "done" ELSE "make"
  PROVE  /\ d => RunSound(rules, u, labels \cup {Head(t.todo).label}, failed)
         /\ ~d => RunSound(rules, u, labels, TRUE)
         /\ ~failed => Head(t.todo).label \in DueOf(rules)
<1> DEFINE todo == t.todo   n == Len(rules) - Len(todo)
<1>1. todo \in Seq(Rules)
  BY DEF TaskRecords
<1>2. Head(todo) \in Rules /\ Tail(todo) \in Seq(Rules) /\ Len(Tail(todo)) = Len(todo) - 1
      /\ \A i \in 1..Len(Tail(todo)) : Tail(todo)[i] = todo[i + 1]
  BY <1>1, HeadTailProperties
<1>3. Len(todo) \in Nat \ {0} /\ Head(todo) = todo[1]
  BY <1>1, EmptySeq, LenProperties
<1>4. Len(rules) \in Nat /\ DOMAIN rules = 1..Len(rules)
  BY LenProperties
<1>5. /\ n \in Nat /\ \A i \in 1..Len(todo) : todo[i] = rules[n + i]
      /\ ~failed => \A h \in 1..n : ~rules[h].exclusive /\ rules[h].label \in labels
  BY DEF RunSound
<1>6. Len(rules) = n + Len(todo)
  BY <1>3, <1>4
<1> HIDE DEF n, todo
<1>7. Head(todo) = rules[n + 1] /\ n + 1 \in 1..Len(rules)
  BY <1>3, <1>4, <1>5, <1>6
<1>8. ~failed => Head(todo).label \in DueOf(rules)
  <2> SUFFICES ASSUME ~failed PROVE Head(todo).label \in DueOf(rules)
    OBVIOUS
  <2>1. \A h \in 1..((n + 1) - 1) : ~rules[h].exclusive
    BY <1>5
  <2> QED
    BY <1>4, <1>7, <2>1 DEF DueOf
<1>9. ASSUME d PROVE RunSound(rules, u, labels \cup {Head(todo).label}, failed)
  <2> DEFINE more == labels \cup {Head(todo).label}
  <2>1. ~failed => \A h \in 1..(n + 1) : rules[h].label \in more
    BY <1>5, <1>7
  <2> HIDE DEF more
  <2>2. CASE rules[n + 1].exclusive
    <3>1. u.at = "done"
      BY <1>7, <1>9, <2>2 DEF todo
    <3>2. ASSUME ~failed PROVE DueOf(rules) \subseteq more
      <4> SUFFICES ASSUME NEW k \in 1..Len(rules), \A h \in 1..(k - 1) : ~rules[h].exclusive PROVE rules[k].label \in more
        BY <1>4 DEF DueOf
      <4>1. k <= n + 1
        BY <1>4, <1>5, <1>7, <2>2
      <4> QED
        BY <1>4, <1>5, <2>1, <3>2, <4>1
    <3> QED
      BY <3>1, <3>2 DEF RunSound, more
  <2>3. CASE ~rules[n + 1].exclusive
    <3>1. u.todo = Tail(todo)
      BY <1>7, <2>3 DEF todo
    <3>2. CASE u.todo = <<>>
      <4>1. Len(todo) = 1
        BY <1>2, <1>3, <3>1, <3>2, EmptySeq
      <4>2. Len(rules) = n + 1
        BY <1>4, <1>5, <1>6, <4>1
      <4>3. ~failed => DueOf(rules) \subseteq more
        BY <1>4, <2>1, <4>2 DEF DueOf
      <4> QED
        BY <3>2, <4>3 DEF RunSound, more
    <3>3. CASE u.todo # <<>>
      <4>1. Len(u.todo) = Len(todo) - 1 /\ \A i \in 1..Len(u.todo) : u.todo[i] = todo[i + 1]
        BY <1>2, <3>1
      <4> DEFINE m == Len(u.todo)
      <4>a. m = Len(todo) - 1
        BY <4>1
      <4> HIDE DEF m
      <4>b. Len(rules) - m = n + 1 /\ m \in Nat
        BY <1>3, <1>4, <1>5, <1>6, <4>a
      <4>c. \A i \in 1..m : i + 1 \in 1..Len(todo) /\ n + (i + 1) = (n + 1) + i
        BY <1>3, <1>5, <4>a, <4>b
      <4>2. Len(rules) - Len(u.todo) = n + 1
        BY <4>b DEF m
      <4>3. \A i \in 1..Len(u.todo) : u.todo[i] = rules[(n + 1) + i]
        BY <1>5, <4>1, <4>c DEF m
      <4>4. ~failed => \A h \in 1..(n + 1) : ~rules[h].exclusive /\ rules[h].label \in more
        BY <1>5, <2>1, <2>3
      <4>5. u.at = "make"
        BY <3>3
      <4>6. more \in SUBSET Labels
        BY <1>2 DEF more, Rules
      <4> DEFINE p == n + 1
      <4>p. p \in Nat
        BY <1>5
      <4> HIDE DEF p
      <4>7. Len(rules) - Len(u.todo) = p /\ (\A i \in 1..Len(u.todo) : u.todo[i] = rules[p + i])
            /\ (~failed => \A h \in 1..p : ~rules[h].exclusive /\ rules[h].label \in more)
        BY <4>2, <4>3, <4>4, Zenon DEF p
      <4>8. u.at # "done"
        BY <4>5
      <4>9. RunSound(rules, u, more, failed)
        BY <4>6, <4>p, <4>7, <4>8, RunUnderWay
      <4> QED
        BY <4>9 DEF more
    <3> QED
      BY <3>2, <3>3
  <2> QED
    BY <2>2, <2>3
<1>10. ASSUME ~d PROVE RunSound(rules, u, labels, TRUE)
  <2>1. u.todo = Tail(todo)
    BY <1>10 DEF todo
  <2>2. CASE u.todo = <<>>
    BY <2>2 DEF RunSound
  <2>3. CASE u.todo # <<>>
    <3>1. Len(u.todo) = Len(todo) - 1 /\ \A i \in 1..Len(u.todo) : u.todo[i] = todo[i + 1]
      BY <1>2, <2>1
    <3> DEFINE m == Len(u.todo)
    <3>a. m = Len(todo) - 1
      BY <3>1
    <3> HIDE DEF m
    <3>b. Len(rules) - m = n + 1 /\ m \in Nat
      BY <1>3, <1>4, <1>5, <1>6, <3>a
    <3>c. \A i \in 1..m : i + 1 \in 1..Len(todo) /\ n + (i + 1) = (n + 1) + i
      BY <1>3, <1>5, <3>a, <3>b
    <3>2. Len(rules) - Len(u.todo) = n + 1
      BY <3>b DEF m
    <3>3. \A i \in 1..Len(u.todo) : u.todo[i] = rules[(n + 1) + i]
      BY <1>5, <3>1, <3>c DEF m
    <3> DEFINE p == n + 1
    <3>p. p \in Nat
      BY <1>5
    <3> HIDE DEF p
    <3>4. Len(rules) - Len(u.todo) = p /\ \A i \in 1..Len(u.todo) : u.todo[i] = rules[p + i]
      BY <3>2, <3>3, Zenon DEF p
    <3>5. u.at # "done"
      BY <2>3
    <3> QED
      BY <3>p, <3>4, <3>5, RunUnderWay
  <2> QED
    BY <2>2, <2>3
<1> QED
  BY <1>8, <1>9, <1>10 DEF todo

LEMMA TaskAdvances ==
  ASSUME LabelInv, NEW j \in Opened, task[j].at \notin {"idle", "done"}, NEW d \in BOOLEAN
  PROVE  /\ d => RunSound(order, AfterRule(j, d), put \cup {Label(j)}, hurt)
         /\ ~d => RunSound(order, AfterRule(j, d), put, TRUE)
         /\ ~hurt => Label(j) \in DueOf(order)
<1> DEFINE rules == order   t == task[j]   u == AfterRule(j, d)
<1>1. LabelTyped /\ LabelStages /\ j \in Tasks
  BY DEF LabelInv, Tasks
<1>2. rules \in Seq(Rules) /\ put \in SUBSET Labels /\ hurt \in BOOLEAN
  BY <1>1 DEF LabelTyped
<1>3. t \in TaskRecords /\ t.todo # <<>> /\ t.at \notin {"idle", "done"}
  BY <1>1, HeadLabel
<1>4. /\ u \in TaskRecords /\ u.todo = IF d /\ Head(t.todo).exclusive THEN <<>> ELSE Tail(t.todo)
      /\ u.at = IF u.todo = <<>> THEN "done" ELSE "make"
  BY <1>1, AfterRuleIs
<1>5. RunSound(rules, t, put, hurt)
  BY DEF LabelInv, RunsSound
<1> HIDE DEF rules, t, u
<1>6. /\ d => RunSound(rules, u, put \cup {Head(t.todo).label}, hurt)
      /\ ~d => RunSound(rules, u, put, TRUE)
      /\ ~hurt => Head(t.todo).label \in DueOf(rules)
  BY <1>2, <1>3, <1>4, <1>5, RunAdvances
<1> QED
  BY <1>6 DEF rules, t, u, Label

\* What the steps are made of: one label set, one refused, and a step on the way to one.
LEMMA SetKeeps ==
  ASSUME LabelInv, NEW j \in Tasks, task[j].at \notin {"idle", "done"}, NEW S \in SUBSET Labels, Set(j, S),
         forge = "gitlab" => task[j].at = "write",
         \A x \in Labels : x \in S <=> IF x = Label(j) THEN task[j].adds
                                       ELSE x \in IF forge = "gitlab" THEN task[j].seen ELSE on
  PROVE  LabelInv'
<1> USE DEF LabelInv
<1>1. /\ on' = S /\ changed' = Missed(Differ(on, S), Tasks \ {j})
      /\ want' = IF task[j].adds THEN want \cup {Label(j)} ELSE want \ {Label(j)}
      /\ back' = (IF forge = "gitlab" THEN back \cup changed[j] ELSE back) \ {Label(j)}
      /\ put' = IF j \in Opened THEN put \cup {Label(j)} ELSE put
      /\ task' = [task EXCEPT ![j] = AfterRule(j, TRUE)]
      /\ UNCHANGED <<forge, order, made, hands, breaks, hurt>>
  BY DEF Set
<1>2. Label(j) \in Labels /\ AfterRule(j, TRUE) \in TaskRecords /\ AfterRule(j, TRUE).at \in {"done", "make"}
  BY HeadLabel, AfterRuleIs
<1>3. \A k \in Tasks : task'[k] = IF k = j THEN AfterRule(j, TRUE) ELSE task[k]
  BY <1>1 DEF LabelTyped
<1>4. Differ(on, S) \subseteq Labels
  BY DEF Differ, LabelTyped
<1>5. LabelTyped'
  <2>1. changed' \in [Tasks -> SUBSET Labels]
    BY <1>1, <1>4 DEF Missed, LabelTyped
  <2>2. task' \in [Tasks -> TaskRecords]
    BY <1>1, <1>2 DEF LabelTyped
  <2>3. back' \subseteq Labels /\ want' \subseteq Labels /\ put' \subseteq Labels
    BY <1>1, <1>2 DEF LabelTyped
  <2> QED
    BY <1>1, <2>1, <2>2, <2>3 DEF LabelTyped
<1>6. LabelStages'
  <2> SUFFICES ASSUME NEW k \in Tasks
               PROVE  /\ task'[k].at \notin {"idle", "done"} => task'[k].todo # <<>>
                      /\ task'[k].at = "create" => forge = "gitea"
                      /\ task'[k].at = "write" /\ forge = "gitlab" => Differ(S, task'[k].seen) \subseteq changed'[k]
    BY <1>1 DEF LabelStages
  <2>1. CASE k = j
    BY <1>2, <1>3, <2>1, AfterRuleIs
  <2>2. CASE k # j
    <3>1. task'[k] = task[k]
      BY <1>3, <2>2
    <3>2. ASSUME task[k].at = "write", forge = "gitlab" PROVE Differ(S, task[k].seen) \subseteq changed'[k]
      <4>1. changed'[k] = changed[k] \cup Differ(on, S)
        BY <1>1, <2>2, <3>2 DEF Missed
      <4>2. Differ(on, task[k].seen) \subseteq changed[k]
        BY <3>2 DEF LabelStages
      <4> QED
        BY <4>1, <4>2 DEF Differ
    <3> QED
      BY <3>1, <3>2 DEF LabelStages
  <2> QED
    BY <2>1, <2>2
<1>7. LabelsAddUp'
  <2>1. CASE forge = "gitlab"
    <3>1. Differ(on, task[j].seen) \subseteq changed[j] /\ Differ(on, want) \subseteq back /\ on \subseteq Labels
          /\ task[j].seen \subseteq Labels /\ want \subseteq Labels
      BY <2>1, HeadLabel DEF LabelStages, LabelsAddUp, LabelTyped, TaskRecords
    <3>2. \A x \in Labels : x \in S /\ x \notin want' => x \in back'
      BY <1>1, <1>2, <2>1, <3>1 DEF Differ
    <3>3. \A x \in Labels : x \in want' /\ x \notin S => x \in back'
      BY <1>1, <1>2, <2>1, <3>1 DEF Differ
    <3> QED
      BY <1>1, <1>5, <3>2, <3>3 DEF LabelsAddUp, Differ, LabelTyped
  <2>2. CASE forge # "gitlab"
    <3>1. Differ(on, want) \subseteq back /\ on \subseteq Labels /\ want \subseteq Labels
      BY DEF LabelsAddUp, LabelTyped
    <3>2. \A x \in Labels : x \in S /\ x \notin want' => x \in back'
      BY <1>1, <1>2, <2>2, <3>1 DEF Differ
    <3>3. \A x \in Labels : x \in want' /\ x \notin S => x \in back'
      BY <1>1, <1>2, <2>2, <3>1 DEF Differ
    <3> QED
      BY <1>1, <1>5, <3>2, <3>3 DEF LabelsAddUp, Differ, LabelTyped
  <2> QED
    BY <2>1, <2>2
<1>8. RunsSound'
  <2> DEFINE rules == order
  <2>1. rules \in Seq(Rules)
    BY DEF LabelTyped
  <2>2. order' = order /\ hurt' = hurt /\ put \subseteq put' /\ hurt \in BOOLEAN
    BY <1>1 DEF LabelTyped
  <2> HIDE DEF rules
  <2>3. ASSUME j \in Opened PROVE (~hurt => Label(j) \in DueOf(rules)) /\ RunSound(rules, AfterRule(j, TRUE), put', hurt)
    <3>1. put' = put \cup {Label(j)}
      BY <1>1, <2>3
    <3>2. /\ RunSound(order, AfterRule(j, TRUE), put \cup {Label(j)}, hurt)
          /\ ~hurt => Label(j) \in DueOf(order)
      BY <2>3, TaskAdvances
    <3> QED
      BY <3>1, <3>2 DEF rules
  <2>4. ~hurt => put' \subseteq DueOf(rules)
    BY <1>1, <2>3 DEF RunsSound, rules
  <2>5. ASSUME NEW k \in Opened PROVE RunSound(rules, task'[k], put', hurt)
    <3>1. CASE k = j
      BY <1>3, <2>3, <3>1
    <3>2. CASE k # j
      <4>1. task'[k] = task[k]
        BY <1>3, <3>2 DEF Tasks
      <4>2. RunSound(rules, task[k], put, hurt)
        BY DEF RunsSound, rules
      <4> QED
        BY <2>2, <4>1, <4>2 DEF RunSound
    <3> QED
      BY <3>1, <3>2
  <2> QED
    BY <2>2, <2>4, <2>5 DEF RunsSound, rules
<1> QED
  BY <1>5, <1>6, <1>7, <1>8

LEMMA RefusedKeeps ==
  ASSUME LabelInv, NEW j \in Tasks, task[j].at \notin {"idle", "done"}, Refused(j), breaks' \in Nat
  PROVE  LabelInv'
<1> USE DEF LabelInv
<1>1. /\ task' = [task EXCEPT ![j] = AfterRule(j, FALSE)] /\ hurt' = (hurt \/ j \in Opened)
      /\ UNCHANGED <<forge, order, made, on, hands, want, back, changed, put>>
  BY DEF Refused
<1>2. AfterRule(j, FALSE) \in TaskRecords /\ AfterRule(j, FALSE).at \in {"done", "make"}
      /\ (AfterRule(j, FALSE).at = "make" => AfterRule(j, FALSE).todo # <<>>)
  BY HeadLabel, AfterRuleIs
<1>3. \A k \in Tasks : task'[k] = IF k = j THEN AfterRule(j, FALSE) ELSE task[k]
  BY <1>1 DEF LabelTyped
<1>4. LabelTyped'
  <2>1. task' \in [Tasks -> TaskRecords]
    BY <1>1, <1>2 DEF LabelTyped
  <2>2. hurt' \in BOOLEAN
    BY <1>1 DEF LabelTyped
  <2> QED
    BY <1>1, <2>1, <2>2 DEF LabelTyped
<1>5. LabelStages'
  <2> SUFFICES ASSUME NEW k \in Tasks
               PROVE  /\ task'[k].at \notin {"idle", "done"} => task'[k].todo # <<>>
                      /\ task'[k].at = "create" => forge = "gitea"
                      /\ task'[k].at = "write" /\ forge = "gitlab" => Differ(on, task'[k].seen) \subseteq changed[k]
    BY <1>1 DEF LabelStages
  <2> QED
    BY <1>2, <1>3 DEF LabelStages
<1>6. LabelsAddUp'
  BY <1>1 DEF LabelsAddUp
<1>7. RunsSound'
  <2> DEFINE rules == order
  <2>1. order' = order /\ put' = put /\ (hurt => hurt')
    BY <1>1
  <2> HIDE DEF rules
  <2>2. ~hurt' => put' \subseteq DueOf(rules)
    BY <2>1 DEF RunsSound, rules
  <2>3. ASSUME NEW k \in Opened PROVE RunSound(rules, task'[k], put', hurt')
    <3>1. CASE k = j
      <4>1. hurt' = TRUE /\ task'[k] = AfterRule(k, FALSE) /\ put' = put
        BY <1>1, <1>3, <3>1
      <4>2. RunSound(rules, AfterRule(k, FALSE), put, TRUE)
        BY <3>1, TaskAdvances DEF rules
      <4> QED
        BY <4>1, <4>2
    <3>2. CASE k # j
      <4>1. task'[k] = task[k]
        BY <1>3, <3>2 DEF Tasks
      <4>2. RunSound(rules, task[k], put, hurt)
        BY DEF RunsSound, rules
      <4> QED
        BY <2>1, <4>1, <4>2 DEF RunSound
    <3> QED
      BY <3>1, <3>2
  <2> QED
    BY <2>1, <2>2, <2>3 DEF RunsSound, rules
<1> QED
  BY <1>4, <1>5, <1>6, <1>7

LEMMA GoKeeps ==
  ASSUME LabelInv, NEW j \in Tasks, task[j].at \notin {"idle", "done"}, NEW r \in TaskRecords,
         r.at \in {"create", "read", "write"}, r.todo = task[j].todo, r.at = "create" => forge = "gitea",
         task' = [task EXCEPT ![j] = r], made' \subseteq Labels, Unmoved,
         changed' \in [Tasks -> SUBSET Labels], \A k \in Tasks : k # j => changed'[k] = changed[k],
         r.at = "write" /\ forge = "gitlab" => Differ(on, r.seen) \subseteq changed'[j]
  PROVE  LabelInv'
<1> USE DEF LabelInv
<1>1. UNCHANGED <<forge, order, on, hands, breaks, want, back, put, hurt>>
  BY DEF Unmoved
<1>2. \A k \in Tasks : task'[k] = IF k = j THEN r ELSE task[k]
  BY DEF LabelTyped
<1>3. LabelTyped'
  <2>1. task' \in [Tasks -> TaskRecords]
    BY DEF LabelTyped
  <2> QED
    BY <1>1, <2>1 DEF LabelTyped
<1>4. LabelStages'
  <2>1. r.todo # <<>>
    BY HeadLabel
  <2> SUFFICES ASSUME NEW k \in Tasks
               PROVE  /\ task'[k].at \notin {"idle", "done"} => task'[k].todo # <<>>
                      /\ task'[k].at = "create" => forge = "gitea"
                      /\ task'[k].at = "write" /\ forge = "gitlab" => Differ(on, task'[k].seen) \subseteq changed'[k]
    BY <1>1 DEF LabelStages
  <2> QED
    BY <1>2, <2>1 DEF LabelStages
<1>5. LabelsAddUp'
  BY <1>1 DEF LabelsAddUp
<1>6. RunsSound'
  <2> DEFINE rules == order
  <2>1. order' = order /\ put' = put /\ hurt' = hurt
    BY <1>1
  <2> HIDE DEF rules
  <2>2. ~hurt' => put' \subseteq DueOf(rules)
    BY <2>1 DEF RunsSound, rules
  <2>3. ASSUME NEW k \in Opened PROVE RunSound(rules, task'[k], put', hurt')
    <3>1. RunSound(rules, task[k], put, hurt) /\ k \in Tasks
      BY DEF RunsSound, rules, Tasks
    <3>2. CASE k = j
      <4>1. task'[k] = r /\ RunSound(rules, task[j], put, hurt)
        BY <1>2, <3>1, <3>2
      <4>2. RunSound(rules, r, put, hurt)
        BY <4>1 DEF RunSound
      <4> QED
        BY <2>1, <4>1, <4>2
    <3>3. CASE k # j
      BY <1>2, <2>1, <3>1, <3>3
    <3> QED
      BY <3>2, <3>3
  <2> QED
    BY <2>1, <2>2, <2>3 DEF RunsSound, rules
<1> QED
  BY <1>3, <1>4, <1>5, <1>6

LEMMA GoesKeeps ==
  ASSUME LabelInv, NEW j \in Tasks, task[j].at \notin {"idle", "done"}, NEW a \in {"create", "read", "write"},
         a = "create" => forge = "gitea", a = "write" => forge # "gitlab",
         Goes(j, a), made' \subseteq Labels, changed' = changed, Unmoved
  PROVE  LabelInv'
<1> DEFINE r == [task[j] EXCEPT !.at = a]
<1>1. task[j] \in TaskRecords
  BY DEF LabelInv, LabelTyped
<1>2. r \in TaskRecords /\ r.at = a /\ r.todo = task[j].todo
  BY <1>1 DEF TaskRecords, TaskPlaces
<1>3. task' = [task EXCEPT ![j] = r]
  BY DEF Goes
<1>4. changed' \in [Tasks -> SUBSET Labels]
  BY DEF LabelInv, LabelTyped
<1> HIDE DEF r
<1> QED
  BY <1>2, <1>3, <1>4, GoKeeps

\* A task that starts: a run has all rules, a command its label.
LEMMA StartKeeps ==
  ASSUME LabelInv, NEW j \in Tasks, task[j].at = "idle", NEW r \in TaskRecords, r.at \in {"make", "done"},
         r.at = "make" => r.todo # <<>>, j \in Opened => r.todo = order /\ (r.at = "done" => r.todo = <<>>),
         task' = [task EXCEPT ![j] = r], made' = made, changed' = changed, Unmoved
  PROVE  LabelInv'
<1> USE DEF LabelInv
<1>1. UNCHANGED <<forge, order, on, hands, breaks, want, back, put, hurt>>
  BY DEF Unmoved
<1>2. \A k \in Tasks : task'[k] = IF k = j THEN r ELSE task[k]
  BY DEF LabelTyped
<1>3. LabelTyped'
  <2>1. task' \in [Tasks -> TaskRecords]
    BY DEF LabelTyped
  <2> QED
    BY <1>1, <2>1 DEF LabelTyped
<1>4. LabelStages'
  <2> SUFFICES ASSUME NEW k \in Tasks
               PROVE  /\ task'[k].at \notin {"idle", "done"} => task'[k].todo # <<>>
                      /\ task'[k].at = "create" => forge = "gitea"
                      /\ task'[k].at = "write" /\ forge = "gitlab" => Differ(on, task'[k].seen) \subseteq changed'[k]
    BY <1>1 DEF LabelStages
  <2> QED
    BY <1>2 DEF LabelStages
<1>5. LabelsAddUp'
  BY <1>1 DEF LabelsAddUp
<1>6. RunsSound'
  <2> DEFINE rules == order
  <2>1. order' = order /\ put' = put /\ hurt' = hurt /\ put \in SUBSET Labels /\ hurt \in BOOLEAN
    BY <1>1 DEF LabelTyped
  <2>2. rules \in Seq(Rules)
    BY DEF LabelTyped
  <2>3. ASSUME j \in Opened PROVE r.todo = rules /\ (r.at = "done" => rules = <<>>)
    BY <2>3
  <2> HIDE DEF rules
  <2>4. ~hurt' => put' \subseteq DueOf(rules)
    BY <2>1 DEF RunsSound, rules
  <2>5. ASSUME NEW k \in Opened PROVE RunSound(rules, task'[k], put', hurt')
    <3>1. RunSound(rules, task[k], put, hurt) /\ k \in Tasks
      BY DEF RunsSound, rules, Tasks
    <3>2. CASE k = j
      <4>1. task'[k] = r /\ r.todo = rules /\ (r.at = "done" => rules = <<>>)
        BY <1>2, <2>3, <3>1, <3>2
      <4>2. CASE r.at = "done"
        <5>1. DueOf(rules) = {}
          BY <4>1, <4>2 DEF DueOf
        <5> QED
          BY <2>1, <4>1, <4>2, <5>1 DEF RunSound
      <4>3. CASE r.at = "make"
        <5>1. Len(rules) \in Nat
          BY <2>2, LenProperties
        <5>2. Len(rules) - Len(r.todo) = 0 /\ (\A i \in 1..Len(r.todo) : r.todo[i] = rules[0 + i])
          BY <4>1, <5>1
        <5>3. (~hurt => \A h \in 1..0 : ~rules[h].exclusive /\ rules[h].label \in put) /\ r.at # "done"
          BY <4>3
        <5> DEFINE p == 0
        <5>p. p \in Nat
          OBVIOUS
        <5> HIDE DEF p
        <5>4. Len(rules) - Len(r.todo) = p /\ (\A i \in 1..Len(r.todo) : r.todo[i] = rules[p + i])
              /\ (~hurt => \A h \in 1..p : ~rules[h].exclusive /\ rules[h].label \in put)
          BY <5>2, <5>3, Zenon DEF p
        <5>5. RunSound(rules, r, put, hurt)
          BY <2>1, <2>2, <5>p, <5>3, <5>4, RunUnderWay
        <5> QED
          BY <2>1, <4>1, <5>5
      <4> QED
        BY <4>2, <4>3
    <3>3. CASE k # j
      BY <1>2, <2>1, <3>1, <3>3
    <3> QED
      BY <3>2, <3>3
  <2> QED
    BY <2>1, <2>4, <2>5 DEF RunsSound, rules
<1> QED
  BY <1>3, <1>4, <1>5, <1>6

LEMMA LabelInvInit == LabelInit => LabelInv
<1> SUFFICES ASSUME LabelInit PROVE LabelInv
  OBVIOUS
<1> USE DEF LabelInit
<1>1. NoTask \in TaskRecords /\ NoTask.at = "idle"
  BY EmptySeq DEF NoTask, TaskRecords, TaskPlaces
<1>2. LabelTyped
  BY <1>1, OrdersFall, LabellingAssumption DEF LabelTyped
<1>3. LabelStages
  BY <1>1 DEF LabelStages
<1>4. LabelsAddUp
  BY DEF LabelsAddUp, Differ
<1>5. RunsSound
  BY <1>1 DEF RunsSound, RunSound, Tasks
<1> QED
  BY <1>2, <1>3, <1>4, <1>5 DEF LabelInv

LEMMA LabelInvStep == LabelInv /\ LabelNext => LabelInv'
<1> SUFFICES ASSUME LabelInv, LabelNext PROVE LabelInv'
  OBVIOUS
<1>0. LabelTyped /\ LabelStages /\ made \subseteq Labels /\ on \subseteq Labels /\ breaks \in Nat
      /\ \A j \in Tasks : task[j] \in TaskRecords /\ task[j].at \in TaskPlaces /\ task[j].seen \subseteq Labels
                          /\ task[j].adds \in BOOLEAN /\ task[j].todo \in Seq(Rules)
  BY DEF LabelInv, LabelTyped, TaskRecords
<1>1. CASE Relabel
  <2> USE DEF LabelInv
  <2>1. PICK l \in made :
          /\ hands > 0 /\ hands' = hands - 1
          /\ on' = (IF l \in on THEN on \ {l} ELSE on \cup {l}) /\ changed' = Missed({l}, Tasks)
          /\ want' = (IF l \in on THEN want \ {l} ELSE want \cup {l}) /\ back' = back \ {l}
          /\ UNCHANGED <<forge, order, made, task, breaks, put, hurt>>
    BY <1>1 DEF Relabel
  <2>2. LabelTyped'
    <3>1. changed' \in [Tasks -> SUBSET Labels]
      BY <1>0, <2>1 DEF Missed, LabelTyped
    <3>2. hands' \in Nat
      BY <2>1 DEF LabelTyped
    <3> QED
      BY <1>0, <2>1, <3>1, <3>2 DEF LabelTyped
  <2>3. LabelStages'
    <3> SUFFICES ASSUME NEW k \in Tasks, task[k].at = "write", forge = "gitlab"
                 PROVE  Differ(on', task[k].seen) \subseteq changed'[k]
      BY <2>1 DEF LabelStages
    <3>1. changed'[k] = changed[k] \cup {l} /\ Differ(on, task[k].seen) \subseteq changed[k]
      BY <2>1 DEF Missed, LabelStages
    <3> QED
      BY <2>1, <3>1 DEF Differ
  <2>4. LabelsAddUp'
    BY <2>1 DEF LabelsAddUp, Differ
  <2>5. RunsSound'
    BY <2>1 DEF RunsSound
  <2> QED
    BY <2>2, <2>3, <2>4, <2>5
<1>2. ASSUME NEW j \in Tasks, LabelSteps(j) PROVE LabelInv'
  <2>1. CASE HandlePROpened(j)
    <3> DEFINE r == [task[j] EXCEPT !.at = IF order = <<>> THEN "done" ELSE "make", !.todo = order]
    <3>1. order \in Seq(Rules) /\ task[j].at = "idle"
      BY <1>0, <2>1 DEF HandlePROpened, NoTask, LabelTyped
    <3>2. task' = [task EXCEPT ![j] = r] /\ made' = made /\ changed' = changed /\ Unmoved /\ j \in Opened
      BY <2>1 DEF HandlePROpened
    <3>3. r \in TaskRecords /\ r.todo = order /\ r.at = IF order = <<>> THEN "done" ELSE "make"
      BY <1>0, <3>1 DEF TaskRecords, TaskPlaces
    <3> HIDE DEF r
    <3> QED
      BY <3>1, <3>2, <3>3, StartKeeps
  <2>2. CASE Command(j)
    <3>1. PICK l \in Labels, adds \in BOOLEAN :
            task' = [task EXCEPT ![j] = [NoTask EXCEPT !.at = "make", !.adds = adds,
                                           !.todo = <<[label |-> l, priority |-> 0, exclusive |-> FALSE]>>]]
      BY <2>2 DEF Command
    <3> DEFINE one == [label |-> l, priority |-> 0, exclusive |-> FALSE]   todo == <<one>>
               r == [NoTask EXCEPT !.at = "make", !.adds = adds, !.todo = todo]
    <3>2. j \notin Opened /\ task[j].at = "idle" /\ made' = made /\ changed' = changed /\ Unmoved
      BY <2>2, LabellingAssumption DEF Command, NoTask
    <3>3. one \in Rules
      BY DEF Rules
    <3> HIDE DEF one
    <3>4. todo \in Seq(Rules) /\ todo # <<>>
      BY <3>3
    <3> HIDE DEF todo
    <3>5. r \in TaskRecords /\ r.at = "make" /\ r.todo = todo
      BY <3>4 DEF NoTask, TaskRecords, TaskPlaces
    <3>6. task' = [task EXCEPT ![j] = r]
      BY <3>1 DEF r, todo, one
    <3> HIDE DEF r
    <3> QED
      BY <3>2, <3>4, <3>5, <3>6, StartKeeps
  <2>3. CASE CreateLabel(j)
    <3>1. task[j].at = "make" /\ forge # "gitea" /\ made' = made \cup {Label(j)} /\ changed' = changed /\ Unmoved
          /\ Goes(j, IF forge = "gitlab" THEN "read" ELSE "write")
      BY <2>3 DEF CreateLabel
    <3>2. made' \subseteq Labels
      BY <1>0, <3>1, HeadLabel
    <3> QED
      BY <3>1, <3>2, GoesKeeps
  <2>4. CASE ListRepoLabels(j)
    <3>1. task[j].at = "make" /\ forge = "gitea"
      BY <2>4 DEF ListRepoLabels
    <3>2. CASE Goes(j, "write") /\ UNCHANGED <<made, changed>> /\ Unmoved
      BY <1>0, <3>1, <3>2, GoesKeeps
    <3>3. CASE Goes(j, "create") /\ UNCHANGED <<made, changed>> /\ Unmoved
      BY <1>0, <3>1, <3>3, GoesKeeps
    <3>4. CASE Refused(j) /\ breaks' = breaks
      BY <1>0, <3>1, <3>4, RefusedKeeps
    <3> QED
      BY <2>4, <3>2, <3>3, <3>4 DEF ListRepoLabels
  <2>5. CASE CreateFound(j)
    <3>1. task[j].at = "create" /\ forge = "gitea"
      BY <1>0, <2>5 DEF CreateFound, LabelStages
    <3>2. CASE made' = made \cup {Label(j)} /\ Goes(j, "write") /\ changed' = changed /\ Unmoved
      <4>1. made' \subseteq Labels
        BY <1>0, <3>1, <3>2, HeadLabel
      <4> QED
        BY <3>1, <3>2, <4>1, GoesKeeps
    <3>3. CASE Refused(j) /\ breaks' = breaks
      BY <1>0, <3>1, <3>3, RefusedKeeps
    <3> QED
      BY <2>5, <3>2, <3>3 DEF CreateFound
  <2>6. CASE GetMergeRequest(j)
    <3> DEFINE r == [task[j] EXCEPT !.at = "write", !.seen = on]
    <3>1. task' = [task EXCEPT ![j] = r] /\ changed' = [changed EXCEPT ![j] = {}] /\ made' = made /\ Unmoved
          /\ task[j].at \notin {"idle", "done"}
      BY <2>6 DEF GetMergeRequest
    <3>2. r \in TaskRecords /\ r.at = "write" /\ r.seen = on /\ r.todo = task[j].todo
      BY <1>0 DEF TaskRecords, TaskPlaces
    <3>3. changed' \in [Tasks -> SUBSET Labels] /\ \A k \in Tasks : k # j => changed'[k] = changed[k]
      BY <1>0, <3>1 DEF LabelTyped
    <3>4. Differ(on, r.seen) \subseteq changed'[j]
      BY <3>2 DEF Differ
    <3> HIDE DEF r
    <3> QED
      BY <1>0, <3>1, <3>2, <3>3, <3>4, GoKeeps
  <2>7. CASE UpdateMergeRequest(j)
    <3>1. forge = "gitlab" /\ task[j].at = "write" /\ Set(j, Written(j)) /\ Label(j) \in Labels
      BY <1>0, <2>7, HeadLabel DEF UpdateMergeRequest
    <3> DEFINE S == Written(j)
    <3>2. /\ S \in SUBSET Labels
          /\ \A x \in Labels : x \in S <=> IF x = Label(j) THEN task[j].adds
                                           ELSE x \in IF forge = "gitlab" THEN task[j].seen ELSE on
      BY <1>0, <3>1 DEF Written
    <3> HIDE DEF S
    <3>3. Set(j, S)
      BY <3>1 DEF S
    <3> QED
      BY <3>1, <3>2, <3>3, SetKeeps
  <2>8. CASE AddIssueLabel(j)
    <3> DEFINE S == on \cup {Label(j)}
    <3>1. forge # "gitlab" /\ task[j].at = "write" /\ task[j].adds /\ Set(j, S) /\ Label(j) \in Labels
      BY <1>0, <2>8, HeadLabel DEF AddIssueLabel
    <3>2. /\ S \in SUBSET Labels
          /\ \A x \in Labels : x \in S <=> IF x = Label(j) THEN task[j].adds
                                           ELSE x \in IF forge = "gitlab" THEN task[j].seen ELSE on
      BY <1>0, <3>1
    <3> HIDE DEF S
    <3> QED
      BY <3>1, <3>2, SetKeeps
  <2>9. CASE DeleteIssueLabel(j)
    <3> DEFINE S == on \ {Label(j)}
    <3>1. CASE Set(j, S) /\ forge # "gitlab" /\ task[j].at \in {"make", "write"} /\ ~task[j].adds
      <4>1. Label(j) \in Labels
        BY <1>0, <3>1, HeadLabel
      <4>2. /\ S \in SUBSET Labels
            /\ \A x \in Labels : x \in S <=> IF x = Label(j) THEN task[j].adds
                                             ELSE x \in IF forge = "gitlab" THEN task[j].seen ELSE on
        BY <1>0, <3>1, <4>1
      <4>3. Set(j, S) /\ forge # "gitlab" /\ task[j].at \notin {"idle", "done"}
        BY <3>1
      <4> HIDE DEF S
      <4> QED
        BY <4>2, <4>3, SetKeeps
    <3>2. CASE task[j].at = "make" /\ Refused(j) /\ breaks' = breaks
      BY <1>0, <3>2, RefusedKeeps
    <3> QED
      BY <2>9, <3>1, <3>2 DEF DeleteIssueLabel
  <2>10. CASE CallBreaks(j)
    <3>1. task[j].at \notin {"idle", "done"} /\ Refused(j) /\ breaks' \in Nat
      BY <1>0, <2>10 DEF CallBreaks
    <3> QED
      BY <3>1, RefusedKeeps
  <2> QED
    BY <1>2, <2>1, <2>2, <2>3, <2>4, <2>5, <2>6, <2>7, <2>8, <2>9, <2>10 DEF LabelSteps
<1> QED
  BY <1>1, <1>2 DEF LabelNext

LEMMA LabelInvRest == LabelInv /\ UNCHANGED labelVars => LabelInv'
<1> SUFFICES ASSUME LabelInv, UNCHANGED labelVars PROVE LabelInv'
  OBVIOUS
<1>1. UNCHANGED <<forge, order, made, on, task, hands, breaks, want, back, changed, put, hurt>>
  BY DEF labelVars
<1>2. LabelTyped' /\ LabelStages' /\ LabelsAddUp'
  BY <1>1 DEF LabelInv, LabelTyped, LabelStages, LabelsAddUp
<1>3. RunsSound'
  BY <1>1 DEF LabelInv, RunsSound
<1> QED
  BY <1>2, <1>3 DEF LabelInv

\* Once all rules due have put their labels on, a run that has ended has put on just those.
LEMMA LabelInvMeans == LabelInv => LabelsAddUp /\ RulesApplied
<1> SUFFICES ASSUME LabelInv PROVE LabelsAddUp /\ RulesApplied
  OBVIOUS
<1>1. ASSUME ~hurt, NEW j \in Opened, task[j].at = "done" PROVE DueOf(order) \subseteq put
  BY <1>1 DEF LabelInv, RunsSound, RunSound
<1>2. ~hurt => put \subseteq DueOf(order)
  BY DEF LabelInv, RunsSound
<1>3. RulesApplied
  BY <1>1, <1>2 DEF RulesApplied, DueOf
<1> QED
  BY <1>3 DEF LabelInv

-----------------------------------------------------------------------------
\* CI

Words(s) == (CASE s = "gerrit" -> {"passed", "failed"}
               [] s = "github" -> {"passed", "failed", "stopped"}
               [] OTHER        -> {"passed", "failed", "stopped", "odd"}) \cup {"running"}
Lists(s) == Seq(Words(s))
BuildTyped ==
  /\ server \in Servers /\ runs \in Seq(Lists(server)) /\ runs # <<>> /\ landed \in Nat /\ pushed \in BOOLEAN
  /\ judge \in [at : {"idle", "status", "merge", "done"}, sha : Nat, many : BOOLEAN, doubt : BOOLEAN]

NewestFirst == server \in {"gitlab", "bitbucket"} /\ judge.many

\* The commit asked about is the head, unless it was not that of the listing, or has been overtaken.  What is green while
\* the status is asked for is known to have passed; and so is what the answer allowed to be merged.
Judged ==
  /\ judge.at \in {"status", "merge"} => judge.sha \in DOMAIN runs /\ (pushed \/ NewestFirst \/ judge.sha = Len(runs))
  /\ judge.at = "status" => Greens \subseteq passed
  /\ judge.at = "merge" => judge.doubt \/ pushed \/ NewestFirst \/ judge.sha \in passed
  /\ landed # 0 => judge.at = "done"

BuildInv == BuildTyped /\ Judged /\ LandedPassed

LEMMA WordsIn ==
  ASSUME NEW s, NEW list \in Lists(s)
  PROVE  /\ Len(list) \in Nat /\ DOMAIN list = 1..Len(list) /\ (list # <<>> => Len(list) \in DOMAIN list)
         /\ \A i \in DOMAIN list : list[i] \in Words(s) /\ list[i] \in Range(list)
         /\ Range(list) \subseteq Words(s) /\ (Range(list) = {} <=> list = <<>>)
<1>1. list \in Seq(Words(s))
  BY DEF Lists
<1>2. Len(list) \in Nat /\ DOMAIN list = 1..Len(list) /\ (list = <<>> <=> Len(list) = 0)
  BY <1>1, LenProperties, EmptySeq
<1>3. \A i \in DOMAIN list : list[i] \in Words(s)
  BY <1>1, <1>2, ElementOfSeq
<1>4. list # <<>> => Len(list) \in DOMAIN list
  BY <1>2
<1>5. \A i \in DOMAIN list : list[i] \in Range(list)
  BY DEF Range
<1>6. Range(list) \subseteq Words(s)
  BY <1>3 DEF Range
<1>7. Range(list) = {} <=> list = <<>>
  <2>1. ASSUME list = <<>> PROVE Range(list) = {}
    <3>1. DOMAIN list = {}
      BY <1>2, <2>1
    <3> QED
      BY <3>1 DEF Range
  <2>2. list # <<>> => Range(list) # {}
    BY <1>4, <1>5
  <2> QED
    BY <2>1, <2>2
<1> QED
  BY <1>2, <1>3, <1>4, <1>5, <1>6, <1>7

\* A success not in doubt is that of a commit that passes; Gerrit's client judges the head whichever commit is named.
LEMMA SuccessIsGreen ==
  ASSUME BuildTyped, NEW c \in DOMAIN runs, server = "gerrit" => c = Len(runs), Status(c) = "success", ~Doubt(c)
  PROVE  Green(server, runs[c])
<1> DEFINE list == runs[c]
<1>1. list \in Lists(server)
  BY ElementOfSeq, LenProperties DEF BuildTyped
<1>2. server \in {"github", "gitlab", "gitea", "bitbucket", "gerrit"}
  BY BuildsAssumption DEF BuildTyped
<1> HIDE DEF list
<1>3. /\ Len(list) \in Nat /\ DOMAIN list = 1..Len(list) /\ (list # <<>> => Len(list) \in DOMAIN list)
      /\ \A i \in DOMAIN list : list[i] \in Words(server) /\ list[i] \in Range(list)
      /\ Range(list) \subseteq Words(server) /\ (Range(list) = {} <=> list = <<>>)
  BY <1>1, WordsIn
<1>4. CASE server \in {"github", "gitea"}
  <2>1. Combined(list) = "success"
    BY <1>4 DEF Status, list
  <2>2. Range(list) \cap {"failed", "stopped"} = {}
    BY <2>1 DEF Combined
  <2>3. ~(server = "gitea" /\ "odd" \in Range(list)) /\ list # <<>> /\ "running" \notin Range(list)
    BY <2>1, <2>2 DEF Combined
  <2>4. Range(list) = {"passed"}
    BY <1>3, <1>4, <2>2, <2>3 DEF Words
  <2> QED
    BY <1>4, <2>3, <2>4 DEF Green, list
<1>5. CASE server = "gitlab"
  <2>1. NewestPipeline(list) = "success"
    BY <1>5 DEF Status, list
  <2>2. list # <<>> /\ list[Len(list)] = "passed"
    BY <2>1 DEF NewestPipeline
  <2> QED
    BY <1>5, <2>2 DEF Green, list
<1>6. CASE server = "bitbucket"
  <2>1. KnownPipeline(list) = "success" /\ Range(list) \cap {"stopped", "odd"} = {}
    BY <1>6 DEF Status, Doubt, list
  <2> DEFINE known == {i \in DOMAIN list : list[i] # "odd"}
             last == CHOOSE k \in known : \A h \in known : h <= k
  <2>2. known = DOMAIN list
    BY <1>3, <2>1
  <2>3. known # {} /\ list[last] # "running" /\ list[last] # "failed"
    BY <2>1 DEF KnownPipeline
  <2> HIDE DEF known, last
  <2>4. list # <<>> /\ Len(list) \in known /\ \A h \in known : h <= Len(list)
    <3>1. Len(list) # 0
      BY <1>3, <2>2, <2>3
    <3> QED
      BY <1>3, <2>2, <3>1
  <2>5. last \in known /\ \A h \in known : h <= last
    BY <2>4 DEF last
  <2>6. last = Len(list)
    BY <1>3, <2>2, <2>4, <2>5
  <2>7. list[Len(list)] = "passed"
    BY <1>3, <1>6, <2>1, <2>3, <2>4, <2>6 DEF Words
  <2> QED
    BY <1>6, <2>4, <2>7 DEF Green, list
<1>7. CASE server = "gerrit"
  <2>1. Range(list) = {"passed"}
    BY <1>7 DEF Doubt, list
  <2>2. list # <<>>
    BY <1>3, <2>1
  <2> QED
    BY <1>7, <2>1, <2>2 DEF Green, list
<1> QED
  BY <1>2, <1>4, <1>5, <1>6, <1>7

LEMMA LastListed ==
  ASSUME BuildTyped
  PROVE  /\ Len(runs) \in Nat \ {0} /\ DOMAIN runs = 1..Len(runs) /\ LastOf(Listing) \in DOMAIN runs
         /\ (server \in {"gitlab", "bitbucket"} /\ Len(runs) > 1) \/ LastOf(Listing) = Len(runs)
<1>1. Len(runs) \in Nat \ {0} /\ DOMAIN runs = 1..Len(runs)
  BY LenProperties, EmptySeq DEF BuildTyped
<1> DEFINE n == Len(runs)
<1> HIDE DEF n
<1>2. n \in Nat \ {0}
  BY <1>1 DEF n
<1>3. CASE server = "github"
  <2>1. Listing = [i \in 1..n |-> i]
    BY <1>3 DEF Listing, n
  <2>2. Len([i \in 1..n |-> i]) = n
    BY <1>2
  <2> QED
    BY <1>1, <1>2, <2>1, <2>2 DEF LastOf, n
<1>4. CASE server \in {"gitlab", "bitbucket"}
  <2>1. Listing = [i \in 1..n |-> n + 1 - i]
    BY <1>4 DEF Listing, n
  <2>2. Len([i \in 1..n |-> n + 1 - i]) = n
    BY <1>2
  <2>3. LastOf(Listing) = 1
    BY <1>2, <2>1, <2>2 DEF LastOf
  <2> QED
    BY <1>1, <1>4, <2>3 DEF n
<1>5. CASE server \notin {"github", "gitlab", "bitbucket"}
  <2>1. Listing = <<n>>
    BY <1>5 DEF Listing, n
  <2> QED
    BY <1>1, <2>1 DEF LastOf, n
<1> QED
  BY <1>3, <1>4, <1>5

LEMMA BuildInvInit == BuildInit => BuildInv
<1> SUFFICES ASSUME BuildInit PROVE BuildInv
  OBVIOUS
<1>1. <<>> \in Lists(server)
  BY EmptySeq DEF Lists
<1> DEFINE one == <<>>
<1>2. one \in Lists(server)
  BY <1>1
<1> HIDE DEF one
<1>3. <<one>> \in Seq(Lists(server)) /\ <<one>> # <<>>
  BY <1>2
<1>4. runs \in Seq(Lists(server)) /\ runs # <<>>
  BY <1>3 DEF BuildInit, one
<1> QED
  BY <1>4 DEF BuildInit, BuildInv, BuildTyped, Judged, LandedPassed, Nowhere

LEMMA BuildInvRest == BuildInv /\ UNCHANGED buildVars => BuildInv'
<1> SUFFICES ASSUME BuildInv, UNCHANGED buildVars PROVE BuildInv'
  OBVIOUS
<1>1. UNCHANGED <<server, runs, judge, landed, passed, pushed>>
  BY DEF buildVars
<1> QED
  BY <1>1 DEF BuildInv, BuildTyped, Judged, LandedPassed, NewestFirst, Greens

LEMMA BuildInvStep == BuildInv /\ BuildNext => BuildInv'
<1> SUFFICES ASSUME BuildInv, BuildNext PROVE BuildInv'
  OBVIOUS
<1> USE DEF BuildInv
<1>1. /\ BuildTyped /\ Len(runs) \in Nat \ {0} /\ DOMAIN runs = 1..Len(runs)
      /\ \A c \in DOMAIN runs : runs[c] \in Lists(server)
  BY LastListed, ElementOfSeq DEF BuildTyped
<1>2. CASE Push
  <2>1. landed = 0 /\ runs' = Append(runs, <<>>) /\ pushed' = TRUE /\ UNCHANGED <<server, judge, landed, passed>>
    BY <1>2 DEF Push
  <2> DEFINE one == <<>>
  <2>2. one \in Lists(server)
    BY EmptySeq DEF Lists
  <2>3. ~Green(server, one)
    BY DEF Green
  <2> HIDE DEF one
  <2>4. /\ Append(runs, one) \in Seq(Lists(server)) /\ Append(runs, one) # <<>>
        /\ Len(Append(runs, one)) = Len(runs) + 1 /\ DOMAIN Append(runs, one) = 1..(Len(runs) + 1)
        /\ \A c \in 1..(Len(runs) + 1) : Append(runs, one)[c] = IF c <= Len(runs) THEN runs[c] ELSE one
    BY <1>1, <2>2, AppendProperties, LenProperties DEF BuildTyped
  <2>5. runs' = Append(runs, one)
    BY <2>1 DEF one
  <2>6. BuildTyped'
    BY <2>1, <2>4, <2>5 DEF BuildTyped
  <2>7. ASSUME judge.at = "status" PROVE Greens' \subseteq passed
    <3> SUFFICES ASSUME NEW c \in DOMAIN runs', Green(server, runs'[c]) PROVE c \in passed
      BY <2>1 DEF Greens
    <3>1. c \in DOMAIN runs /\ runs'[c] = runs[c]
      BY <1>1, <2>3, <2>4, <2>5
    <3> QED
      BY <2>7, <3>1 DEF Judged, Greens
  <2>8. DOMAIN runs \subseteq DOMAIN runs'
    BY <1>1, <2>4, <2>5
  <2> QED
    BY <2>1, <2>6, <2>7, <2>8 DEF Judged, LandedPassed
<1>3. CASE Build
  <2>1. PICK c \in DOMAIN runs : \/ runs' = [runs EXCEPT ![c] = Append(runs[c], "running")]
                                 \/ \E i \in DOMAIN runs[c], o \in Outcomes :
                                      runs' = [runs EXCEPT ![c][i] = IF runs[c][i] = "running" THEN o ELSE "running"]
    BY <1>3 DEF Build
  <2>2. landed = 0 /\ GreensThen /\ UNCHANGED <<server, judge, landed, pushed>>
    BY <1>3 DEF Build
  <2>3. "running" \in Words(server) /\ Outcomes \subseteq Words(server)
    BY DEF Words, Outcomes
  <2>4. PICK list \in Lists(server) : runs' = [runs EXCEPT ![c] = list]
    <3> DEFINE old == runs[c]
    <3>1. old \in Seq(Words(server))
      BY <1>1 DEF Lists
    <3>2. CASE runs' = [runs EXCEPT ![c] = Append(runs[c], "running")]
      <4>1. Append(old, "running") \in Lists(server)
        BY <2>3, <3>1, AppendProperties DEF Lists
      <4> QED
        BY <3>2, <4>1
    <3>3. CASE \E i \in DOMAIN runs[c], o \in Outcomes :
                 runs' = [runs EXCEPT ![c][i] = IF runs[c][i] = "running" THEN o ELSE "running"]
      <4>1. PICK i \in DOMAIN old, o \in Outcomes :
               runs' = [runs EXCEPT ![c] = [old EXCEPT ![i] = IF old[i] = "running" THEN o ELSE "running"]]
        BY <3>3
      <4> DEFINE w == IF old[i] = "running" THEN o ELSE "running"
      <4>2. w \in Words(server)
        BY <2>3
      <4>3. runs' = [runs EXCEPT ![c] = [old EXCEPT ![i] = w]]
        BY <4>1
      <4> HIDE DEF w, old
      <4>4. [old EXCEPT ![i] = w] \in Seq(Words(server))
        BY <3>1, <4>2, ExceptSeq
      <4> QED
        BY <4>3, <4>4 DEF Lists
    <3> QED
      BY <2>1, <3>2, <3>3
  <2>5. runs' \in Seq(Lists(server)) /\ DOMAIN runs' = DOMAIN runs /\ Len(runs') = Len(runs)
    BY <2>4, ExceptSeq DEF BuildTyped
  <2>6. runs' # <<>>
    BY <1>1, <2>5
  <2>7. BuildTyped'
    BY <2>2, <2>5, <2>6 DEF BuildTyped
  <2>8. judge.at # "idle" => passed \subseteq passed' /\ Greens' \subseteq passed'
    BY <2>2 DEF GreensThen, Greens
  <2> QED
    BY <2>2, <2>5, <2>7, <2>8 DEF Judged, LandedPassed, NewestFirst
<1>4. CASE GetPRCommits
  <2>1. /\ landed = 0 /\ judge' = [at |-> "status", sha |-> LastOf(Listing), many |-> Len(runs) > 1, doubt |-> FALSE]
        /\ passed' = Greens /\ pushed' = FALSE /\ UNCHANGED <<server, runs, landed>>
    BY <1>4 DEF GetPRCommits
  <2>2. LastOf(Listing) \in DOMAIN runs /\ LastOf(Listing) \in Nat
        /\ ((server \in {"gitlab", "bitbucket"} /\ Len(runs) > 1) \/ LastOf(Listing) = Len(runs))
    BY <1>1, LastListed
  <2> DEFINE sha == LastOf(Listing)
  <2> HIDE DEF sha
  <2>3. judge'.at = "status" /\ judge'.sha = sha /\ judge'.many = (Len(runs) > 1)
    BY <2>1 DEF sha
  <2>4. BuildTyped'
    <3>1. sha \in Nat /\ judge' = [at |-> "status", sha |-> sha, many |-> Len(runs) > 1, doubt |-> FALSE]
      BY <2>1, <2>2 DEF sha
    <3> DEFINE many == Len(runs) > 1
    <3>2. many \in BOOLEAN /\ judge' = [at |-> "status", sha |-> sha, many |-> many, doubt |-> FALSE]
      BY <3>1
    <3> HIDE DEF many
    <3>3. judge' \in [at : {"idle", "status", "merge", "done"}, sha : Nat, many : BOOLEAN, doubt : BOOLEAN]
      BY <3>1, <3>2
    <3> QED
      BY <2>1, <3>3 DEF BuildTyped
  <2>5. Greens' = Greens
    BY <2>1 DEF Greens
  <2> QED
    BY <2>1, <2>2, <2>3, <2>4, <2>5 DEF Judged, LandedPassed, NewestFirst, sha
<1>5. ASSUME judge' = Nowhere, judge.at # "done", UNCHANGED <<server, runs, landed, passed, pushed>> PROVE BuildInv'
  BY <1>5 DEF BuildTyped, Judged, LandedPassed, Nowhere
<1>6. CASE GetCIStatus
  <2>1. judge.at = "status" /\ UNCHANGED <<server, runs, landed, passed, pushed>>
    BY <1>6 DEF GetCIStatus
  <2>2. CASE Status(judge.sha) = "success"
    <3> DEFINE doubt == Doubt(judge.sha)
    <3>1. judge' = [judge EXCEPT !.at = "merge", !.doubt = doubt]
      BY <1>6, <2>2 DEF GetCIStatus
    <3>2. doubt \in BOOLEAN
      BY DEF Doubt
    <3>3. landed = 0 /\ judge.sha \in DOMAIN runs /\ (pushed \/ NewestFirst \/ judge.sha = Len(runs))
      BY <2>1 DEF Judged
    <3>4. doubt \/ pushed \/ NewestFirst \/ judge.sha \in passed
      <4> SUFFICES ASSUME ~Doubt(judge.sha), ~pushed, ~NewestFirst PROVE judge.sha \in passed
        OBVIOUS
      <4>1. Green(server, runs[judge.sha])
        BY <1>1, <2>2, <3>3, SuccessIsGreen
      <4> QED
        BY <2>1, <3>3, <4>1 DEF Judged, Greens
    <3> HIDE DEF doubt
    <3>5. judge'.at = "merge" /\ judge'.doubt = doubt /\ judge'.sha = judge.sha /\ judge'.many = judge.many
          /\ judge' \in [at : {"idle", "status", "merge", "done"}, sha : Nat, many : BOOLEAN, doubt : BOOLEAN]
      BY <3>1, <3>2 DEF BuildTyped
    <3> QED
      BY <2>1, <3>3, <3>4, <3>5 DEF BuildTyped, Judged, LandedPassed, NewestFirst
  <2>3. CASE Status(judge.sha) # "success"
    <3>1. judge' = Nowhere
      BY <1>6, <2>3 DEF GetCIStatus
    <3> QED
      BY <1>5, <2>1, <3>1
  <2> QED
    BY <2>2, <2>3
<1>7. CASE AskFails
  BY <1>5, <1>7 DEF AskFails
<1>8. CASE MergeHead
  <2>1. judge.at = "merge" /\ landed' = Len(runs) /\ judge' = [judge EXCEPT !.at = "done"]
        /\ UNCHANGED <<server, runs, passed, pushed>>
    BY <1>8 DEF MergeHead
  <2>2. judge'.at = "done" /\ judge'.doubt = judge.doubt /\ judge'.many = judge.many
        /\ judge' \in [at : {"idle", "status", "merge", "done"}, sha : Nat, many : BOOLEAN, doubt : BOOLEAN]
    BY <2>1 DEF BuildTyped
  <2>3. /\ pushed \/ NewestFirst \/ judge.sha = Len(runs)
        /\ judge.doubt \/ pushed \/ NewestFirst \/ judge.sha \in passed
    BY <2>1 DEF Judged
  <2> QED
    BY <1>1, <2>1, <2>2, <2>3 DEF BuildTyped, Judged, LandedPassed, NewestFirst
<1> QED
  BY <1>2, <1>3, <1>4, <1>5, <1>6, <1>7, <1>8 DEF BuildNext

-----------------------------------------------------------------------------
\* Induction

\* A set of natural numbers has a least member, so that one with 0 and each successor has all.
LEMMA Least ==
  ASSUME NEW T \in SUBSET Nat, T # {}
  PROVE  \E x \in T : \A y \in T : ~(y < x)
<1>1. \E x \in T : \A y \in T : ~(<<y, x>> \in OpToRel(<, Nat))
  BY NatLessThanWellFounded, WFMin
<1> QED
  BY <1>1 DEF OpToRel

LEMMA Counting ==
  ASSUME NEW S, 0 \in S, \A n \in Nat : n \in S => n + 1 \in S
  PROVE  Nat \subseteq S
<1> DEFINE T == Nat \ S
<1>1. SUFFICES ASSUME T # {} PROVE FALSE
  OBVIOUS
<1>2. PICK x \in T : \A y \in T : ~(y < x)
  BY <1>1, Least
<1>3. x # 0
  OBVIOUS
<1>4. x - 1 \in Nat /\ x - 1 < x
  BY <1>3
<1>5. x - 1 \in S
  BY <1>2, <1>4
<1> QED
  BY <1>4, <1>5

-----------------------------------------------------------------------------
\* Reviews: what people say, and how they stand

Sayings == {"approve", "block", "comment", "again", "withdrawn", "recommend", "dislike"}
Review == [who : People, says : Sayings, dismissed : BOOLEAN]

\* p takes no stand after place a down to place b of list l; i is where p takes the last one down to place n.
Speaks(l, p, i)   == l[i].who = p /\ l[i].says # "comment"
Silent(l, p, a, b) == \A j \in Nat : a < j /\ j <= b => ~Speaks(l, p, j)
Newest(l, p, n, i) == i \in Nat /\ 0 < i /\ i <= n /\ Speaks(l, p, i) /\ Silent(l, p, i, n)

Meaning(s) == CASE s \in {"approve", "recommend"} -> "approve"
                [] s \in {"block", "dislike"}     -> "block"
                [] OTHER                          -> "none"

LEMMA NewestIs ==
  ASSUME NEW l, NEW p, NEW n \in Nat
  PROVE  Silent(l, p, 0, n) \/ \E i \in Nat : Newest(l, p, n, i)
<1> DEFINE S == {m \in Nat : Silent(l, p, 0, m) \/ \E i \in Nat : Newest(l, p, m, i)}
<1>1. 0 \in S
  BY DEF Silent
<1>2. ASSUME NEW m \in Nat, m \in S PROVE m + 1 \in S
  <2>1. CASE Speaks(l, p, m + 1)
    <3>1. Newest(l, p, m + 1, m + 1)
      BY <2>1 DEF Newest, Silent
    <3> QED
      BY <3>1
  <2>2. CASE ~Speaks(l, p, m + 1)
    <3>1. \A j \in Nat : j <= m + 1 => j <= m \/ j = m + 1
      OBVIOUS
    <3>2. CASE Silent(l, p, 0, m)
      <4>1. Silent(l, p, 0, m + 1)
        BY <2>2, <3>1, <3>2 DEF Silent
      <4> QED
        BY <4>1
    <3>3. ASSUME NEW i \in Nat, Newest(l, p, m, i) PROVE m + 1 \in S
      <4>1. Newest(l, p, m + 1, i)
        BY <2>2, <3>1, <3>3 DEF Newest, Silent
      <4> QED
        BY <4>1
    <3> QED
      BY <1>2, <3>2, <3>3
  <2> QED
    BY <2>1, <2>2
<1> HIDE DEF S
<1>3. n \in S
  BY <1>1, <1>2, Counting
<1> QED
  BY <1>3 DEF S

LEMMA NewestOne ==
  ASSUME NEW l, NEW p, NEW n \in Nat, NEW i, NEW j, Newest(l, p, n, i), Newest(l, p, n, j)
  PROVE  i = j
BY DEF Newest, Silent

LEMMA NewestIsMax ==
  ASSUME NEW l \in Seq(Review), NEW p, NEW i \in Nat, Newest(l, p, Len(l), i)
  PROVE  Max(Stands(l, p)) = i /\ Stands(l, p) # {}
<1> DEFINE M == Stands(l, p)
           x == Max(M)
<1>0. Len(l) \in Nat /\ DOMAIN l = 1..Len(l)
  BY LenProperties
<1>1. i \in M /\ \A j \in M : j \in Nat /\ i >= j
  BY <1>0 DEF Stands, Speaks, Newest, Silent
<1>2. x \in M /\ \A j \in M : x >= j
  BY <1>1 DEF Max
<1> HIDE DEF M, x
<1>3. x \in M /\ x >= i
  BY <1>1, <1>2
<1>4. x = i
  BY <1>1, <1>3
<1> QED
  BY <1>1, <1>4 DEF x, M

\* Stance, by the last stand taken.
LEMMA StanceIs ==
  ASSUME NEW l \in Seq(Review), NEW w, NEW p
  PROVE  /\ \A i \in Nat : Newest(l, p, Len(l), i) =>
              Stance(l, w, p) = IF p \in w \/ l[i].dismissed THEN "none" ELSE Meaning(l[i].says)
         /\ Silent(l, p, 0, Len(l)) => Stance(l, w, p) = "none"
         /\ Stance(l, w, p) \in {"none", "approve", "block"}
<1>0. Len(l) \in Nat /\ DOMAIN l = 1..Len(l)
  BY LenProperties
<1>1. Stands(l, p) = {i \in 1..Len(l) : Speaks(l, p, i)}
  BY <1>0 DEF Stands, Speaks
<1>2. ASSUME NEW i \in Nat, Newest(l, p, Len(l), i)
      PROVE  Stance(l, w, p) = IF p \in w \/ l[i].dismissed THEN "none" ELSE Meaning(l[i].says)
  <2>1. Max(Stands(l, p)) = i /\ Stands(l, p) # {}
    BY <1>2, NewestIsMax
  <2> QED
    BY <2>1 DEF Stance, Meaning
<1>3. ASSUME Silent(l, p, 0, Len(l)) PROVE Stance(l, w, p) = "none"
  <2>1. Stands(l, p) = {}
    BY <1>0, <1>1, <1>3 DEF Silent
  <2> QED
    BY <2>1 DEF Stance
<1>4. Stance(l, w, p) \in {"none", "approve", "block"}
  BY DEF Stance
<1> QED
  BY <1>2, <1>3, <1>4

-----------------------------------------------------------------------------
\* Replaying a page

RunsAs(g, c, a, b) == g = [i \in a..b |-> IF i = a THEN c ELSE Replayed(g[i - 1], reviews[i])]

LEMMA ReplayRuns ==
  ASSUME NEW c, NEW a \in Nat
  PROVE  \A n \in Nat : \E g : RunsAs(g, c, a, a + n)
<1> DEFINE S == {n \in Nat : \E g : RunsAs(g, c, a, a + n)}
<1>1. 0 \in S
  <2>1. RunsAs([i \in a..a |-> c], c, a, a + 0)
    BY DEF RunsAs
  <2> QED
    BY <2>1
<1>2. ASSUME NEW n \in Nat, n \in S PROVE n + 1 \in S
  <2>1. PICK g : RunsAs(g, c, a, a + n)
    BY <1>2
  <2> DEFINE h == [i \in a..(a + (n + 1)) |-> IF i = a + (n + 1) THEN Replayed(g[i - 1], reviews[i]) ELSE g[i]]
  <2>2. RunsAs(h, c, a, a + (n + 1))
    BY <2>1 DEF RunsAs
  <2> HIDE DEF h
  <2> QED
    BY <2>2
<1> HIDE DEF S
<1>3. Nat \subseteq S
  BY <1>1, <1>2, Counting
<1> QED
  BY <1>3 DEF S

LEMMA ReplayIs ==
  ASSUME NEW c, NEW a \in Nat, NEW n \in Nat
  PROVE  \E g : RunsAs(g, c, a, a + n) /\ Replay(c, a, a + n) = g[a + n]
<1> DEFINE read == CHOOSE g : RunsAs(g, c, a, a + n)
<1>1. RunsAs(read, c, a, a + n)
  BY ReplayRuns
<1>2. Replay(c, a, a + n) = read[a + n]
  BY DEF Replay, RunsAs
<1> QED
  BY <1>1, <1>2

\* What has been read down to place b says of each person what the last review after place a says, or what was known.
Calls == [at : {"idle", "list", "pr", "done"}, page : Nat \ {0}, yes : SUBSET People, no : SUBSET People,
          cut : BOOLEAN, blind : BOOLEAN]
Heard(h, r) == IF h = "github" /\ r.dismissed THEN "none" ELSE Meaning(r.says)
ReadOf(h, l, c, d, a, b) ==
  /\ d \in Calls /\ d.at = c.at /\ d.page = c.page /\ d.cut = c.cut /\ d.blind = c.blind
  /\ \A p \in People :
       /\ Silent(l, p, a, b) => (p \in d.yes <=> p \in c.yes) /\ (p \in d.no <=> p \in c.no)
       /\ \A i \in Nat : a < i /\ Newest(l, p, b, i) =>
            (p \in d.yes <=> Heard(h, l[i]) = "approve") /\ (p \in d.no <=> Heard(h, l[i]) = "block")


\* One more review
Fit(r) == r.says \in {"approve", "block", "comment", "again"} /\ (r.dismissed => r.says # "comment")
LEMMA ReplayedIs ==
  ASSUME NEW d \in Calls, NEW r \in Review, Fit(r), NEW e, e = Replayed(d, r)
  PROVE  /\ e \in Calls /\ e.at = d.at /\ e.page = d.page /\ e.cut = d.cut /\ e.blind = d.blind
         /\ \A p \in People : p # r.who \/ r.says = "comment" => (p \in e.yes <=> p \in d.yes) /\ (p \in e.no <=> p \in d.no)
         /\ r.says # "comment" =>
              (r.who \in e.yes <=> Heard(host, r) = "approve") /\ (r.who \in e.no <=> Heard(host, r) = "block")
<1> DEFINE q == r.who
           u == host = "github" /\ r.dismissed
<1>0. r.dismissed \in BOOLEAN
  BY DEF Review
<1>1. q \in People /\ r.says \in {"approve", "block", "comment", "again"} /\ (u => r.says # "comment")
  BY DEF Review, Fit
<1>2. Heard(host, r) = (IF u THEN "none" ELSE Meaning(r.says))
  BY DEF Heard
<1>3. d.yes \in SUBSET People /\ d.no \in SUBSET People
  BY DEF Calls
<1>4. CASE u \/ r.says = "again"
  <2> DEFINE yes == d.yes \ {q}
             no == d.no \ {q}
  <2>1. e = [d EXCEPT !.yes = yes, !.no = no]
    BY <1>0, <1>4 DEF Replayed
  <2>2. Heard(host, r) = "none"
    BY <1>2, <1>4 DEF Meaning
  <2>3. yes \in SUBSET People /\ no \in SUBSET People
    BY <1>1, <1>3
  <2> HIDE DEF yes, no
  <2>4. /\ e \in Calls /\ e.at = d.at /\ e.page = d.page /\ e.cut = d.cut /\ e.blind = d.blind
        /\ e.yes = yes /\ e.no = no
    BY <2>1, <2>3 DEF Calls
  <2>5. r.says # "comment"
    BY <1>1, <1>4
  <2> QED
    BY <2>2, <2>4, <2>5 DEF yes, no
<1>5. CASE ~u /\ r.says = "approve"
  <2> DEFINE yes == d.yes \cup {q}
             no == d.no \ {q}
  <2>1. e = [d EXCEPT !.yes = yes, !.no = no]
    BY <1>0, <1>5 DEF Replayed
  <2>2. Heard(host, r) = "approve"
    BY <1>2, <1>5 DEF Meaning
  <2>3. yes \in SUBSET People /\ no \in SUBSET People
    BY <1>1, <1>3
  <2> HIDE DEF yes, no
  <2>4. /\ e \in Calls /\ e.at = d.at /\ e.page = d.page /\ e.cut = d.cut /\ e.blind = d.blind
        /\ e.yes = yes /\ e.no = no
    BY <2>1, <2>3 DEF Calls
  <2>5. r.says # "comment"
    BY <1>1, <1>5
  <2> QED
    BY <2>2, <2>4, <2>5 DEF yes, no
<1>6. CASE ~u /\ r.says = "block"
  <2> DEFINE yes == d.yes \ {q}
             no == d.no \cup {q}
  <2>1. e = [d EXCEPT !.yes = yes, !.no = no]
    BY <1>0, <1>6 DEF Replayed
  <2>2. Heard(host, r) = "block"
    BY <1>2, <1>6 DEF Meaning
  <2>3. yes \in SUBSET People /\ no \in SUBSET People
    BY <1>1, <1>3
  <2> HIDE DEF yes, no
  <2>4. /\ e \in Calls /\ e.at = d.at /\ e.page = d.page /\ e.cut = d.cut /\ e.blind = d.blind
        /\ e.yes = yes /\ e.no = no
    BY <2>1, <2>3 DEF Calls
  <2>5. r.says # "comment"
    BY <1>1, <1>6
  <2> QED
    BY <2>2, <2>4, <2>5 DEF yes, no
<1>7. CASE ~u /\ r.says = "comment"
  <2>1. e = d
    BY <1>0, <1>7 DEF Replayed
  <2> QED
    BY <1>7, <2>1
<1> QED
  BY <1>1, <1>4, <1>5, <1>6, <1>7

LEMMA ReplayedOne ==
  ASSUME NEW c \in Calls, NEW d \in Calls, NEW a \in Nat, NEW m \in Nat, a <= m,
         m + 1 <= Len(reviews), reviews \in Seq(Review), Fit(reviews[m + 1]), ReadOf(host, reviews, c, d, a, m)
  PROVE  ReadOf(host, reviews, c, Replayed(d, reviews[m + 1]), a, m + 1)
<1> DEFINE r == reviews[m + 1]
           e == Replayed(d, r)
<1>1. r \in Review
  <2>1. m + 1 \in 1..Len(reviews)
    BY LenProperties
  <2> QED
    BY <2>1, ElementOfSeq
<1>0. PICK x : x = e
  OBVIOUS
<1>2. /\ x \in Calls /\ x.at = d.at /\ x.page = d.page /\ x.cut = d.cut /\ x.blind = d.blind
      /\ \A p \in People : p # r.who \/ r.says = "comment" => (p \in x.yes <=> p \in d.yes) /\ (p \in x.no <=> p \in d.no)
      /\ r.says # "comment" =>
           (r.who \in x.yes <=> Heard(host, r) = "approve") /\ (r.who \in x.no <=> Heard(host, r) = "block")
  BY <1>0, <1>1, ReplayedIs
<1>4. \A p \in People : Speaks(reviews, p, m + 1) <=> p = r.who /\ r.says # "comment"
  BY DEF Speaks
<1>5. \A j \in Nat : j <= m + 1 <=> j <= m \/ j = m + 1
  OBVIOUS
<1>6. ASSUME NEW p \in People, Silent(reviews, p, a, m + 1)
      PROVE  (p \in x.yes <=> p \in c.yes) /\ (p \in x.no <=> p \in c.no)
  <2>1. Silent(reviews, p, a, m) /\ ~Speaks(reviews, p, m + 1)
    BY <1>5, <1>6 DEF Silent
  <2>2. (p \in x.yes <=> p \in d.yes) /\ (p \in x.no <=> p \in d.no)
    BY <1>2, <1>4, <2>1
  <2> QED
    BY <2>1, <2>2 DEF ReadOf
<1>7. ASSUME NEW p \in People, NEW i \in Nat, a < i, Newest(reviews, p, m + 1, i)
      PROVE  (p \in x.yes <=> Heard(host, reviews[i]) = "approve") /\ (p \in x.no <=> Heard(host, reviews[i]) = "block")
  <2>1. CASE i = m + 1
    BY <1>2, <1>4, <1>7, <2>1 DEF Newest
  <2>2. CASE i # m + 1
    <3>1. Newest(reviews, p, m, i) /\ ~Speaks(reviews, p, m + 1)
      BY <1>5, <1>7, <2>2 DEF Newest, Silent
    <3>2. (p \in x.yes <=> p \in d.yes) /\ (p \in x.no <=> p \in d.no)
      BY <1>2, <1>4, <3>1
    <3> QED
      BY <1>7, <3>1, <3>2 DEF ReadOf
  <2> QED
    BY <2>1, <2>2
<1>8. x \in Calls /\ x.at = c.at /\ x.page = c.page /\ x.cut = c.cut /\ x.blind = c.blind
  BY <1>2 DEF ReadOf
<1> QED
  BY <1>0, <1>6, <1>7, <1>8 DEF ReadOf

LEMMA ReplayMeans ==
  ASSUME NEW c \in Calls, NEW a \in Nat, NEW b \in Nat, a <= b, b <= Len(reviews), reviews \in Seq(Review),
         \A i \in 1..Len(reviews) : Fit(reviews[i])
  PROVE  ReadOf(host, reviews, c, Replay(c, a, b), a, b)
<1>1. PICK g : RunsAs(g, c, a, b) /\ Replay(c, a, b) = g[b]
  <2> DEFINE n == b - a
  <2>1. n \in Nat /\ a + n = b
    OBVIOUS
  <2> HIDE DEF n
  <2>2. \E g : RunsAs(g, c, a, a + n) /\ Replay(c, a, a + n) = g[a + n]
    BY <2>1, ReplayIs
  <2> QED
    BY <2>1, <2>2
<1>2. g[a] = c /\ \A i \in Nat : a <= i /\ i < b => g[i + 1] = Replayed(g[i], reviews[i + 1])
  BY <1>1 DEF RunsAs
<1> DEFINE S == {n \in Nat : a + n <= b => ReadOf(host, reviews, c, g[a + n], a, a + n)}
<1>3. 0 \in S
  <2>1. ReadOf(host, reviews, c, c, a, a)
    BY DEF ReadOf, Newest
  <2> QED
    BY <1>2, <2>1
<1>4. ASSUME NEW n \in Nat, n \in S PROVE n + 1 \in S
  <2> SUFFICES ASSUME a + (n + 1) <= b PROVE ReadOf(host, reviews, c, g[a + (n + 1)], a, a + (n + 1))
    OBVIOUS
  <2> DEFINE m == a + n
  <2>1. m \in Nat /\ a <= m /\ m < b /\ m + 1 = a + (n + 1) /\ m + 1 <= Len(reviews) /\ m + 1 \in 1..Len(reviews)
    BY LenProperties
  <2>2. ReadOf(host, reviews, c, g[m], a, m)
    BY <1>4, <2>1
  <2>3. g[m] \in Calls
    BY <2>2 DEF ReadOf
  <2>4. g[m + 1] = Replayed(g[m], reviews[m + 1])
    BY <1>2, <2>1
  <2>5. Fit(reviews[m + 1])
    BY <2>1
  <2> HIDE DEF m
  <2>6. ReadOf(host, reviews, c, g[m + 1], a, m + 1)
    BY <2>1, <2>2, <2>3, <2>4, <2>5, ReplayedOne
  <2> QED
    BY <2>1, <2>6
<1> HIDE DEF S
<1>5. b - a \in S
  BY <1>3, <1>4, Counting
<1> QED
  BY <1>1, <1>5 DEF S

-----------------------------------------------------------------------------
\* What holds of the reviews and of the call

Said(h, r) ==
  /\ h = "github"    => r.says \in {"approve", "block", "comment"}
  /\ h = "gitea"     => r.says \in {"approve", "block", "comment", "again"}
  /\ h = "gitlab"    => r.says \in {"approve", "withdrawn"}
  /\ h = "bitbucket" => r.says \in {"approve", "block", "withdrawn"}
  /\ h = "gerrit"    => r.says \in {"approve", "recommend", "dislike", "block", "withdrawn"}
  /\ r.dismissed => r.says \in {"approve", "block"} /\ h \in {"github", "gitea"}

ReviewsTyped ==
  /\ host \in {"github", "gitlab", "gitea", "bitbucket", "gerrit"} /\ cap \in Nat \ {0} /\ Page \in Nat \ {0} /\ cap <= Page
  /\ reviews \in Seq(Review) /\ \A i \in 1..Len(reviews) : Said(host, reviews[i])
  /\ asked \in SUBSET People /\ (host # "github" => asked = {})
  /\ assigned \in SUBSET People /\ out \in SUBSET People /\ late \in SUBSET People
  /\ call \in Calls /\ stood \in [People -> SUBSET {"none", "approve", "block"}]

\* How many reviews the call has read.
Down(h, m, c) == IF h = "github" THEN Page * (c.page - 1) ELSE IF h = "gitea" THEN m * (c.page - 1) ELSE 0

Pardoned(h, l, lt, p) ==
  \/ h = "gitea" /\ \E i \in 1..Len(l) : l[i].who = p /\ l[i].dismissed
  \/ h = "github" /\ p \in lt

\* While the list is read: who is in Y said k last of what has been read, and the other way round; and unless p stood
\* so during the call, something is still to be read, or p is asked once more.
LastSaid(l, p, n, k, i) == i \in Nat /\ Newest(l, p, n, i) /\ Meaning(l[i].says) = k
ListRight(h, l, w, st, lt, n, Y, k) ==
  \A p \in People :
    /\ p \in Y => \E i \in Nat : /\ LastSaid(l, p, n, k, i)
                                 /\ k \in st[p] \/ Pardoned(h, l, lt, p) \/ ~Silent(l, p, n, Len(l)) \/ (p \in w /\ ~l[i].dismissed)
    /\ \A i \in Nat : LastSaid(l, p, n, k, i) /\ ~l[i].dismissed => p \in Y

\* Between the two calls.
Cut(h, c) == h = "gitea" /\ c.cut
Untold(h, k) == k = "block" /\ h \in {"gitlab", "bitbucket"}
ReadRight(h, l, w, st, lt, u, Y, k) ==
  \A p \in People :
    /\ p \in Y => k \in st[p] \/ Pardoned(h, l, lt, p) \/ u
                  \/ (p \in w /\ \E i \in Nat : LastSaid(l, p, Len(l), k, i) /\ ~l[i].dismissed)
    /\ st[p] = {k} => p \in Y \/ Pardoned(h, l, lt, p) \/ u \/ Untold(h, k)

ReviewsInv ==
  /\ ReviewsTyped
  /\ call.at = "idle" => call = NoCall
  /\ call.at # "idle" => \A p \in People : Stance(reviews, asked, p) \in stood[p]
  /\ call.at = "list" =>
       /\ Down(host, cap, call) <= Len(reviews)
       /\ ListRight(host, reviews, asked, stood, late, Down(host, cap, call), call.yes, "approve")
       /\ ListRight(host, reviews, asked, stood, late, Down(host, cap, call), call.no, "block")
  /\ call.at = "pr" =>
       /\ host \in {"github", "gitlab", "gitea"}
       /\ ReadRight(host, reviews, asked, stood, late, Cut(host, call), call.yes, "approve")
       /\ ReadRight(host, reviews, asked, stood, late, Cut(host, call), call.no, "block")
  /\ StanceHeld

-----------------------------------------------------------------------------
\* How people stand, by the last stand they took

LEMMA StandsSo ==
  ASSUME NEW l \in Seq(Review), NEW w, NEW p, NEW k \in {"approve", "block"}
  PROVE  /\ \A i \in Nat : LastSaid(l, p, Len(l), k, i) => (Stance(l, w, p) = k <=> p \notin w /\ ~l[i].dismissed)
         /\ Stance(l, w, p) = k => p \notin w /\ \E i \in Nat : LastSaid(l, p, Len(l), k, i) /\ ~l[i].dismissed
<1>1. ASSUME NEW i \in Nat, Newest(l, p, Len(l), i)
      PROVE  Stance(l, w, p) = k <=> p \notin w /\ ~l[i].dismissed /\ Meaning(l[i].says) = k
  <2>1. Stance(l, w, p) = IF p \in w \/ l[i].dismissed THEN "none" ELSE Meaning(l[i].says)
    BY <1>1, StanceIs
  <2>2. l[i] \in Review
    BY <1>1, LenProperties, ElementOfSeq DEF Newest
  <2>3. l[i].dismissed \in BOOLEAN
    BY <2>2 DEF Review
  <2> QED
    BY <2>1, <2>3
<1>2. Len(l) \in Nat
  BY LenProperties
<1>3. Silent(l, p, 0, Len(l)) => Stance(l, w, p) # k
  BY StanceIs
<1> QED
  BY <1>1, <1>2, <1>3, NewestIs DEF LastSaid

\* Lists that say the same down to place n
SameWords(l, m, n) == \A j \in 1..n : m[j].who = l[j].who /\ m[j].says = l[j].says

LEMMA SameNewest ==
  ASSUME NEW l, NEW m, NEW n \in Nat, SameWords(l, m, n), NEW p, NEW b \in Nat, b <= n
  PROVE  /\ \A a \in Nat : Silent(l, p, a, b) <=> Silent(m, p, a, b)
         /\ \A i \in Nat : Newest(l, p, b, i) <=> Newest(m, p, b, i)
         /\ \A i \in Nat : \A k : LastSaid(l, p, b, k, i) <=> LastSaid(m, p, b, k, i)
<1>1. \A j \in Nat : 0 < j /\ j <= b => (Speaks(l, p, j) <=> Speaks(m, p, j)) /\ m[j].says = l[j].says
  BY DEF SameWords, Speaks
<1>2. \A a \in Nat : Silent(l, p, a, b) <=> Silent(m, p, a, b)
  BY <1>1 DEF Silent
<1>3. \A i \in Nat : Newest(l, p, b, i) <=> Newest(m, p, b, i)
  BY <1>1, <1>2 DEF Newest
<1> QED
  BY <1>1, <1>2, <1>3 DEF LastSaid, Newest

\* A step of people
Moves(h, l, w, st, lt, m, v, su, lu) ==
  /\ Len(l) <= Len(m) /\ SameWords(l, m, Len(l)) /\ \A i \in 1..Len(l) : l[i].dismissed => m[i].dismissed
  /\ \A p \in People : /\ su[p] = st[p] \cup {Stance(m, v, p)}
                       /\ Pardoned(h, l, lt, p) => Pardoned(h, m, lu, p)
                       /\ p \in w => \A i \in 1..Len(l) : l[i].who = p /\ m[i].dismissed =>
                                       l[i].dismissed \/ Pardoned(h, m, lu, p)

LEMMA ListKept ==
  ASSUME NEW l \in Seq(Review), NEW m \in Seq(Review), NEW w, NEW v, NEW st, NEW su, NEW lt, NEW lu, NEW h,
         NEW n \in Nat, n <= Len(l), NEW Y, NEW k \in {"approve", "block"},
         Moves(h, l, w, st, lt, m, v, su, lu), ListRight(h, l, w, st, lt, n, Y, k)
  PROVE  ListRight(h, m, v, su, lu, n, Y, k)
<1> DEFINE a == Len(l)
           b == Len(m)
<1>0. a \in Nat /\ b \in Nat /\ a <= b /\ n <= a /\ SameWords(l, m, a)
  BY LenProperties DEF Moves
<1>1. ASSUME NEW p \in People, p \in Y
      PROVE  \E i \in Nat : /\ LastSaid(m, p, n, k, i)
                            /\ k \in su[p] \/ Pardoned(h, m, lu, p) \/ ~Silent(m, p, n, b) \/ (p \in v /\ ~m[i].dismissed)
  <2>1. PICK i \in Nat : /\ LastSaid(l, p, n, k, i)
                         /\ k \in st[p] \/ Pardoned(h, l, lt, p) \/ ~Silent(l, p, n, a) \/ (p \in w /\ ~l[i].dismissed)
    BY <1>1 DEF ListRight
  <2>2. LastSaid(m, p, n, k, i)
    BY <1>0, <2>1, SameNewest
  <2>3. k \in st[p] => k \in su[p]
    BY DEF Moves
  <2>4. Pardoned(h, l, lt, p) => Pardoned(h, m, lu, p)
    BY DEF Moves
  <2>5. ~Silent(l, p, n, a) => ~Silent(m, p, n, b)
    <3>1. Silent(m, p, n, a) => Silent(l, p, n, a)
      BY <1>0, SameNewest
    <3> QED
      BY <1>0, <3>1 DEF Silent
  <2>6. ASSUME p \in w, ~l[i].dismissed, Silent(m, p, n, b)
        PROVE  k \in su[p] \/ Pardoned(h, m, lu, p) \/ (p \in v /\ ~m[i].dismissed)
    <3>1. i \in 1..a /\ l[i].who = p
      BY <1>0, <2>1 DEF LastSaid, Newest, Speaks
    <3>2. m[i].dismissed => Pardoned(h, m, lu, p)
      BY <2>6, <3>1 DEF Moves
    <3>3. LastSaid(m, p, b, k, i)
      BY <1>0, <2>2, <2>6 DEF LastSaid, Newest, Silent
    <3>4. p \notin v /\ ~m[i].dismissed => Stance(m, v, p) = k
      BY <3>3, StandsSo
    <3>5. Stance(m, v, p) \in su[p]
      BY DEF Moves
    <3> QED
      BY <3>2, <3>4, <3>5
  <2> QED
    BY <2>1, <2>2, <2>3, <2>4, <2>5, <2>6
<1>2. ASSUME NEW p \in People, NEW i \in Nat, LastSaid(m, p, n, k, i), ~m[i].dismissed
      PROVE  p \in Y
  <2>1. LastSaid(l, p, n, k, i)
    BY <1>0, <1>2, SameNewest
  <2>2. i \in 1..a
    BY <1>0, <2>1 DEF LastSaid, Newest
  <2>3. ~l[i].dismissed
    BY <1>2, <2>2 DEF Moves
  <2> QED
    BY <2>1, <2>3 DEF ListRight
<1> QED
  BY <1>1, <1>2 DEF ListRight

LEMMA ReadKept ==
  ASSUME NEW l \in Seq(Review), NEW m \in Seq(Review), NEW w, NEW v, NEW st, NEW su, NEW lt, NEW lu, NEW h,
         NEW u, NEW Y, NEW k \in {"approve", "block"},
         Moves(h, l, w, st, lt, m, v, su, lu), ReadRight(h, l, w, st, lt, u, Y, k),
         \A p \in People : Stance(l, w, p) \in st[p],
         \A p \in People : p \in w /\ ~Silent(m, p, Len(l), Len(m)) => Pardoned(h, m, lu, p)
  PROVE  ReadRight(h, m, v, su, lu, u, Y, k)
<1> DEFINE a == Len(l)
           b == Len(m)
<1>0. a \in Nat /\ b \in Nat /\ a <= b /\ SameWords(l, m, a)
  BY LenProperties DEF Moves
<1>1. ASSUME NEW p \in People, p \in Y
      PROVE  k \in su[p] \/ Pardoned(h, m, lu, p) \/ u
             \/ (p \in v /\ \E i \in Nat : LastSaid(m, p, b, k, i) /\ ~m[i].dismissed)
  <2>1. k \in st[p] => k \in su[p]
    BY DEF Moves
  <2>2. Pardoned(h, l, lt, p) => Pardoned(h, m, lu, p)
    BY DEF Moves
  <2>3. ASSUME p \in w, NEW i \in Nat, LastSaid(l, p, a, k, i), ~l[i].dismissed
        PROVE  k \in su[p] \/ Pardoned(h, m, lu, p)
               \/ (p \in v /\ \E j \in Nat : LastSaid(m, p, b, k, j) /\ ~m[j].dismissed)
    <3>0. Silent(m, p, a, b) \/ Pardoned(h, m, lu, p)
      BY <2>3
    <3>1. i \in 1..a /\ l[i].who = p
      BY <1>0, <2>3 DEF LastSaid, Newest, Speaks
    <3>2. m[i].dismissed => Pardoned(h, m, lu, p)
      BY <2>3, <3>1 DEF Moves
    <3>3. LastSaid(m, p, a, k, i)
      BY <1>0, <2>3, SameNewest
    <3>4. Silent(m, p, a, b) => LastSaid(m, p, b, k, i)
      BY <1>0, <3>3 DEF LastSaid, Newest, Silent
    <3>5. Silent(m, p, a, b) /\ p \notin v /\ ~m[i].dismissed => Stance(m, v, p) = k
      BY <3>4, StandsSo
    <3>6. Stance(m, v, p) \in su[p]
      BY DEF Moves
    <3> QED
      BY <3>0, <3>2, <3>4, <3>5, <3>6
  <2> QED
    BY <1>1, <2>1, <2>2, <2>3 DEF ReadRight
<1>2. ASSUME NEW p \in People, su[p] = {k}
      PROVE  p \in Y \/ Pardoned(h, m, lu, p) \/ u \/ Untold(h, k)
  <2>1. st[p] \subseteq su[p] /\ Stance(l, w, p) \in st[p]
    BY DEF Moves
  <2>2. st[p] = {k}
    BY <1>2, <2>1
  <2>3. Pardoned(h, l, lt, p) => Pardoned(h, m, lu, p)
    BY DEF Moves
  <2> QED
    BY <2>2, <2>3 DEF ReadRight
<1> QED
  BY <1>1, <1>2 DEF ReadRight

-----------------------------------------------------------------------------
\* Every step

\* A step of people keeps the invariant if it goes so while a call is under way.
LEMMA GoesOn ==
  ASSUME ReviewsInv, ReviewsTyped', UNCHANGED <<host, cap, call>>, call.at # "done",
         call.at # "idle" => Moves(host, reviews, asked, stood, late, reviews', asked', stood', late'),
         call.at = "pr" => \A p \in People : p \in asked /\ ~Silent(reviews', p, Len(reviews), Len(reviews')) =>
                                               Pardoned(host, reviews', late', p)
  PROVE  ReviewsInv'
<1>1. ReviewsTyped /\ ReviewsTyped'
  BY DEF ReviewsInv
<1> DEFINE n == Down(host, cap, call)
<1>2. call.at = "list" => n \in Nat /\ n <= Len(reviews)
  <2>1. call.page - 1 \in Nat
    BY <1>1 DEF ReviewsTyped, Calls
  <2>2. \A x \in Nat, y \in Nat : x * y \in Nat
    OBVIOUS
  <2>3. Page \in Nat /\ cap \in Nat
    BY <1>1 DEF ReviewsTyped
  <2>4. n \in Nat
    BY <2>1, <2>2, <2>3 DEF Down
  <2> QED
    BY <2>4 DEF ReviewsInv
<1>3. Down(host, cap, call)' = n /\ Cut(host, call)' = Cut(host, call)
  BY DEF Down, Cut
<1>4. reviews \in Seq(Review) /\ reviews' \in Seq(Review)
  BY <1>1 DEF ReviewsTyped
<1>5. call.at # "idle" => \A p \in People : Stance(reviews', asked', p) \in stood'[p]
  BY DEF Moves
<1>6. CASE call.at = "list"
  <2> HIDE DEF n
  <2>1. /\ ListRight(host, reviews, asked, stood, late, n, call.yes, "approve")
        /\ ListRight(host, reviews, asked, stood, late, n, call.no, "block")
    BY <1>6 DEF ReviewsInv, n
  <2>2. /\ ListRight(host, reviews', asked', stood', late', n, call.yes, "approve")
        /\ ListRight(host, reviews', asked', stood', late', n, call.no, "block")
    BY <1>2, <1>4, <1>6, <2>1, ListKept
  <2>3. n <= Len(reviews')
    <3>1. Len(reviews) \in Nat /\ Len(reviews') \in Nat
      BY <1>4, LenProperties
    <3> QED
      BY <1>2, <1>6, <3>1 DEF Moves
  <2> QED
    BY <1>1, <1>3, <1>5, <1>6, <2>2, <2>3 DEF ReviewsInv, StanceHeld
<1>7. CASE call.at = "pr"
  <2>1. /\ ReadRight(host, reviews, asked, stood, late, Cut(host, call), call.yes, "approve")
        /\ ReadRight(host, reviews, asked, stood, late, Cut(host, call), call.no, "block")
        /\ \A p \in People : Stance(reviews, asked, p) \in stood[p]
        /\ host \in {"github", "gitlab", "gitea"}
    BY <1>7 DEF ReviewsInv
  <2>2. /\ ReadRight(host, reviews', asked', stood', late', Cut(host, call), call.yes, "approve")
        /\ ReadRight(host, reviews', asked', stood', late', Cut(host, call), call.no, "block")
    BY <1>4, <1>7, <2>1, ReadKept
  <2> QED
    BY <1>1, <1>3, <1>5, <1>7, <2>1, <2>2 DEF ReviewsInv, StanceHeld
<1>8. CASE call.at = "idle"
  BY <1>1, <1>8 DEF ReviewsInv, StanceHeld
<1> QED
  BY <1>1, <1>6, <1>7, <1>8 DEF ReviewsTyped, Calls

LEMMA NotesKeep ==
  ASSUME ReviewsTyped, Notes, reviews' \in Seq(Review)
  PROVE  /\ stood' \in [People -> SUBSET {"none", "approve", "block"}]
         /\ call.at # "idle" => \A p \in People : stood'[p] = stood[p] \cup {Stance(reviews', asked', p)}
<1>1. \A p \in People : Stance(reviews', asked', p) \in {"none", "approve", "block"}
  BY StanceIs
<1>2. CASE call.at = "idle"
  BY <1>2 DEF Notes, ReviewsTyped
<1>3. CASE call.at # "idle"
  BY <1>1, <1>3 DEF Notes, ReviewsTyped
<1> QED
  BY <1>2, <1>3

LEMMA SaysIs ==
  ASSUME ReviewsTyped, NEW s \in Says
  PROVE  /\ s \in Sayings
         /\ \A p : Said(host, [who |-> p, says |-> s, dismissed |-> FALSE])
<1> DEFINE r(p) == [who |-> p, says |-> s, dismissed |-> FALSE]
<1>1. \A p : r(p).says = s /\ ~r(p).dismissed
  OBVIOUS
<1>2. host \in {"github", "gitlab", "gitea", "bitbucket", "gerrit"}
  BY DEF ReviewsTyped
<1>3. /\ host = "github"    => s \in {"approve", "block", "comment"}
      /\ host = "gitea"     => s \in {"approve", "block", "comment", "again"}
      /\ host = "gitlab"    => s \in {"approve", "withdrawn"}
      /\ host = "bitbucket" => s \in {"approve", "block", "withdrawn"}
      /\ host = "gerrit"    => s \in {"approve", "recommend", "dislike", "block", "withdrawn"}
  BY DEF Says
<1> QED
  BY <1>1, <1>2, <1>3 DEF Said, Sayings

LEMMA SubmitKeeps == ReviewsInv /\ Submit => ReviewsInv'
<1> SUFFICES ASSUME ReviewsInv, Submit PROVE ReviewsInv'
  OBVIOUS
<1>1. PICK q \in People, s \in Says :
        /\ reviews' = Append(reviews, [who |-> q, says |-> s, dismissed |-> FALSE])
        /\ asked' = IF s = "comment" THEN asked ELSE asked \ {q}
        /\ late' = IF call.at = "pr" /\ q \in asked THEN late \cup {q} ELSE late
        /\ Notes /\ UNCHANGED <<host, cap, assigned, turns, call, out>>
  BY DEF Submit
<1>2. ReviewsTyped
  BY DEF ReviewsInv
<1> DEFINE r == [who |-> q, says |-> s, dismissed |-> FALSE]
           a == Len(reviews)
<1>3. r \in Review /\ Said(host, r) /\ r.who = q /\ ~r.dismissed
  BY <1>2, SaysIs DEF Review
<1>4. reviews \in Seq(Review) /\ \A i \in 1..Len(reviews) : Said(host, reviews[i])
  BY <1>2 DEF ReviewsTyped
<1>5. reviews' = Append(reviews, r)
  BY <1>1
<1> HIDE DEF r
<1>6. /\ reviews' \in Seq(Review) /\ Len(reviews') = a + 1 /\ a \in Nat
      /\ \A i \in 1..a : reviews'[i] = reviews[i]
      /\ reviews'[a + 1] = r
  BY <1>3, <1>4, <1>5, AppendProperties, LenProperties
<1>7. \A i \in 1..Len(reviews') : Said(host, reviews'[i])
  BY <1>3, <1>4, <1>6
<1>8. stood' \in [People -> SUBSET {"none", "approve", "block"}]
  BY <1>1, <1>2, <1>6, NotesKeep
<1>9. asked' \subseteq asked /\ late' \in SUBSET People /\ late \subseteq late'
  BY <1>1, <1>2 DEF ReviewsTyped
<1>10. ReviewsTyped'
  BY <1>1, <1>2, <1>6, <1>7, <1>8, <1>9 DEF ReviewsTyped
<1>11. ASSUME call.at # "idle"
       PROVE  Moves(host, reviews, asked, stood, late, reviews', asked', stood', late')
  <2>1. Len(reviews) <= Len(reviews') /\ SameWords(reviews, reviews', Len(reviews))
    BY <1>6 DEF SameWords
  <2>2. \A p \in People : stood'[p] = stood[p] \cup {Stance(reviews', asked', p)}
    BY <1>1, <1>2, <1>6, <1>11, NotesKeep
  <2>3. \A p \in People : Pardoned(host, reviews, late, p) => Pardoned(host, reviews', late', p)
    BY <1>6, <1>9 DEF Pardoned
  <2> QED
    BY <1>6, <2>1, <2>2, <2>3 DEF Moves
<1>12. ASSUME call.at = "pr", NEW p \in People, p \in asked, ~Silent(reviews', p, Len(reviews), Len(reviews'))
       PROVE  Pardoned(host, reviews', late', p)
  <2>1. Speaks(reviews', p, a + 1)
    BY <1>6, <1>12 DEF Silent
  <2>2. p = q
    BY <1>3, <1>6, <2>1 DEF Speaks
  <2>3. p \in late' /\ host = "github"
    BY <1>1, <1>2, <1>12, <2>2 DEF ReviewsTyped
  <2> QED
    BY <2>3 DEF Pardoned
<1> QED
  BY <1>1, <1>10, <1>11, <1>12, GoesOn DEF Notes

LEMMA DismissKeeps == ReviewsInv /\ Dismiss => ReviewsInv'
<1> SUFFICES ASSUME ReviewsInv, Dismiss PROVE ReviewsInv'
  OBVIOUS
<1>1. PICK d \in 1..Len(reviews) :
        /\ host \in {"github", "gitea"} /\ ~reviews[d].dismissed /\ reviews[d].says \in {"approve", "block"}
        /\ reviews' = [reviews EXCEPT ![d].dismissed = TRUE]
        /\ late' = IF call.at \in {"list", "pr"} THEN late \cup ({reviews[d].who} \cap asked) ELSE late
        /\ UNCHANGED asked /\ Notes /\ UNCHANGED <<host, cap, assigned, call, out>>
  BY DEF Dismiss, Turn
<1>2. ReviewsTyped
  BY DEF ReviewsInv
<1>4. reviews \in Seq(Review) /\ \A i \in 1..Len(reviews) : Said(host, reviews[i])
  BY <1>2 DEF ReviewsTyped
<1>5. \A i \in 1..Len(reviews) : reviews[i] \in Review
  BY <1>4, ElementOfSeq
<1> DEFINE r == [reviews[d] EXCEPT !.dismissed = TRUE]
<1>3. /\ r \in Review /\ Said(host, r) /\ r.who = reviews[d].who /\ r.says = reviews[d].says /\ r.dismissed
  BY <1>1, <1>4, <1>5 DEF Review, Said
<1>6. reviews' = [reviews EXCEPT ![d] = r]
  BY <1>1
<1> HIDE DEF r
<1>7. /\ reviews' \in Seq(Review) /\ Len(reviews') = Len(reviews) /\ Len(reviews) \in Nat
      /\ \A i \in 1..Len(reviews) : reviews'[i] = IF i = d THEN r ELSE reviews[i]
  BY <1>3, <1>4, <1>6, ExceptSeq, LenProperties
<1>8. \A i \in 1..Len(reviews') : Said(host, reviews'[i])
  BY <1>3, <1>4, <1>7
<1>9. stood' \in [People -> SUBSET {"none", "approve", "block"}]
  BY <1>1, <1>2, <1>7, NotesKeep
<1>10. late' \in SUBSET People /\ late \subseteq late'
  BY <1>1, <1>2 DEF ReviewsTyped
<1>11. ReviewsTyped'
  BY <1>1, <1>2, <1>7, <1>8, <1>9, <1>10 DEF ReviewsTyped
<1>12. ASSUME call.at # "idle"
       PROVE  Moves(host, reviews, asked, stood, late, reviews', asked', stood', late')
  <2>0. call.at \in {"list", "pr"}
    BY <1>1, <1>2, <1>12 DEF Notes, ReviewsTyped, Calls
  <2>1. /\ Len(reviews) <= Len(reviews') /\ SameWords(reviews, reviews', Len(reviews))
        /\ \A i \in 1..Len(reviews) : reviews[i].dismissed => reviews'[i].dismissed
    BY <1>3, <1>7 DEF SameWords
  <2>2. \A p \in People : stood'[p] = stood[p] \cup {Stance(reviews', asked', p)}
    BY <1>1, <1>2, <1>7, <1>12, NotesKeep
  <2>3. \A p \in People : Pardoned(host, reviews, late, p) => Pardoned(host, reviews', late', p)
    BY <1>7, <1>10, <2>1 DEF Pardoned, SameWords
  <2>4. ASSUME NEW p \in asked, NEW i \in 1..Len(reviews), reviews[i].who = p, reviews'[i].dismissed, ~reviews[i].dismissed
        PROVE  Pardoned(host, reviews', late', p)
    <3>1. i = d
      BY <1>7, <2>4
    <3>2. p \in late'
      BY <1>1, <2>0, <2>4, <3>1
    <3>3. host = "github"
      BY <1>2, <2>4 DEF ReviewsTyped
    <3> QED
      BY <3>2, <3>3 DEF Pardoned
  <2> QED
    BY <2>1, <2>2, <2>3, <2>4 DEF Moves
<1>13. \A p : Silent(reviews', p, Len(reviews), Len(reviews'))
  BY <1>7 DEF Silent
<1> QED
  BY <1>1, <1>11, <1>12, <1>13, GoesOn DEF Notes

LEMMA AskKeeps == ReviewsInv /\ AskReview => ReviewsInv'
<1> SUFFICES ASSUME ReviewsInv, AskReview PROVE ReviewsInv'
  OBVIOUS
<1>1. /\ host = "github" /\ UNCHANGED <<reviews, host, cap, assigned, call, out, late>> /\ Notes
      /\ \E p \in People : asked' = IF p \in asked THEN asked \ {p} ELSE asked \cup {p}
  BY DEF AskReview
<1>2. ReviewsTyped
  BY DEF ReviewsInv
<1>3. stood' \in [People -> SUBSET {"none", "approve", "block"}]
  BY <1>1, <1>2, NotesKeep DEF ReviewsTyped
<1>4. asked' \in SUBSET People
  BY <1>1, <1>2 DEF ReviewsTyped
<1>5. ReviewsTyped'
  BY <1>1, <1>2, <1>3, <1>4 DEF ReviewsTyped
<1>6. Len(reviews) \in Nat
  BY <1>2, LenProperties DEF ReviewsTyped
<1>7. ASSUME call.at # "idle"
      PROVE  Moves(host, reviews, asked, stood, late, reviews', asked', stood', late')
  <2>1. \A p \in People : stood'[p] = stood[p] \cup {Stance(reviews', asked', p)}
    BY <1>1, <1>2, <1>7, NotesKeep DEF ReviewsTyped
  <2>2. \A p : Pardoned(host, reviews', late', p) <=> Pardoned(host, reviews, late, p)
    BY <1>1
  <2>3. \A i \in 1..Len(reviews) : reviews'[i].dismissed <=> reviews[i].dismissed
    BY <1>1
  <2>4. Len(reviews) <= Len(reviews') /\ SameWords(reviews, reviews', Len(reviews))
    BY <1>1, <1>6 DEF SameWords
  <2> QED
    BY <2>1, <2>2, <2>3, <2>4 DEF Moves
<1>8. \A p : Silent(reviews', p, Len(reviews), Len(reviews'))
  BY <1>1, <1>6 DEF Silent
<1> QED
  BY <1>1, <1>5, <1>7, <1>8, GoesOn DEF Notes

LEMMA AssignKeeps == ReviewsInv /\ Assign => ReviewsInv'
<1> SUFFICES ASSUME ReviewsInv, Assign PROVE ReviewsInv'
  OBVIOUS
<1>1. /\ UNCHANGED <<host, cap, reviews, asked, call, stood, out, late>> /\ call.at # "done"
      /\ \E p \in People : assigned' = assigned \cup {p}
  BY DEF Assign
<1>2. ReviewsTyped'
  BY <1>1 DEF ReviewsInv, ReviewsTyped
<1>3. UNCHANGED <<Down(host, cap, call), Cut(host, call)>>
  BY <1>1 DEF Down, Cut
<1> QED
  BY <1>1, <1>2, <1>3 DEF ReviewsInv, StanceHeld

LEMMA GetApprovalsKeeps == ReviewsInv /\ GetApprovals => ReviewsInv'
<1> SUFFICES ASSUME ReviewsInv, GetApprovals PROVE ReviewsInv'
  OBVIOUS
<1>1. /\ call' = [NoCall EXCEPT !.at = "list"] /\ stood' = [p \in People |-> {Stance(reviews, asked, p)}] /\ late' = {}
      /\ UNCHANGED <<host, cap, reviews, asked, assigned, out>>
  BY DEF GetApprovals
<1>2. ReviewsTyped
  BY DEF ReviewsInv
<1>3. call'.at = "list" /\ call'.page = 1 /\ call'.yes = {} /\ call'.no = {} /\ call' \in Calls
  <2>1. call' = [at |-> "list", page |-> 1, yes |-> {}, no |-> {}, cut |-> FALSE, blind |-> FALSE]
    BY <1>1 DEF NoCall
  <2> QED
    BY <2>1 DEF Calls
<1>4. \A p \in People : Stance(reviews, asked, p) \in {"none", "approve", "block"}
  <2>1. reviews \in Seq(Review)
    BY <1>2 DEF ReviewsTyped
  <2> QED
    BY <2>1, StanceIs
<1>5. ReviewsTyped'
  BY <1>1, <1>2, <1>3, <1>4 DEF ReviewsTyped
<1>6. Len(reviews) \in Nat
  BY <1>2, LenProperties DEF ReviewsTyped
<1>7. Down(host', cap', call') = 0
  BY <1>1, <1>2, <1>3 DEF Down, ReviewsTyped
<1>8. ASSUME NEW k PROVE ListRight(host', reviews', asked', stood', late', 0, {}, k)
  BY DEF ListRight, LastSaid, Newest
<1>9. \A p \in People : Stance(reviews', asked', p) \in stood'[p]
  BY <1>1
<1>10. Down(host', cap', call') <= Len(reviews')
  BY <1>1, <1>6, <1>7
<1>11. \A k : /\ ListRight(host', reviews', asked', stood', late', Down(host', cap', call'), call'.yes, k)
              /\ ListRight(host', reviews', asked', stood', late', Down(host', cap', call'), call'.no, k)
  BY <1>3, <1>7, <1>8, Zenon
<1> QED
  BY <1>3, <1>5, <1>9, <1>10, <1>11 DEF ReviewsInv, StanceHeld

LEMMA ListFailsKeeps == ReviewsInv /\ ListFails => ReviewsInv'
<1> SUFFICES ASSUME ReviewsInv, ListFails PROVE ReviewsInv'
  OBVIOUS
<1>1. call' = NoCall /\ UNCHANGED <<host, cap, reviews, asked, assigned, stood, out, late>>
  BY DEF ListFails, Reading
<1>2. call'.at = "idle" /\ call' \in Calls
  BY <1>1 DEF NoCall, Calls
<1> QED
  BY <1>1, <1>2 DEF ReviewsInv, ReviewsTyped, StanceHeld

LEMMA GetPullRequestKeeps == ReviewsInv /\ GetPullRequest => ReviewsInv'
<1> SUFFICES ASSUME ReviewsInv, GetPullRequest PROVE ReviewsInv'
  OBVIOUS
<1> DEFINE gone == IF host = "github" THEN asked ELSE assigned
<1>1. /\ call.at = "pr" /\ UNCHANGED <<host, cap, reviews, asked, assigned, stood, late>>
      /\ \/ /\ call' = [call EXCEPT !.at = "done", !.yes = call.yes \ gone, !.no = call.no \ gone]
            /\ out' = IF host = "github" THEN {} ELSE gone
         \/ call' = [call EXCEPT !.at = "done", !.blind = TRUE] /\ UNCHANGED out
  BY DEF GetPullRequest
<1>2. ReviewsTyped
  BY DEF ReviewsInv
<1>3. gone \in SUBSET People /\ call \in Calls
  BY <1>2 DEF ReviewsTyped
<1>4. /\ host \in {"github", "gitlab", "gitea"}
      /\ ReadRight(host, reviews, asked, stood, late, Cut(host, call), call.yes, "approve")
      /\ ReadRight(host, reviews, asked, stood, late, Cut(host, call), call.no, "block")
      /\ \A p \in People : Stance(reviews, asked, p) \in stood[p]
  BY <1>1 DEF ReviewsInv
\* Whom GitHub waits for stood otherwise at least once.
<1>5. ASSUME NEW p \in People, NEW k \in {"approve", "block"}, stood[p] = {k} PROVE p \notin asked
  <2>1. Stance(reviews, asked, p) = k
    BY <1>4, <1>5
  <2> QED
    BY <1>2, <2>1, StandsSo DEF ReviewsTyped
<1>6. /\ call'.at = "done" /\ call'.cut = call.cut /\ call' \in Calls /\ out' \in SUBSET People
      /\ \/ call'.yes = call.yes \ gone /\ call'.no = call.no \ gone /\ out' = IF host = "github" THEN {} ELSE gone
         \/ call'.yes = call.yes /\ call'.no = call.no /\ call'.blind
  <2>1. CASE /\ call' = [call EXCEPT !.at = "done", !.yes = call.yes \ gone, !.no = call.no \ gone]
             /\ out' = IF host = "github" THEN {} ELSE gone
    <3> DEFINE yes == call.yes \ gone
               no == call.no \ gone
    <3>1. yes \in SUBSET People /\ no \in SUBSET People /\ call' = [call EXCEPT !.at = "done", !.yes = yes, !.no = no]
      BY <1>3, <2>1 DEF Calls
    <3> HIDE DEF yes, no
    <3>2. call'.at = "done" /\ call'.cut = call.cut /\ call' \in Calls /\ call'.yes = yes /\ call'.no = no
      BY <1>3, <3>1 DEF Calls
    <3>3. out' \in SUBSET People
      BY <1>3, <2>1
    <3> QED
      BY <2>1, <3>2, <3>3 DEF yes, no
  <2>2. CASE call' = [call EXCEPT !.at = "done", !.blind = TRUE] /\ UNCHANGED out
    BY <1>2, <1>3, <2>2 DEF Calls, ReviewsTyped
  <2> QED
    BY <1>1, <2>1, <2>2
<1>7. ReviewsTyped'
  BY <1>1, <1>2, <1>6 DEF ReviewsTyped
<1>8. \A p \in People : Pardoned(host, reviews, late, p) \/ Cut(host, call) => Excused(p)'
  BY <1>1, <1>6 DEF Pardoned, Cut, Excused
<1>9. call'.blind /\ host = "github" => \A p \in People : Excused(p)'
  BY <1>1 DEF Excused
<1> HIDE DEF gone
<1>10. /\ \A p \in People : /\ p \in call'.yes => p \in call.yes /\ (p \in asked => call'.blind /\ host = "github")
                            /\ p \in call'.no  => p \in call.no /\ (p \in asked => call'.blind /\ host = "github")
                            /\ p \notin asked /\ p \in call.yes => p \in call'.yes \cup out'
                            /\ p \notin asked /\ p \in call.no => p \in call'.no \cup out'
  BY <1>2, <1>6 DEF gone, ReviewsTyped
<1>11. ASSUME NEW p \in People
       PROVE  /\ p \in call'.yes => "approve" \in stood'[p] \/ Excused(p)'
              /\ p \in call'.no => "block" \in stood'[p] \/ Excused(p)'
              /\ stood'[p] = {"approve"} => p \in call'.yes \cup out' \/ Excused(p)'
              /\ stood'[p] = {"block"} => p \in call'.no \cup out' \/ Excused(p)' \/ host' \in {"gitlab", "bitbucket"}
  <2>1. /\ p \in call.yes => "approve" \in stood[p] \/ Pardoned(host, reviews, late, p) \/ Cut(host, call) \/ p \in asked
        /\ stood[p] = {"approve"} => p \in call.yes \/ Pardoned(host, reviews, late, p) \/ Cut(host, call)
    BY <1>4 DEF ReadRight, Untold
  <2>2. /\ p \in call.no => "block" \in stood[p] \/ Pardoned(host, reviews, late, p) \/ Cut(host, call) \/ p \in asked
        /\ stood[p] = {"block"} => p \in call.no \/ Pardoned(host, reviews, late, p) \/ Cut(host, call)
                                   \/ host \in {"gitlab", "bitbucket"}
    BY <1>4 DEF ReadRight, Untold
  <2> QED
    BY <1>1, <1>5, <1>8, <1>9, <1>10, <2>1, <2>2
<1>12. StanceHeld'
  BY <1>11 DEF StanceHeld
<1> QED
  BY <1>1, <1>4, <1>6, <1>7, <1>12 DEF ReviewsInv

\* A page more, down to place m
LEMMA PageRead ==
  ASSUME NEW l \in Seq(Review), NEW w, NEW st, NEW lt, NEW h \in {"github", "gitea"}, NEW n \in Nat, NEW m \in Nat,
         n <= m, m <= Len(l), NEW Y, NEW Z, NEW k \in {"approve", "block"}, ListRight(h, l, w, st, lt, n, Y, k),
         \A p \in People : /\ Stance(l, w, p) \in st[p]
                           /\ Silent(l, p, n, m) => (p \in Z <=> p \in Y)
                           /\ \A i \in Nat : n < i /\ Newest(l, p, m, i) => (p \in Z <=> Heard(h, l[i]) = k)
  PROVE  ListRight(h, l, w, st, lt, m, Z, k)
<1> DEFINE b == Len(l)
<1>0. b \in Nat /\ m <= b
  BY LenProperties
<1>1. ASSUME NEW i \in 1..b PROVE l[i].dismissed \in BOOLEAN
  <2>1. l[i] \in Review
    BY <1>1, ElementOfSeq
  <2> QED
    BY <2>1 DEF Review
<1>2. ASSUME NEW p \in People, NEW i \in Nat, Newest(l, p, m, i)
      PROVE  /\ i \in 1..b
             /\ i <= n => Newest(l, p, n, i) /\ Silent(l, p, n, m)
             /\ Silent(l, p, m, b) => Newest(l, p, b, i)
  BY <1>0, <1>2 DEF Newest, Silent
<1>3. ASSUME NEW p \in People, p \in Z
      PROVE  \E i \in Nat : /\ LastSaid(l, p, m, k, i)
                            /\ k \in st[p] \/ Pardoned(h, l, lt, p) \/ ~Silent(l, p, m, b) \/ (p \in w /\ ~l[i].dismissed)
  <2>1. CASE Silent(l, p, n, m)
    <3>1. PICK i \in Nat : /\ LastSaid(l, p, n, k, i)
                           /\ k \in st[p] \/ Pardoned(h, l, lt, p) \/ ~Silent(l, p, n, b) \/ (p \in w /\ ~l[i].dismissed)
      BY <1>3, <2>1 DEF ListRight
    <3>2. LastSaid(l, p, m, k, i)
      BY <2>1, <3>1 DEF LastSaid, Newest, Silent
    <3>3. Silent(l, p, m, b) => Silent(l, p, n, b)
      BY <1>0, <2>1 DEF Silent
    <3> QED
      BY <3>1, <3>2, <3>3
  <2>2. CASE ~Silent(l, p, n, m)
    <3>1. ~Silent(l, p, 0, m)
      BY <2>2 DEF Silent
    <3>2. PICK i \in Nat : Newest(l, p, m, i)
      BY <3>1, NewestIs
    <3>3. n < i /\ i \in 1..b
      BY <1>2, <2>2, <3>2
    <3>4. Heard(h, l[i]) = k
      BY <1>3, <3>2, <3>3
    <3>5. l[i].dismissed \in BOOLEAN
      BY <1>1, <3>3
    <3>6. Meaning(l[i].says) = k /\ (h = "github" => ~l[i].dismissed)
      BY <3>4, <3>5 DEF Heard
    <3>7. LastSaid(l, p, m, k, i)
      BY <3>2, <3>6 DEF LastSaid
    <3>8. Silent(l, p, m, b) => LastSaid(l, p, b, k, i)
      BY <1>2, <3>2, <3>6 DEF LastSaid
    <3>9. Silent(l, p, m, b) /\ p \notin w /\ ~l[i].dismissed => Stance(l, w, p) = k
      BY <3>8, StandsSo
    <3>10. l[i].dismissed => Pardoned(h, l, lt, p)
      BY <3>2, <3>3, <3>6 DEF Pardoned, Newest, Speaks
    <3> QED
      BY <3>5, <3>7, <3>9, <3>10
  <2> QED
    BY <2>1, <2>2
<1>4. ASSUME NEW p \in People, NEW i \in Nat, LastSaid(l, p, m, k, i), ~l[i].dismissed PROVE p \in Z
  <2>1. Newest(l, p, m, i) /\ Meaning(l[i].says) = k
    BY <1>4 DEF LastSaid
  <2>2. CASE n < i
    BY <1>4, <2>1, <2>2 DEF Heard
  <2>3. CASE i <= n
    BY <1>2, <1>4, <2>1, <2>3 DEF LastSaid, ListRight
  <2> QED
    BY <2>2, <2>3
<1> QED
  BY <1>3, <1>4 DEF ListRight

\* The last page read
LEMMA ListEnds ==
  ASSUME NEW l \in Seq(Review), NEW w, NEW st, NEW lt, NEW h, NEW u \in BOOLEAN, NEW m \in Nat, u \/ m = Len(l),
         NEW Y, NEW k \in {"approve", "block"}, ListRight(h, l, w, st, lt, m, Y, k),
         \A p \in People : Stance(l, w, p) \in st[p]
  PROVE  ReadRight(h, l, w, st, lt, u, Y, k)
<1>1. CASE u
  BY <1>1 DEF ReadRight
<1>2. CASE m = Len(l)
  <2>1. \A p : Silent(l, p, m, Len(l))
    BY <1>2 DEF Silent
  <2>2. ASSUME NEW p \in People, st[p] = {k} PROVE p \in Y
    <3>1. Stance(l, w, p) = k
      BY <2>2
    <3>2. PICK i \in Nat : LastSaid(l, p, Len(l), k, i) /\ ~l[i].dismissed
      BY <3>1, StandsSo
    <3> QED
      BY <1>2, <3>2 DEF ListRight
  <2> QED
    BY <1>2, <2>1, <2>2 DEF ListRight, ReadRight
<1> QED
  BY <1>1, <1>2

LEMMA ListReviewsKeeps == ReviewsInv /\ ListReviews => ReviewsInv'
<1> SUFFICES ASSUME ReviewsInv, ListReviews PROVE ReviewsInv'
  OBVIOUS
<1> DEFINE size == IF host = "gitea" THEN cap ELSE Page
           last == size * call.page
           b == Len(reviews)
           upto == IF last < b THEN last ELSE b
           more == IF host = "gitea" THEN upto - (last - size) = Page ELSE last < b
           read == Replay(call, last - size, upto)
<1>1. /\ call.at = "list" /\ host \in {"github", "gitea"}
      /\ UNCHANGED <<host, cap, reviews, asked, assigned, stood, out, late>>
      /\ call' = IF more THEN [read EXCEPT !.page = read.page + 1] ELSE [read EXCEPT !.at = "pr", !.cut = last < b]
  BY DEF ListReviews, Reading
<1>2. ReviewsTyped
  BY DEF ReviewsInv
<1>3. /\ reviews \in Seq(Review) /\ call \in Calls /\ b \in Nat /\ call.page \in Nat \ {0}
      /\ size \in Nat \ {0} /\ size <= Page /\ (host = "github" => size = Page) /\ Page \in Nat
  BY <1>2, LenProperties DEF ReviewsTyped, Calls
<1>4. \A x \in Nat, y \in Nat \ {0} : x * (y - 1) \in Nat /\ x * (y - 1) = x * y - x /\ x * ((y + 1) - 1) = x * y
  OBVIOUS
<1>5. Down(host, cap, call) = size * (call.page - 1)
  BY <1>1 DEF Down
<1> DEFINE n == last - size
<1>6. n \in Nat /\ last \in Nat /\ n = Down(host, cap, call) /\ last = n + size
  BY <1>3, <1>4, <1>5
<1>7. n <= b
  BY <1>1, <1>6 DEF ReviewsInv
<1> HIDE DEF size, last, n
<1>0. host \in {"github", "gitea"}
  BY <1>1
<1>8. upto \in Nat /\ n <= upto /\ upto <= b /\ (more => upto = last) /\ (~more => (host = "gitea" /\ last < b) \/ upto = b)
  BY <1>0, <1>3, <1>6, <1>7
<1>9. \A i \in 1..b : Fit(reviews[i])
  BY <1>1, <1>2 DEF ReviewsTyped, Said, Fit
<1>10. read = Replay(call, n, upto)
  BY DEF n
<1> HIDE DEF read
<1>11. ReadOf(host, reviews, call, read, n, upto)
  <2> HIDE DEF upto
  <2>1. ReadOf(host, reviews, call, Replay(call, n, upto), n, upto)
    BY <1>3, <1>6, <1>8, <1>9, ReplayMeans
  <2> QED
    BY <1>10, <2>1
<1>12. read \in Calls /\ read.at = "list" /\ read.page = call.page
  BY <1>1, <1>11 DEF ReadOf
<1>13. \A p \in People : Stance(reviews, asked, p) \in stood[p]
  BY <1>1 DEF ReviewsInv
<1>14. /\ ListRight(host, reviews, asked, stood, late, upto, read.yes, "approve")
       /\ ListRight(host, reviews, asked, stood, late, upto, read.no, "block")
  <2>1. /\ ListRight(host, reviews, asked, stood, late, n, call.yes, "approve")
        /\ ListRight(host, reviews, asked, stood, late, n, call.no, "block")
    BY <1>1, <1>6 DEF ReviewsInv
  <2>2. \A p \in People :
          /\ Stance(reviews, asked, p) \in stood[p]
          /\ Silent(reviews, p, n, upto) => (p \in read.yes <=> p \in call.yes)
          /\ \A i \in Nat : n < i /\ Newest(reviews, p, upto, i) => (p \in read.yes <=> Heard(host, reviews[i]) = "approve")
    BY <1>11, <1>13 DEF ReadOf
  <2>3. \A p \in People :
          /\ Stance(reviews, asked, p) \in stood[p]
          /\ Silent(reviews, p, n, upto) => (p \in read.no <=> p \in call.no)
          /\ \A i \in Nat : n < i /\ Newest(reviews, p, upto, i) => (p \in read.no <=> Heard(host, reviews[i]) = "block")
    BY <1>11, <1>13 DEF ReadOf
  <2> HIDE DEF upto
  <2>4. ListRight(host, reviews, asked, stood, late, upto, read.yes, "approve")
    BY <1>1, <1>3, <1>6, <1>8, <2>1, <2>2, PageRead
  <2>5. ListRight(host, reviews, asked, stood, late, upto, read.no, "block")
    BY <1>1, <1>3, <1>6, <1>8, <2>1, <2>3, PageRead
  <2> QED
    BY <2>4, <2>5
<1> HIDE DEF upto, more
<1>15. CASE more
  <2>1. call' = [read EXCEPT !.page = read.page + 1]
    BY <1>1, <1>15
  <2>2. /\ call' \in Calls /\ call'.at = "list" /\ call'.page = call.page + 1
        /\ call'.yes = read.yes /\ call'.no = read.no
    BY <1>12, <2>1 DEF Calls
  <2>3. Down(host', cap', call') = last
    <3>1. Down(host', cap', call') = size * ((call.page + 1) - 1)
      BY <1>1, <2>2 DEF Down, size
    <3>2. size * ((call.page + 1) - 1) = size * call.page
      BY <1>3, <1>4
    <3> QED
      BY <3>1, <3>2 DEF last
  <2>4. ReviewsTyped'
    BY <1>1, <1>2, <2>2 DEF ReviewsTyped
  <2>5. /\ ListRight(host', reviews', asked', stood', late', Down(host', cap', call'), call'.yes, "approve")
        /\ ListRight(host', reviews', asked', stood', late', Down(host', cap', call'), call'.no, "block")
        /\ \A p \in People : Stance(reviews', asked', p) \in stood'[p]
    BY <1>1, <1>8, <1>13, <1>14, <1>15, <2>2, <2>3
  <2>6. Down(host', cap', call') <= Len(reviews')
    BY <1>1, <1>8, <1>15, <2>3
  <2> QED
    BY <2>2, <2>4, <2>5, <2>6 DEF ReviewsInv, StanceHeld
<1>16. CASE ~more
  <2> DEFINE short == last < b
  <2>0. short \in BOOLEAN
    OBVIOUS
  <2>1. call' = [read EXCEPT !.at = "pr", !.cut = short]
    BY <1>1, <1>16
  <2> HIDE DEF short
  <2>2. /\ call' \in Calls /\ call'.at = "pr" /\ call'.cut = short
        /\ call'.yes = read.yes /\ call'.no = read.no
    BY <1>12, <2>0, <2>1 DEF Calls
  <2>3. ReviewsTyped'
    BY <1>1, <1>2, <2>2 DEF ReviewsTyped
  <2>4. Cut(host, call') \in BOOLEAN /\ (Cut(host, call') \/ upto = b)
    BY <1>8, <1>16, <2>0, <2>2 DEF Cut, short
  <2>5. ReadRight(host, reviews, asked, stood, late, Cut(host, call'), read.yes, "approve")
    BY <1>3, <1>8, <1>13, <1>14, <2>4, ListEnds
  <2>6. ReadRight(host, reviews, asked, stood, late, Cut(host, call'), read.no, "block")
    BY <1>3, <1>8, <1>13, <1>14, <2>4, ListEnds
  <2>7. /\ ReadRight(host', reviews', asked', stood', late', Cut(host', call'), call'.yes, "approve")
        /\ ReadRight(host', reviews', asked', stood', late', Cut(host', call'), call'.no, "block")
        /\ \A p \in People : Stance(reviews', asked', p) \in stood'[p]
    BY <1>1, <1>13, <2>2, <2>5, <2>6
  <2> QED
    BY <1>1, <2>2, <2>3, <2>7 DEF ReviewsInv, StanceHeld
<1> QED
  BY <1>15, <1>16

LEMMA ListApproversKeeps == ReviewsInv /\ ListApprovers => ReviewsInv'
<1> SUFFICES ASSUME ReviewsInv, ListApprovers PROVE ReviewsInv'
  OBVIOUS
<1> DEFINE yes == Standing("approve")
           next == IF host = "gitlab" THEN "pr" ELSE "done"
<1>1. /\ call.at = "list" /\ host \in {"gitlab", "bitbucket"}
      /\ UNCHANGED <<host, cap, reviews, asked, assigned, stood, out, late>>
      /\ call' = [call EXCEPT !.yes = yes, !.at = next]
  BY DEF ListApprovers, Reading
<1>2. ReviewsTyped
  BY DEF ReviewsInv
<1>3. call \in Calls /\ reviews \in Seq(Review) /\ asked = {}
  BY <1>1, <1>2 DEF ReviewsTyped
<1>4. \A p \in People : p \in yes <=> Stance(reviews, asked, p) = "approve"
  BY <1>3 DEF Standing
<1>5. yes \in SUBSET People /\ next \in {"pr", "done"}
  BY DEF Standing
<1>6. \A p \in People : Stance(reviews, asked, p) \in stood[p] /\ p \notin call.no
  <2>1. Down(host, cap, call) = 0
    BY <1>1 DEF Down
  <2>2. ListRight(host, reviews, asked, stood, late, 0, call.no, "block")
    BY <1>1, <2>1 DEF ReviewsInv
  <2>3. \A p \in People : p \notin call.no
    BY <2>2 DEF ListRight, LastSaid, Newest
  <2> QED
    BY <1>1, <2>3 DEF ReviewsInv
<1> HIDE DEF yes, next
<1>7. call' \in Calls /\ call'.at = next /\ call'.yes = yes /\ call'.no = call.no
  BY <1>1, <1>3, <1>5 DEF Calls
<1>8. ReviewsTyped'
  BY <1>1, <1>2, <1>7 DEF ReviewsTyped
<1>9. CASE host = "gitlab"
  <2>1. /\ ReadRight(host, reviews, asked, stood, late, Cut(host, call'), yes, "approve")
        /\ ReadRight(host, reviews, asked, stood, late, Cut(host, call'), call.no, "block")
    BY <1>4, <1>6, <1>9 DEF ReadRight, Untold
  <2>2. /\ ReadRight(host', reviews', asked', stood', late', Cut(host', call'), call'.yes, "approve")
        /\ ReadRight(host', reviews', asked', stood', late', Cut(host', call'), call'.no, "block")
        /\ \A p \in People : Stance(reviews', asked', p) \in stood'[p]
    BY <1>1, <1>6, <1>7, <2>1
  <2>3. call'.at = "pr"
    BY <1>7, <1>9 DEF next
  <2>4. host' \in {"github", "gitlab", "gitea"}
    BY <1>1, <1>9
  <2> QED
    BY <1>8, <2>2, <2>3, <2>4 DEF ReviewsInv, StanceHeld
<1>10. CASE host = "bitbucket"
  <2>1. call'.at = "done"
    BY <1>7, <1>10 DEF next
  <2>2. StanceHeld'
    BY <1>1, <1>4, <1>6, <1>7, <1>10 DEF StanceHeld
  <2>3. \A p \in People : Stance(reviews', asked', p) \in stood'[p]
    BY <1>1, <1>6
  <2> QED
    BY <1>8, <2>1, <2>2, <2>3 DEF ReviewsInv
<1> QED
  BY <1>1, <1>9, <1>10

\* Who voted v last, on Gerrit, where nothing is dismissed and nobody asked
LEMMA LastVoteIs ==
  ASSUME ReviewsTyped, host = "gerrit", NEW p \in People
  PROVE  /\ LastVote(p, "approve") \/ LastVote(p, "recommend") <=> Stance(reviews, asked, p) = "approve"
         /\ LastVote(p, "block") \/ LastVote(p, "dislike") <=> Stance(reviews, asked, p) = "block"
<1>1. reviews \in Seq(Review) /\ DOMAIN reviews = 1..Len(reviews) /\ Len(reviews) \in Nat /\ p \notin asked
  BY LenProperties DEF ReviewsTyped
<1>2. CASE Stands(reviews, p) = {}
  BY <1>2 DEF LastVote, Stance
<1>3. CASE Stands(reviews, p) # {}
  <2>1. ~Silent(reviews, p, 0, Len(reviews))
    BY <1>1, <1>3 DEF Stands, Silent, Speaks
  <2>2. PICK i \in Nat : Newest(reviews, p, Len(reviews), i)
    BY <1>1, <2>1, NewestIs
  <2>4. i \in 1..Len(reviews) /\ ~reviews[i].dismissed
    BY <1>1, <2>2 DEF Newest, ReviewsTyped, Said
  <2>5. Stance(reviews, asked, p) = Meaning(reviews[i].says)
    BY <1>1, <2>2, <2>4, StanceIs
  <2> DEFINE said == reviews[i].says
  <2>6. \A v : LastVote(p, v) <=> said = v
    <3>1. Max(Stands(reviews, p)) = i
      BY <1>1, <2>2, NewestIsMax
    <3> QED
      BY <1>3, <3>1 DEF LastVote
  <2> HIDE DEF said
  <2>7. Stance(reviews, asked, p) = Meaning(said)
    BY <2>5 DEF said
  <2> QED
    BY <2>6, <2>7 DEF Meaning
<1> QED
  BY <1>2, <1>3

LEMMA ReadVotesKeeps == ReviewsInv /\ ReadVotes => ReviewsInv'
<1> SUFFICES ASSUME ReviewsInv, ReadVotes PROVE ReviewsInv'
  OBVIOUS
<1>1. /\ call.at = "list" /\ host = "gerrit"
      /\ UNCHANGED <<host, cap, reviews, asked, assigned, stood, out, late>>
  BY DEF ReadVotes, Reading
<1>2. PICK a \in SomeOf, r \in SomeOf, d \in SomeOf, b \in SomeOf :
        /\ Named("approve", a) /\ Named("recommend", r) /\ Named("dislike", d) /\ Named("block", b)
        /\ call' = [call EXCEPT !.yes = a \cup r, !.no = d \cup b, !.at = "done"]
  BY DEF ReadVotes
<1>3. ReviewsTyped
  BY DEF ReviewsInv
<1> DEFINE yes == a \cup r
           no == d \cup b
<1>4. yes \in SUBSET People /\ no \in SUBSET People /\ call \in Calls
  BY <1>3 DEF SomeOf, ReviewsTyped
<1>5. call' = [call EXCEPT !.yes = yes, !.no = no, !.at = "done"]
  BY <1>2
<1>6. \A p \in People : Stance(reviews, asked, p) \in stood[p]
  BY <1>1 DEF ReviewsInv
<1>7. Says \ {"withdrawn"} = {"approve", "recommend", "dislike", "block"}
  BY <1>1 DEF Says
<1>8. ASSUME NEW p \in People, NEW v \in {"approve", "recommend", "dislike", "block"}, NEW S \in SomeOf, Named(v, S)
      PROVE  /\ p \in S => LastVote(p, v)
             /\ LastVote(p, v) => p \in S \/ Shadowed(p)
  <2> DEFINE voters == {q \in People : LastVote(q, v)}
  <2>1. CASE voters = {}
    BY <1>8, <2>1 DEF Named
  <2>2. CASE voters # {}
    <3>1. PICK q \in voters : S = {q}
      BY <1>8, <2>2 DEF Named
    <3>2. LastVote(p, v) /\ p # q => Shadowed(p)
      BY <1>1, <1>7, <3>1 DEF Shadowed
    <3> QED
      BY <3>1, <3>2
  <2> QED
    BY <2>1, <2>2
<1>9. ASSUME NEW p \in People
      PROVE  /\ p \in yes => Stance(reviews, asked, p) = "approve"
             /\ p \in no => Stance(reviews, asked, p) = "block"
             /\ Stance(reviews, asked, p) = "approve" => p \in yes \/ Shadowed(p)
             /\ Stance(reviews, asked, p) = "block" => p \in no \/ Shadowed(p)
  <2>1. /\ p \in a => LastVote(p, "approve")
        /\ LastVote(p, "approve") => p \in a \/ Shadowed(p)
    BY <1>2, <1>8
  <2>2. /\ p \in r => LastVote(p, "recommend")
        /\ LastVote(p, "recommend") => p \in r \/ Shadowed(p)
    BY <1>2, <1>8
  <2>3. /\ p \in d => LastVote(p, "dislike")
        /\ LastVote(p, "dislike") => p \in d \/ Shadowed(p)
    BY <1>2, <1>8
  <2>4. /\ p \in b => LastVote(p, "block")
        /\ LastVote(p, "block") => p \in b \/ Shadowed(p)
    BY <1>2, <1>8
  <2>5. /\ LastVote(p, "approve") \/ LastVote(p, "recommend") <=> Stance(reviews, asked, p) = "approve"
        /\ LastVote(p, "block") \/ LastVote(p, "dislike") <=> Stance(reviews, asked, p) = "block"
    BY <1>1, <1>3, LastVoteIs
  <2> QED
    BY <2>1, <2>2, <2>3, <2>4, <2>5
<1> HIDE DEF yes, no
<1>10. call' \in Calls /\ call'.at = "done" /\ call'.yes = yes /\ call'.no = no
  BY <1>4, <1>5 DEF Calls
<1>11. ReviewsTyped'
  BY <1>1, <1>3, <1>10 DEF ReviewsTyped
<1>12. \A p \in People : Shadowed(p)' <=> Shadowed(p)
  BY <1>1 DEF Shadowed, Says, LastVote
<1>13. StanceHeld'
  <2>1. SUFFICES ASSUME NEW p \in People
                 PROVE  /\ p \in call'.yes => "approve" \in stood'[p]
                        /\ p \in call'.no => "block" \in stood'[p]
                        /\ stood'[p] = {"approve"} => p \in call'.yes \/ Shadowed(p)'
                        /\ stood'[p] = {"block"} => p \in call'.no \/ Shadowed(p)'
    BY DEF StanceHeld
  <2>2. stood[p] = {"approve"} => Stance(reviews, asked, p) = "approve"
    BY <1>6
  <2>3. stood[p] = {"block"} => Stance(reviews, asked, p) = "block"
    BY <1>6
  <2> QED
    BY <1>1, <1>6, <1>9, <1>10, <1>12, <2>2, <2>3
<1>14. \A p \in People : Stance(reviews', asked', p) \in stood'[p]
  BY <1>1, <1>6
<1> QED
  BY <1>10, <1>11, <1>13, <1>14 DEF ReviewsInv

LEMMA ReviewsInvInit == ReviewsInit => ReviewsInv
<1> SUFFICES ASSUME ReviewsInit PROVE ReviewsInv
  OBVIOUS
<1>1. /\ host \in Hosts /\ cap \in (IF host = "gitea" THEN Caps ELSE {Page})
      /\ reviews = <<>> /\ asked = {} /\ assigned = {} /\ call = NoCall
      /\ stood = [p \in People |-> {"none"}] /\ out = {} /\ late = {}
  BY DEF ReviewsInit
<1>2. call \in Calls /\ call.at = "idle"
  BY <1>1 DEF NoCall, Calls
<1>3. host \in {"github", "gitlab", "gitea", "bitbucket", "gerrit"} /\ Page \in Nat \ {0} /\ cap \in Nat \ {0} /\ cap <= Page
  BY <1>1, ReviewsAssumption
<1>4. reviews \in Seq(Review) /\ Len(reviews) = 0
  BY <1>1
<1>5. stood \in [People -> SUBSET {"none", "approve", "block"}]
  BY <1>1
<1>6. ReviewsTyped
  BY <1>1, <1>2, <1>3, <1>4, <1>5 DEF ReviewsTyped
<1> QED
  BY <1>1, <1>2, <1>6 DEF ReviewsInv, StanceHeld

LEMMA ReviewsInvRest == ReviewsInv /\ UNCHANGED reviewVars => ReviewsInv'
<1> SUFFICES ASSUME ReviewsInv, UNCHANGED reviewVars PROVE ReviewsInv'
  OBVIOUS
<1>1. UNCHANGED <<host, cap, reviews, asked, assigned, call, stood, out, late>>
  BY DEF reviewVars
<1>2. ReviewsTyped'
  BY <1>1 DEF ReviewsInv, ReviewsTyped
<1>3. UNCHANGED <<Down(host, cap, call), Cut(host, call)>>
  BY <1>1 DEF Down, Cut
<1>4. StanceHeld'
  BY <1>1 DEF ReviewsInv, StanceHeld, Excused, Shadowed, Says, LastVote
<1> QED
  BY <1>1, <1>2, <1>3, <1>4 DEF ReviewsInv

LEMMA ReviewsInvStep == ReviewsInv /\ ReviewsNext => ReviewsInv'
BY SubmitKeeps, DismissKeeps, AskKeeps, AssignKeeps, GetApprovalsKeeps, ListReviewsKeeps, ListApproversKeeps,
   ReadVotesKeeps, GetPullRequestKeeps, ListFailsKeeps DEF ReviewsNext

-----------------------------------------------------------------------------
\* The parts together

PlatformsInv == StaleInv /\ LabelInv /\ BuildInv /\ ReviewsInv

LEMMA PlatformsInvHolds == Spec => []PlatformsInv
<1>1. Init => PlatformsInv
  BY StaleInvInit, LabelInvInit, BuildInvInit, ReviewsInvInit DEF Init, PlatformsInv
<1>2. PlatformsInv /\ [Next]_<<staleVars, labelVars, reviewVars, buildVars, noticeVars, part>> => PlatformsInv'
  <2> SUFFICES ASSUME PlatformsInv, [Next]_<<staleVars, labelVars, reviewVars, buildVars, noticeVars, part>>
               PROVE  PlatformsInv'
    OBVIOUS
  <2>1. StaleNext \/ UNCHANGED staleVars
    BY DEF Next
  <2>2. LabelNext \/ UNCHANGED labelVars
    BY DEF Next
  <2>3. BuildNext \/ UNCHANGED buildVars
    BY DEF Next
  <2>4. ReviewsNext \/ UNCHANGED reviewVars
    BY DEF Next
  <2> QED
    BY <2>1, <2>2, <2>3, <2>4, StaleInvStep, StaleInvRest, LabelInvStep, LabelInvRest, BuildInvStep, BuildInvRest,
       ReviewsInvStep, ReviewsInvRest DEF PlatformsInv
<1> QED
  BY <1>1, <1>2, PTL DEF Spec

\* A check that has run alone closes a pull request only when it has been open with the label for the days the comment
\* gave it, and for days_until_close where the platform tells its updates, whatever people, other platforms and the
\* bots have done to it since the check listed it.
THEOREM WarnedBeforeCloseHolds == Spec => WarnedBeforeClose
<1>1. PlatformsInv => [\A k \in Checks : LET id == check[k].id IN
                         check[k].at = "close" /\ ~check[k].over /\ ~pr'[id].open =>
                           since[id] >= promised[id] /\ (id \in config.undated \/ since[id] >= config.close)]_staleVars
  BY ClosesWarned DEF PlatformsInv
<1> QED
  BY <1>1, PlatformsInvHolds, PTL DEF WarnedBeforeClose

\* However the calls of labeler, handlers and bots interleave with one another and with people, a label is on or off as it
\* was asked for last, but for those a GitLab client has set back with what it had read before.
THEOREM LabelsAddUpHolds == Spec => []LabelsAddUp
<1>1. PlatformsInv => LabelsAddUp
  BY LabelInvMeans DEF PlatformsInv
<1> QED
  BY <1>1, PlatformsInvHolds, PTL

\* The runs of HandlePROpened put on the labels of the rules down to the first exclusive one, and no others, however many
\* of them run at a time, unless a call of theirs failed.
THEOREM RulesAppliedHolds == Spec => []RulesApplied
<1>1. PlatformsInv => RulesApplied
  BY LabelInvMeans DEF PlatformsInv
<1> QED
  BY <1>1, PlatformsInvHolds, PTL

\* With CI required the commit merged has passed since the listing, unless it was pushed after it, or the platform lists
\* the newest of several first, or the answer was in doubt.
THEOREM LandedPassedHolds == Spec => []LandedPassed
<1>1. PlatformsInv => LandedPassed
  BY DEF PlatformsInv, BuildInv
<1> QED
  BY <1>1, PlatformsInvHolds, PTL

\* Whoever GetApprovals reports as approving or blocking stood so at some moment of the call, and who stood so all through
\* it is reported, however many reviews and pages there are and whatever people do meanwhile, but for what the clients are
\* known to get wrong.
THEOREM StanceHeldHolds == Spec => []StanceHeld
<1>1. PlatformsInv => StanceHeld
  BY DEF PlatformsInv, ReviewsInv
<1> QED
  BY <1>1, PlatformsInvHolds, PTL
=============================================================================
