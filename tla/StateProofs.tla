---------------------------- MODULE StateProofs -----------------------------
(****************************************************************************)
(* Proofs about Records, the second part: its other properties, each from the*)
(* invariant it needs.  Then those about the state kept in files, Config and*)
(* SelfUpdate, run by MCAdmin: for every set of administrators and of       *)
(* processes, every number of snapshots kept and every bound on what is     *)
(* begun, fails or is killed.                                               *)
(****************************************************************************)
EXTENDS RecordsProofs, MCAdmin, FiniteSetTheorems, SequenceTheorems, WellFoundedInduction, TLAPS

-----------------------------------------------------------------------------
\* A token is used once

\* The step after one that needs it
LEMMA NextTakes ==
  ASSUME TypeInv, NEW a \in Goroutines, Active(a), Passes(a), run'[a] # AtRest, NeedsAfter(Now(a))
  PROVE  LET s == run'[a].todo[1] IN
         /\ s = run[a].todo[2] /\ 2 \in DOMAIN run[a].todo /\ s \in AnyStep(driver) /\ Head(run'[a].todo) = s
         /\ Now(a).key = s.key /\ Takes(Now(a), s) /\ run'[a].key = run[a].key
<1> DEFINE q == run'[a]
<1>1. Onward(driver, run[a], q, <<>>, 2)
  BY DEF Passes
<1>2. run[a].todo \in Todos(driver) /\ Now(a) = run[a].todo[1]
  BY RunFacts
<1> HIDE DEF q
<1>3. 2 \in DOMAIN run[a].todo /\ q.todo[1] = run[a].todo[2] /\ Link(driver, run[a].todo[1], q.todo[1])
  BY <1>1, <1>2, NextStep
<1>4. q.todo # <<>> /\ q.todo \in Todos(driver) /\ q.key = run[a].key
  BY <1>1 DEF Onward
<1>5. q.todo[1] \in AnyStep(driver) /\ Head(q.todo) = q.todo[1]
  BY <1>4, TodoLens
<1> QED
  BY <1>2, <1>3, <1>4, <1>5 DEF Link, q

\* What a step does to tokens
TokenCopied(a, k) ==
  /\ TokenRead(Now(a)) /\ Key(a) = k /\ k \in DOMAIN db["tokens"] /\ db' = db
  /\ TokenDel(run'[a].todo[1]) /\ KeyOf(run'[a], run'[a].todo[1]) = k
TokenCounted(a) ==
  /\ UserWrite(Now(a)) /\ Passes(a) /\ "tokens" \notin run[a].touched /\ db'["tokens"] = db["tokens"]
  /\ resets' = [x \in Keys |-> resets[x] + (IF <<"tokens", x>> \in DOMAIN run[a].copy THEN 1 ELSE 0)]
TokenMoved(a) ==
  /\ \/ db'["tokens"] = db["tokens"]
     \/ Now(a).op = "new" /\ Now(a).t = "tokens" /\ DOMAIN db'["tokens"] = DOMAIN db["tokens"] \cup {Key(a)}
     \/ TokenDel(Now(a)) /\ Cut(db["tokens"], db'["tokens"], {Key(a)}) /\ OthersSame(a, {"tokens"})
  /\ TokenDel(Now(a)) => run'[a] = AtRest \/ Key(a) \notin DOMAIN db'["tokens"]
  /\ \A k \in Keys : <<"tokens", k>> \in DOMAIN run'[a].copy => <<"tokens", k>> \in DOMAIN run[a].copy \/ TokenCopied(a, k)
  /\ resets' = resets \/ TokenCounted(a)

\* An error, or a step that writes nothing: nothing is read
LEMMA StepOf ==
  ASSUME NEW a, Works(a)
  PROVE  /\ Now(a).op = "fresh" => FreshStep(a)
         /\ Now(a).op \in {"get", "free", "any"} => ReadStep(a)
         /\ Now(a).op = "take" => TakeStep(a)
         /\ Now(a).op \in Loops => EachStep(a)
         /\ Now(a).op \in {"unless", "again"} => UnlessStep(a)
         /\ Now(a).op \in {"put", "blank", "new"} => WriteStep(a)
         /\ Now(a).op = "touch" => TouchStep(a)
         /\ Now(a).op \in {"del", "purge", "purgeidle", "forget"} => DelStep(a)
         /\ Now(a).op = "fill" => FillStep(a)
         /\ Now(a).op = "send" => SendStep(a)
BY DEF Works, FreshStep, ReadStep, TakeStep, EachStep, UnlessStep, WriteStep, TouchStep, DelStep, FillStep, SendStep, InCopy, At, Loops, Branches

\* What was copied in a step was read in it.
LEMMA CopyReads ==
  ASSUME TypeInv, NEW a \in Goroutines, Worked(a), NEW t, NEW k, <<t, k>> \in DOMAIN run'[a].copy
  PROVE  \/ <<t, k>> \in DOMAIN run[a].copy
         \/ Now(a).op = "get" /\ Now(a).t = t /\ Key(a) = k
         \/ Now(a).op \in Loops /\ Now(a).t = t /\ k \in Listed(a)
BY DEF Worked, Reads

LEMMA FailsCopy ==
  ASSUME TypeInv, NEW a \in Goroutines, Fails(a)
  PROVE  DOMAIN run'[a].copy \subseteq DOMAIN run[a].copy
<1>1. Keeps(a, run[a].fresh, run[a].copy)
  BY FailFacts
<1> QED
  BY <1>1, KeepsCopy

LEMMA TokenMoves ==
  ASSUME TypeInv, NEW a \in Goroutines, Works(a) \/ Fails(a), Worked(a)
  PROVE  TokenMoved(a)
<1> DEFINE s == Now(a)
<1>1. Active(a) /\ s \in AnyStep(driver) /\ "tokens" \in Tables
  BY RunFacts, TableNames DEF Worked
<1>2. PlainShape(s) /\ IndexShape(driver, s) /\ OtherShape(s)
  BY <1>1, ShapeOf
<1>3. \/ db'["tokens"] = db["tokens"]
      \/ s.op = "new" /\ s.t = "tokens" /\ DOMAIN db'["tokens"] = DOMAIN db["tokens"] \cup {Key(a)}
      \/ TokenDel(s) /\ Cut(db["tokens"], db'["tokens"], {Key(a)}) /\ OthersSame(a, {"tokens"})
  <2>1. CASE Fails(a)
    BY <2>1, FailFacts DEF data
  <2>2. CASE Works(a)
    <3>1. s.t = "tokens" => s.op \in {"get", "new", "del"}
      BY <1>2 DEF OtherShape
    <3>2. s.op \in {"put", "blank", "new"} /\ "tokens" \in {s.t, s.via} => s.t = "tokens"
      BY <1>2 DEF PlainShape
    <3>3. Moved(a)
      BY <2>2, MovedFacts
    <3>4. \/ db'["tokens"] = db["tokens"]
          \/ s.op \in {"put", "blank", "new"} /\ "tokens" \in {s.t, s.via} /\ Grows("tokens", Key(a))
          \/ s.op = "del" /\ "tokens" = s.t /\ Cut(db["tokens"], db'["tokens"], {Key(a)})
      BY <1>1, <3>1, <3>3 DEF Moved
    <3>5. s.op = "del" => OthersSame(a, {s.t})
      <4> SUFFICES ASSUME s.op = "del" PROVE OthersSame(a, {s.t})
        OBVIOUS
      <4>1. DelStep(a)
        BY <2>2, StepOf
      <4> QED
        BY <4>1, DelFacts
    <3> QED
      BY <3>1, <3>2, <3>4, <3>5 DEF Grows, TokenDel
  <2> QED
    BY <2>1, <2>2
<1>4. TokenDel(s) => run'[a] = AtRest \/ Key(a) \notin DOMAIN db'["tokens"]
  <2> SUFFICES ASSUME TokenDel(s) PROVE run'[a] = AtRest \/ Key(a) \notin DOMAIN db'["tokens"]
    OBVIOUS
  <2>1. s.failed = "end"
    BY <1>2 DEF OtherShape, TokenDel
  <2>2. CASE Fails(a)
    BY <2>1, <2>2, FailFacts
  <2>3. CASE Works(a)
    BY <2>3, MovedFacts DEF Moved, TokenDel
  <2> QED
    BY <2>2, <2>3
<1>5. ASSUME NEW k \in Keys, <<"tokens", k>> \in DOMAIN run'[a].copy, <<"tokens", k>> \notin DOMAIN run[a].copy
      PROVE  TokenCopied(a, k)
  <2>1. Works(a)
    BY <1>5, FailsCopy
  <2>2. s.op \in {"get"} \cup Loops /\ s.t = "tokens" /\ (s.op = "get" => Key(a) = k)
    <3>1. "get" \notin Loops
      BY DEF Loops, Branches
    <3>2. (s.op = "get" /\ s.t = "tokens" /\ Key(a) = k) \/ (s.op \in Loops /\ s.t = "tokens")
      BY <1>5, CopyReads
    <3> QED
      BY <3>1, <3>2
  <2>3. s.op = "get" /\ s.failed = "end"
    BY <1>2, <2>2 DEF OtherShape, Loops, Branches
  <2>4. run'[a] # AtRest
    BY <1>5, RestFacts
  <2>5. Has(s.t, Key(a)) /\ RunOnly /\ Passes(a)
    BY <2>1, <2>3, <2>4, FoundFacts
  <2>6. TokenRead(s) /\ NeedsAfter(s)
    BY <2>2, <2>3 DEF TokenRead, NeedsAfter
  <2> DEFINE s1 == run'[a].todo[1]
             k1 == run'[a].key
  <2>7. s.key = s1.key /\ Takes(s, s1) /\ k1 = run[a].key
    BY <1>1, <2>4, <2>5, <2>6, NextTakes
  <2>8. TokenDel(s1)
    BY <2>6, <2>7 DEF Takes
  <2>9. KeyOf(run'[a], s1) = Key(a)
    <3> HIDE DEF s1
    <3>1. s1.t = "tokens" /\ s1.op = "del"
      BY <2>8 DEF TokenDel
    <3>2. s.t # "users" /\ s.op # "new" /\ s1.t # "users" /\ s1.op # "new"
      BY <2>2, <2>3, <3>1
    <3>3. Key(a) = IF s.key # 0 THEN s.key ELSE run[a].key
      BY <3>2 DEF Key, KeyOf
    <3>4. KeyOf(run'[a], s1) = IF s1.key # 0 THEN s1.key ELSE k1
      BY <3>2 DEF KeyOf
    <3> QED
      BY <2>7, <3>3, <3>4
  <2> QED
    BY <2>2, <2>3, <2>5, <2>6, <2>8, <2>9 DEF TokenCopied, Has, RunOnly, data
<1>6. resets' = resets \/ TokenCounted(a)
  <2>1. CASE s.op \in {"put", "blank", "new"} /\ Works(a)
    <3>1. WriteStep(a)
      BY <2>1, StepOf
    <3>2. resets' = IF s.t = "users" /\ "tokens" \notin run[a].touched
                    THEN [x \in Keys |-> resets[x] + (IF <<"tokens", x>> \in DOMAIN run[a].copy THEN 1 ELSE 0)]
                    ELSE resets
      BY <3>1, WriteFacts
    <3>3. Passes(a) /\ \A u \in Tables \ {s.t, s.via} : db'[u] = db[u]
      BY <3>1, WriteFacts
    <3>4. CASE s.t = "users"
      <4>1. s.op \in {"put", "blank"} /\ s.via = "users"
        BY <1>2, <2>1, <3>4 DEF OtherShape, PlainShape
      <4>2. db'["tokens"] = db["tokens"]
        BY <1>1, <3>3, <3>4, <4>1
      <4> QED
        BY <3>2, <3>3, <3>4, <4>1, <4>2 DEF TokenCounted, UserWrite
    <3> QED
      BY <3>2, <3>4
  <2>2. CASE Fails(a)
    BY <2>2, FailFacts DEF ghosts
  <2>3. CASE s.op \notin {"put", "blank", "new"} /\ Works(a)
    BY <2>3 DEF Works, FreshStep, ReadStep, TakeStep, EachStep, UnlessStep, WriteStep, TouchStep, DelStep, FillStep, SendStep, InCopy, At, ghosts
  <2> QED
    BY <2>1, <2>2, <2>3
<1> QED
  BY <1>3, <1>4, <1>5, <1>6 DEF TokenMoved

\* The parts of what holds of tokens
Reset(k)     == resets[k] = 1
TokenGone(a, k) == HoldsToken(a, k) => (TokenDel(Now(a)) /\ Key(a) = k) \/ k \notin DOMAIN db["tokens"]
NoUserWrite(s)  == \A i \in DOMAIN s : ~UserWrite(s[i])
TokenSpent(k) == Reset(k) => /\ k \in used /\ k \notin DOMAIN db["tokens"]
                             /\ \A a \in Goroutines : HoldsToken(a, k) => NoUserWrite(run[a].todo)
TokenOwned(k) == \A a, b \in Goroutines : HoldsToken(a, k) /\ HoldsToken(b, k) => a = b
HasToken(a)   == \/ \E k \in Keys : <<"tokens", k>> \in DOMAIN run[a].copy
                 \/ \E i \in DOMAIN run[a].todo : TokenRead(run[a].todo[i])
OneWrite(s)   == \A i, j \in DOMAIN s : UserWrite(s[i]) /\ UserWrite(s[j]) => i = j
TokenMade(b)  == /\ resets[run[b].fresh] = 0
                 /\ \A a \in Goroutines : <<"tokens", run[b].fresh>> \notin DOMAIN run[a].copy

LEMMA TokenParts ==
  TokenInv <=> /\ resets \in [Keys -> 0..1]
               /\ \A a \in Goroutines : \A k \in Keys : TokenGone(a, k)
               /\ \A k \in Keys : TokenSpent(k)
               /\ \A k \in Keys \ DOMAIN db["tokens"] : TokenOwned(k)
               /\ \A a \in Goroutines : HasToken(a) => OneWrite(run[a].todo)
               /\ \A b \in Goroutines : Pending(run[b], "tokens") => TokenMade(b)
BY DEF TokenInv, TokenGone, Reset, TokenSpent, NoUserWrite, TokenOwned, HasToken, OneWrite, TokenMade

\* The steps of a goroutine after its step that only handlers have for themselves
LEMMA OldSteps ==
  ASSUME TypeInv, NEW a \in Goroutines, Worked(a), NEW i \in DOMAIN run'[a].todo,
         run'[a].todo[i].t \in {"users", "tokens", "states", "prefs"}
  PROVE  \E j \in DOMAIN run[a].todo : j >= 2 /\ run'[a].todo[i] = run[a].todo[j]
<1>1. Active(a) /\ Advances(a)
  BY DEF Worked
<1>2. Lapping(a, run'[a].todo[i]) => run'[a].todo[i].t \notin {"users", "tokens", "states", "prefs"}
  BY LapFacts
<1> QED
  BY <1>1, <1>2, GoesSteps

\* Different steps of those were different steps before.
LEMMA OldApart ==
  ASSUME TypeInv, NEW a \in Goroutines, Worked(a), NEW i \in DOMAIN run'[a].todo, NEW j \in DOMAIN run'[a].todo, i # j,
         run'[a].todo[i].t \in {"users", "tokens", "states", "prefs"}, run'[a].todo[j].t \in {"users", "tokens", "states", "prefs"}
  PROVE  \E k, l \in DOMAIN run[a].todo : k # l /\ k >= 2 /\ l >= 2 /\ run'[a].todo[i] = run[a].todo[k] /\ run'[a].todo[j] = run[a].todo[l]
<1> DEFINE q == run'[a]
           r == run[a]
           T == {"users", "tokens", "states", "prefs"}
<1>1. Active(a) /\ Advances(a)
  BY DEF Worked
<1>2. q # AtRest
  BY RestFacts
<1>3. PICK X, n : Onward(driver, r, q, X, n) /\ Lapped(a, X)
  BY <1>1, <1>2 DEF Advances
<1>4. r.todo \in Todos(driver)
  BY <1>1, RunFacts
<1> HIDE DEF q
<1>5. /\ Len(X) \in Nat /\ DOMAIN X = 1..Len(X) /\ DOMAIN q.todo = 1..Len(q.todo)
      /\ \A m \in DOMAIN q.todo : \/ m \in DOMAIN X /\ q.todo[m] = X[m]
                                  \/ m > Len(X) /\ Was(X, n, m) \in n..Len(r.todo) /\ q.todo[m] = r.todo[Was(X, n, m)]
  BY <1>3, <1>4, OnwardSteps
<1>6. n \in 2..Len(r.todo) + 1 /\ Len(r.todo) \in Nat /\ DOMAIN r.todo = 1..Len(r.todo) /\ Len(q.todo) \in Nat
  <2>1. n \in 2..Len(r.todo) + 1 /\ q.todo \in Todos(driver)
    BY <1>3 DEF Onward
  <2> QED
    BY <1>4, <2>1, TodoLens
<1>7. \A m \in DOMAIN X : X[m].t \notin T
  <2>1. \A m \in DOMAIN X : Lapping(a, X[m])
    BY <1>3 DEF Lapped
  <2> QED
    BY <2>1, LapFacts
<1>8. i \in DOMAIN q.todo /\ j \in DOMAIN q.todo /\ q.todo[i].t \in T /\ q.todo[j].t \in T
  BY DEF q
<1> HIDE DEF T, r
<1>9. /\ Was(X, n, i) \in n..Len(r.todo) /\ q.todo[i] = r.todo[Was(X, n, i)]
      /\ Was(X, n, j) \in n..Len(r.todo) /\ q.todo[j] = r.todo[Was(X, n, j)]
  BY <1>5, <1>7, <1>8
<1>10. i \in Nat /\ j \in Nat
  BY <1>5, <1>6, <1>8
<1>11. Was(X, n, i) # Was(X, n, j)
  BY <1>5, <1>6, <1>10 DEF Was
<1> DEFINE k == Was(X, n, i)
           l == Was(X, n, j)
<1> HIDE DEF k, l
<1>12. k \in DOMAIN r.todo /\ l \in DOMAIN r.todo /\ k >= 2 /\ l >= 2
  BY <1>6, <1>9 DEF k, l
<1>13. k # l /\ q.todo[i] = r.todo[k] /\ q.todo[j] = r.todo[l]
  BY <1>9, <1>11 DEF k, l
<1> QED
  BY <1>12, <1>13 DEF q, r

\* New tokens are not next to another new record.
LEMMA TokenPending ==
  ASSUME NEW d, NEW r, r.todo \in Todos(d), Pending(r, "tokens")
  PROVE  r.todo # <<>> /\ r.todo[1].op = "new" /\ r.todo[1].t = "tokens" /\ NeedsBefore(d, r.todo[1])
<1>1. /\ r.todo # <<>> /\ r.todo[1].op = "new" /\ NeedsBefore(d, r.todo[1])
      /\ r.todo[1].t = "tokens" \/ (2 \in DOMAIN r.todo /\ r.todo[2].op = "new" /\ r.todo[2].t = "tokens")
  BY PendingShape
<1>2. Chain(d, r.todo) /\ DOMAIN r.todo = 1..Len(r.todo) /\ Len(r.todo) \in Nat
  BY TodoLens
<1>3. 2 \in DOMAIN r.todo /\ r.todo[2].op = "new" /\ r.todo[2].t = "tokens" => FALSE
  <2> SUFFICES ASSUME 2 \in DOMAIN r.todo, r.todo[2].op = "new", r.todo[2].t = "tokens" PROVE FALSE
    OBVIOUS
  <2>1. Link(d, r.todo[1], r.todo[2])
    <3>1. 2 \in 2..Len(r.todo) /\ 2 - 1 = 1
      BY <1>2
    <3>2. \A i \in 2..Len(r.todo) : Link(d, r.todo[i - 1], r.todo[i])
      BY <1>2 DEF Chain
    <3>3. Link(d, r.todo[2 - 1], r.todo[2])
      BY <3>1, <3>2
    <3> QED
      BY <3>1, <3>3
  <2>2. NeedsBefore(d, r.todo[2])
    BY DEF NeedsBefore
  <2> QED
    BY <1>1, <2>1, <2>2 DEF Link, Gives
<1> QED
  BY <1>1, <1>3

LEMMA HeldBefore ==
  ASSUME TypeInv, NEW a \in Goroutines, Worked(a), TokenMoved(a), NEW c \in Goroutines, NEW k \in Keys, HoldsToken(c, k)'
  PROVE  /\ HoldsToken(c, k) \/ (c = a /\ TokenCopied(a, k) /\ <<"tokens", k>> \notin DOMAIN run[a].copy)
         /\ run'[c] # AtRest /\ Active(c)
<1>1. Active(a) /\ OthersSame(a, {}) /\ Advances(a) /\ RunsTyped'
  BY DEF Worked
<1>2. <<"tokens", k>> \in DOMAIN run'[c].copy /\ "tokens" \notin run'[c].touched /\ run'[c] # AtRest
  BY RestFacts DEF HoldsToken
<1>3. CASE c # a
  <2>1. run'[c].copy = run[c].copy /\ run[c].touched \subseteq run'[c].touched
    BY <1>1, <1>3, OthersNext
  <2>2. HoldsToken(c, k)
    BY <1>2, <2>1 DEF HoldsToken
  <2>3. Active(c)
    BY <2>2, RestFacts DEF TypeInv, HoldsToken
  <2> QED
    BY <1>2, <2>2, <2>3
<1>4. CASE c = a
  <2>1. run[a].touched \subseteq run'[a].touched
    BY <1>1, <1>2, <1>4, GoesSteps
  <2>2. <<"tokens", k>> \in DOMAIN run[a].copy \/ TokenCopied(a, k)
    BY <1>2, <1>4 DEF TokenMoved
  <2> QED
    BY <1>1, <1>2, <1>4, <2>1, <2>2 DEF HoldsToken
<1> QED
  BY <1>3, <1>4

LEMMA TokenMakes ==
  ASSUME TypeInv, TokenInv, NEW a \in Goroutines, Active(a), TokenMoved(a), NEW k \in Keys, k \in DOMAIN db'["tokens"]
  PROVE  \/ k \in DOMAIN db["tokens"]
         \/ resets[k] = 0 /\ \A c \in Goroutines : ~HoldsToken(c, k)
<1>1. CASE Now(a).op = "new" /\ Now(a).t = "tokens" /\ DOMAIN db'["tokens"] = DOMAIN db["tokens"] \cup {Key(a)}
  <2>1. Pending(run[a], "tokens") /\ Key(a) = run[a].fresh
    BY <1>1, NewPending
  <2>2. TokenMade(a)
    BY <2>1, TokenParts
  <2> QED
    BY <1>1, <2>1, <2>2 DEF TokenMade, HoldsToken
<1>2. CASE db'["tokens"] = db["tokens"] \/ Cut(db["tokens"], db'["tokens"], {Key(a)})
  BY <1>2 DEF Cut
<1> QED
  BY <1>1, <1>2 DEF TokenMoved

LEMMA GoneWorks ==
  ASSUME TypeInv, TokenInv, NEW a \in Goroutines, Worked(a), TokenMoved(a), NEW c \in Goroutines, NEW k \in Keys
  PROVE  TokenGone(c, k)'
<1> SUFFICES ASSUME HoldsToken(c, k)' PROVE (TokenDel(Now(c)) /\ Key(c) = k)' \/ k \notin DOMAIN db'["tokens"]
  BY DEF TokenGone
<1>1. /\ HoldsToken(c, k) \/ (c = a /\ TokenCopied(a, k))
      /\ run'[c] # AtRest /\ Active(c)
  BY HeldBefore
<1>2. Active(a) /\ OthersSame(a, {}) /\ RunsTyped' /\ driver' = driver
  BY DEF Worked
<1>3. CASE TokenCopied(a, k) /\ c = a
  <2>1. TokenDel(run'[a].todo[1]) /\ KeyOf(run'[a], run'[a].todo[1]) = k
    BY <1>3 DEF TokenCopied
  <2>2. run'[a].todo # <<>> /\ Head(run'[a].todo) = run'[a].todo[1]
    <3>1. run'[a].todo \in Todos(driver)
      BY <1>2 DEF RunsTyped, IsRun
    <3>2. Active(a)'
      BY <1>1, <1>2, <1>3 DEF RunsTyped
    <3> QED
      BY <3>1, <3>2, TodoLens DEF Active
  <2> QED
    BY <1>3, <2>1, <2>2 DEF Now, Key
<1>4. CASE HoldsToken(c, k)
  <2>1. (TokenDel(Now(c)) /\ Key(c) = k) \/ k \notin DOMAIN db["tokens"]
    BY <1>4, TokenParts DEF TokenGone
  <2>2. CASE k \notin DOMAIN db["tokens"]
    BY <1>2, <1>4, <2>2, TokenMakes
  <2>3. CASE TokenDel(Now(c)) /\ Key(c) = k /\ c = a
    BY <1>1, <2>3 DEF TokenMoved
  <2>4. CASE TokenDel(Now(c)) /\ Key(c) = k /\ c # a
    <3>1. Now(c)' = Now(c) /\ Key(c)' = Key(c)
      BY <1>2, <2>4, OthersNext
    <3> QED
      BY <2>4, <3>1
  <2> QED
    BY <2>1, <2>2, <2>3, <2>4
<1> QED
  BY <1>1, <1>3, <1>4

LEMMA NoWriteStays ==
  ASSUME TypeInv, NEW a \in Goroutines, Worked(a), NEW c \in Goroutines, NoUserWrite(run[c].todo)
  PROVE  NoUserWrite(run'[c].todo)
<1>1. CASE c = a
  <2>1. \A i \in DOMAIN run'[a].todo : UserWrite(run'[a].todo[i]) => run'[a].todo[i].t \in {"users", "tokens", "states", "prefs"}
    BY DEF UserWrite
  <2> QED
    BY <1>1, <2>1, OldSteps DEF NoUserWrite
<1>2. CASE c # a
  <2>1. OthersSame(a, {})
    BY DEF Worked
  <2> QED
    BY <1>2, <2>1, OthersNext
<1> QED
  BY <1>1, <1>2

LEMMA SpentWorks ==
  ASSUME TypeInv, KeyInv, TokenInv, NEW a \in Goroutines, Worked(a), TokenMoved(a), NEW k \in Keys
  PROVE  TokenSpent(k)' /\ resets'[k] \in 0..1
<1>1. Active(a) /\ used \subseteq used' /\ run[a].todo \in Todos(driver) /\ Now(a) = run[a].todo[1] /\ run[a].todo # <<>>
  BY RunFacts DEF Worked, Refreshed
<1>2. TokenSpent(k) /\ resets \in [Keys -> 0..1]
  BY TokenParts
<1>3. CASE resets[k] = 1 /\ resets'[k] = 1
  <2>1. k \in used /\ k \notin DOMAIN db["tokens"] /\ \A c \in Goroutines : HoldsToken(c, k) => NoUserWrite(run[c].todo)
    BY <1>2, <1>3 DEF TokenSpent, Reset
  <2>2. k \notin DOMAIN db'["tokens"]
    BY <1>1, <1>3, <2>1, TokenMakes
  <2>3. ASSUME NEW c \in Goroutines, HoldsToken(c, k)' PROVE NoUserWrite(run'[c].todo)
    <3>1. HoldsToken(c, k)
      BY <2>1, <2>3, HeldBefore DEF TokenCopied
    <3> QED
      BY <2>1, <3>1, NoWriteStays
  <2> QED
    BY <1>1, <1>3, <2>1, <2>2, <2>3 DEF TokenSpent, Reset, NoUserWrite
<1>4. CASE resets'[k] # resets[k]
  <2>1. TokenCounted(a) /\ <<"tokens", k>> \in DOMAIN run[a].copy /\ resets'[k] = resets[k] + 1
    BY <1>2, <1>4 DEF TokenMoved, TokenCounted
  <2>2. HoldsToken(a, k) /\ UserWrite(Now(a))
    BY <2>1 DEF TokenCounted, HoldsToken
  <2>3. resets[k] # 1
    <3>1. 1 \in DOMAIN run[a].todo
      BY <1>1, TodoLens
    <3> QED
      BY <1>1, <1>2, <2>2, <3>1 DEF TokenSpent, Reset, NoUserWrite
  <2>4. resets[k] = 0 /\ resets'[k] = 1
    BY <1>2, <2>1, <2>3
  <2>5. k \notin DOMAIN db["tokens"] /\ db'["tokens"] = db["tokens"]
    <3>1. ~TokenDel(Now(a))
      BY <2>2 DEF UserWrite, TokenDel
    <3> QED
      BY <2>1, <2>2, <3>1, TokenParts DEF TokenGone, TokenCounted
  <2>6. k \in used
    <3>1. k \in used \cup {0}
      BY <2>1 DEF KeyInv
    <3> QED
      BY <3>1, KeysNat
  <2>7. OneWrite(run[a].todo)
    BY <2>1, TokenParts DEF HasToken
  <2>8. ASSUME NEW c \in Goroutines, HoldsToken(c, k)' PROVE NoUserWrite(run'[c].todo)
    <3>1. HoldsToken(c, k)
      BY <2>5, <2>8, HeldBefore DEF TokenCopied
    <3>2. c = a
      BY <2>2, <2>5, <3>1, TokenParts DEF TokenOwned
    <3>3. ASSUME NEW i \in DOMAIN run'[a].todo, UserWrite(run'[a].todo[i]) PROVE FALSE
      <4>1. run'[a].todo[i].t \in {"users", "tokens", "states", "prefs"}
        BY <3>3 DEF UserWrite
      <4>2. PICK j \in DOMAIN run[a].todo : j >= 2 /\ run'[a].todo[i] = run[a].todo[j]
        BY <4>1, OldSteps
      <4>3. 1 \in DOMAIN run[a].todo
        BY <1>1, TodoLens
      <4> QED
        BY <1>1, <2>2, <2>7, <3>3, <4>2, <4>3 DEF OneWrite
    <3> QED
      BY <3>2, <3>3 DEF NoUserWrite
  <2> QED
    BY <1>1, <2>4, <2>5, <2>6, <2>8 DEF TokenSpent, NoUserWrite
<1>5. resets[k] \in 0..1
  BY <1>2
<1>6. CASE resets'[k] = resets[k] /\ resets[k] # 1
  BY <1>5, <1>6 DEF TokenSpent, Reset
<1> QED
  BY <1>3, <1>4, <1>5, <1>6

LEMMA OwnedWorks ==
  ASSUME TypeInv, TokenInv, NEW a \in Goroutines, Worked(a), TokenMoved(a), NEW k \in Keys, k \notin DOMAIN db'["tokens"]
  PROVE  TokenOwned(k)'
<1>1. Active(a)
  BY DEF Worked
<1>2. ASSUME NEW c \in Goroutines, HoldsToken(c, k)'
      PROVE  HoldsToken(c, k) /\ Active(c)
  BY <1>2, HeldBefore DEF TokenCopied
<1>3. CASE k \notin DOMAIN db["tokens"]
  <2>1. TokenOwned(k)
    BY <1>3, TokenParts
  <2> QED
    BY <1>2, <2>1 DEF TokenOwned
<1>4. CASE k \in DOMAIN db["tokens"]
  <2>1. OthersSame(a, {"tokens"})
    BY <1>4 DEF TokenMoved
  <2>2. \A c \in Goroutines : HoldsToken(c, k)' => c = a
    <3> SUFFICES ASSUME NEW c \in Goroutines, HoldsToken(c, k)', c # a PROVE FALSE
      OBVIOUS
    <3>1. Active(c)
      BY <1>2
    <3>2. {"tokens"} \cap Asked \subseteq run'[c].touched
      BY <2>1, <3>1, OthersNext
    <3> QED
      BY <3>2 DEF Asked, HoldsToken
  <2> QED
    BY <2>2 DEF TokenOwned
<1> QED
  BY <1>3, <1>4

LEMMA WritesWorks ==
  ASSUME TypeInv, TokenInv, NEW a \in Goroutines, Worked(a), TokenMoved(a), NEW c \in Goroutines, HasToken(c)'
  PROVE  OneWrite(run'[c].todo)
<1>1. Active(a) /\ run[a].todo \in Todos(driver) /\ Now(a) = run[a].todo[1] /\ 1 \in DOMAIN run[a].todo
  BY RunFacts DEF Worked
<1>2. CASE c # a
  <2>1. OthersSame(a, {})
    BY DEF Worked
  <2>2. run'[c].todo = run[c].todo /\ run'[c].copy = run[c].copy
    BY <1>2, <2>1, OthersNext
  <2>3. HasToken(c)
    BY <2>2 DEF HasToken
  <2> QED
    BY <2>2, <2>3, TokenParts
<1>3. CASE c = a
  <2>1. HasToken(a)
    <3>1. CASE \E k \in Keys : <<"tokens", k>> \in DOMAIN run'[a].copy
      <4>1. PICK k \in Keys : <<"tokens", k>> \in DOMAIN run'[a].copy
        BY <3>1
      <4>2. <<"tokens", k>> \in DOMAIN run[a].copy \/ TokenCopied(a, k)
        BY <4>1 DEF TokenMoved
      <4> QED
        BY <1>1, <4>2 DEF HasToken, TokenCopied
    <3>2. CASE \E i \in DOMAIN run'[a].todo : TokenRead(run'[a].todo[i])
      <4>1. PICK i \in DOMAIN run'[a].todo : TokenRead(run'[a].todo[i])
        BY <3>2
      <4>2. run'[a].todo[i].t \in {"users", "tokens", "states", "prefs"}
        BY <4>1 DEF TokenRead
      <4>3. PICK j \in DOMAIN run[a].todo : run'[a].todo[i] = run[a].todo[j]
        BY <4>2, OldSteps
      <4> QED
        BY <4>1, <4>3 DEF HasToken
    <3> QED
      BY <1>3, <3>1, <3>2 DEF HasToken
  <2>2. OneWrite(run[a].todo)
    BY <2>1, TokenParts
  <2>3. ASSUME NEW i \in DOMAIN run'[a].todo, NEW j \in DOMAIN run'[a].todo, i # j,
               UserWrite(run'[a].todo[i]), UserWrite(run'[a].todo[j])
        PROVE  FALSE
    <3>1. run'[a].todo[i].t \in {"users", "tokens", "states", "prefs"} /\ run'[a].todo[j].t \in {"users", "tokens", "states", "prefs"}
      BY <2>3 DEF UserWrite
    <3>2. \E k, l \in DOMAIN run[a].todo : k # l /\ run'[a].todo[i] = run[a].todo[k] /\ run'[a].todo[j] = run[a].todo[l]
      BY <2>3, <3>1, OldApart
    <3> QED
      BY <2>2, <2>3, <3>2 DEF OneWrite
  <2> QED
    BY <1>3, <2>3 DEF OneWrite
<1> QED
  BY <1>2, <1>3

LEMMA MadeWorks ==
  ASSUME TypeInv, KeyInv, PendInv, TokenInv, NEW a \in Goroutines, Works(a) \/ Fails(a), Worked(a), TokenMoved(a),
         NEW b \in Goroutines, Pending(run'[b], "tokens")
  PROVE  TokenMade(b)'
<1>1. Active(a) /\ OthersSame(a, {}) /\ driver' = driver /\ RunsTyped'
  BY DEF Worked
<1>2. resets \in [Keys -> 0..1] /\ \A x \in Keys : TokenSpent(x)
  BY TokenParts
<1>3. CASE b # a
  <2>1. Pending(run[b], "tokens") /\ run'[b].fresh = run[b].fresh
    <3>1. Same(run[b], run'[b], {})
      BY <1>1, <1>3 DEF OthersSame
    <3> QED
      BY <3>1 DEF Same, Pending
  <2> DEFINE k == run[b].fresh
  <2>2. TokenMade(b) /\ k # 0 /\ k \notin DOMAIN db["tokens"]
    BY <2>1, TokenParts DEF PendInv, Made
  <2>3. k \in Keys
    <3>1. k \in Keys0
      BY DEF TypeInv, IsRun
    <3> QED
      BY <2>2, <3>1 DEF Keys0
  <2>4. resets'[k] = 0
    BY <1>2, <2>2, <2>3 DEF TokenMoved, TokenMade, TokenCounted
  <2>5. ASSUME NEW c \in Goroutines, <<"tokens", k>> \in DOMAIN run'[c].copy PROVE FALSE
    <3>1. <<"tokens", k>> \notin DOMAIN run[c].copy
      BY <2>2 DEF TokenMade
    <3>2. c = a
      BY <1>1, <2>5, <3>1, OthersNext
    <3> QED
      BY <2>2, <2>3, <2>5, <3>1, <3>2 DEF TokenMoved, TokenCopied
  <2> QED
    BY <2>1, <2>4, <2>5 DEF TokenMade
<1>4. CASE b = a
  <2>1. run'[a].todo \in Todos(driver)
    BY <1>1 DEF RunsTyped, IsRun
  <2>2. run'[a].todo # <<>> /\ run'[a].todo[1].op = "new" /\ run'[a].todo[1].t = "tokens" /\ NeedsBefore(driver, run'[a].todo[1])
    BY <1>4, <2>1, TokenPending
  <2>3. run'[a] # AtRest
    BY <2>2, RestFacts
  <2>4. Gives(driver, Now(a), run'[a].todo[1])
    BY <2>2, <2>3, NextNeeds
  <2>5. Now(a).op = "fresh"
    BY <2>2, <2>4 DEF Gives
  <2>6. FreshStep(a)
    <3>1. ~Fails(a)
      BY <2>5, FailFacts
    <3> QED
      BY <2>5, <3>1, StepOf
  <2>7. PICK k \in Keys \ used : Keeps(a, k, run[a].copy)
    BY <2>3, <2>6, FreshFacts
  <2>8. run'[a].fresh = k /\ run'[a].copy = run[a].copy
    BY <2>3, <2>7 DEF Keeps
  <2>9. resets' = resets
    BY <2>6 DEF FreshStep, ghosts
  <2>10. resets[k] = 0
    <3>1. resets[k] \in 0..1 /\ resets[k] # 1
      BY <1>2, <2>7 DEF TokenSpent, Reset
    <3> QED
      BY <3>1
  <2>11. ASSUME NEW c \in Goroutines PROVE <<"tokens", k>> \notin DOMAIN run'[c].copy
    <3>1. run'[c].copy = run[c].copy
      BY <1>1, <2>8, OthersNext
    <3>2. <<"tokens", k>> \in DOMAIN run[c].copy => k \in used \cup {0}
      BY DEF KeyInv
    <3> QED
      BY <2>7, <3>1, <3>2, KeysNat
  <2> QED
    BY <1>4, <2>8, <2>9, <2>10, <2>11 DEF TokenMade
<1> QED
  BY <1>3, <1>4

LEMMA TokenWorks ==
  ASSUME TypeInv, KeyInv, PendInv, TokenInv, NEW a \in Goroutines, Works(a) \/ Fails(a), Worked(a)
  PROVE  TokenInv'
<1>1. TokenMoved(a)
  BY TokenMoves
<1>2. resets' \in [Keys -> 0..1]
  <2>1. \A k \in Keys : resets'[k] \in 0..1
    BY <1>1, SpentWorks
  <2>2. resets' = [x \in Keys |-> resets'[x]]
    <3>1. resets \in [Keys -> 0..1]
      BY TokenParts
    <3> QED
      BY <1>1, <3>1 DEF TokenMoved, TokenCounted
  <2> QED
    BY <2>1, <2>2
<1>3. \A c \in Goroutines : \A k \in Keys : TokenGone(c, k)'
  BY <1>1, GoneWorks
<1>4. \A k \in Keys : TokenSpent(k)'
  BY <1>1, SpentWorks
<1>5. \A k \in Keys \ DOMAIN db'["tokens"] : TokenOwned(k)'
  BY <1>1, OwnedWorks
<1>6. \A c \in Goroutines : HasToken(c)' => OneWrite(run'[c].todo)
  BY <1>1, WritesWorks
<1>7. \A b \in Goroutines : Pending(run'[b], "tokens") => TokenMade(b)'
  BY <1>1, MadeWorks
<1>8. TokenInv' <=> /\ resets' \in [Keys -> 0..1]
                    /\ \A a_1 \in Goroutines : \A k \in Keys : TokenGone(a_1, k)'
                    /\ \A k \in Keys : TokenSpent(k)'
                    /\ \A k \in Keys \ DOMAIN db'["tokens"] : TokenOwned(k)'
                    /\ \A a_1 \in Goroutines : HasToken(a_1)' => OneWrite(run'[a_1].todo)
                    /\ \A b \in Goroutines : Pending(run'[b], "tokens") => TokenMade(b)'
  BY DEF TokenInv, TokenGone, Reset, TokenSpent, NoUserWrite, TokenOwned, HasToken, OneWrite, TokenMade
<1> QED
  BY <1>2, <1>3, <1>4, <1>5, <1>6, <1>7, <1>8

LEMMA NoneInit ==
  ASSUME Init
  PROVE  TokenInv
<1>1. \A a \in Goroutines : /\ run[a].todo = <<>> /\ DOMAIN run[a].todo = {} /\ DOMAIN run[a].copy = {}
  BY InitRuns
<1>2. resets = [k \in Keys |-> 0]
  BY InitRuns
<1>3. \A a \in Goroutines : ~Pending(run[a], "tokens")
  <2>1. Len(<<>>) = 0
    OBVIOUS
  <2> QED
    BY <1>1, <2>1 DEF Pending
<1> QED
  BY <1>1, <1>2, <1>3 DEF TokenInv, HoldsToken

LEMMA TokenCrash ==
  ASSUME TypeInv, KeyInv, TokenInv, Crash
  PROVE  TokenInv'
<1>1. /\ resets' = resets /\ used' = used /\ \A a \in Goroutines : run'[a] = AtRest
      /\ db'["tokens"] = db["tokens"]
  BY CrashFacts, TableNames DEF Memory
<1>2. \A a \in Goroutines : run'[a].todo = <<>> /\ DOMAIN run'[a].todo = {} /\ DOMAIN run'[a].copy = {} /\ ~Pending(run'[a], "tokens")
  <2>1. Len(<<>>) = 0
    OBVIOUS
  <2> QED
    BY <1>1, <2>1, RestFacts DEF Pending
<1>3. resets \in [Keys -> 0..1] /\ \A k \in Keys : resets[k] = 1 => k \in used /\ k \notin DOMAIN db["tokens"]
  BY DEF TokenInv
<1> QED
  BY <1>1, <1>2, <1>3 DEF TokenInv, HoldsToken

LEMMA TokenStarts ==
  ASSUME TypeInv, TokenInv, NEW a, StartStep(a)
  PROVE  TokenInv'
<1>1. /\ a \in Goroutines /\ OthersSame(a, {}) /\ db' = db /\ used' = used /\ resets' = resets /\ driver' = driver /\ RunsTyped'
  BY DEF StartStep, data, ghosts
<1>2. /\ DOMAIN run'[a].copy = {}
      /\ HasToken(a)' => OneWrite(run'[a].todo)
      /\ ~Pending(run'[a], "tokens")
  <2>1. CASE Active(a)'
    <3>1. Startable(driver, run'[a].todo) /\ DOMAIN run'[a].copy = {} /\ run'[a].todo \in Todos(driver)
          /\ (run'[a].todo[1].op = "take" \/ ~NeedsBefore(driver, run'[a].todo[1]))
      BY <2>1, StartFacts
    <3>2. TokenOnce(run'[a].todo)
      BY <3>1 DEF Startable
    <3>3. ~Pending(run'[a], "tokens")
      BY <3>1, TokenPending
    <3> QED
      BY <3>1, <3>2, <3>3 DEF TokenOnce, HasToken, OneWrite
  <2>2. CASE ~Active(a)'
    <3>1. run'[a] = AtRest
      BY <1>1, <2>2 DEF RunsTyped
    <3>2. Len(<<>>) = 0 /\ DOMAIN <<>> = {}
      OBVIOUS
    <3> QED
      BY <3>1, <3>2, RestFacts DEF OneWrite, Pending, HasToken
  <2> QED
    BY <2>1, <2>2
<1>3. \A c \in Goroutines \ {a} : /\ run'[c].todo = run[c].todo /\ run'[c].copy = run[c].copy /\ run'[c].fresh = run[c].fresh
                                  /\ run[c].touched \subseteq run'[c].touched /\ Now(c)' = Now(c) /\ Key(c)' = Key(c)
  BY <1>1, OthersNext
<1>4. \A c \in Goroutines : \A k \in Keys : HoldsToken(c, k)' => c # a /\ HoldsToken(c, k)
  BY <1>2, <1>3 DEF HoldsToken
<1>5. \A c \in Goroutines : \A k \in Keys : TokenGone(c, k)'
  BY <1>1, <1>3, <1>4, TokenParts DEF TokenGone
<1>6. \A k \in Keys : TokenSpent(k)'
  BY <1>1, <1>3, <1>4, TokenParts DEF TokenSpent, Reset
<1>7. \A k \in Keys \ DOMAIN db'["tokens"] : TokenOwned(k)'
  BY <1>1, <1>4, TokenParts DEF TokenOwned
<1>8. \A c \in Goroutines : HasToken(c)' => OneWrite(run'[c].todo)
  BY <1>1, <1>2, <1>3, TokenParts DEF HasToken
<1>9. ASSUME NEW b \in Goroutines, Pending(run'[b], "tokens") PROVE TokenMade(b)'
  <2>1. b # a
    BY <1>2, <1>9
  <2>2. Pending(run[b], "tokens")
    BY <1>3, <1>9, <2>1 DEF Pending
  <2> QED
    BY <1>1, <1>2, <1>3, <2>1, <2>2, TokenParts DEF TokenMade
<1>10. resets' \in [Keys -> 0..1]
  BY <1>1, TokenParts
<1>11. TokenInv' <=> /\ resets' \in [Keys -> 0..1]
                     /\ \A a_1 \in Goroutines : \A k \in Keys : TokenGone(a_1, k)'
                     /\ \A k \in Keys : TokenSpent(k)'
                     /\ \A k \in Keys \ DOMAIN db'["tokens"] : TokenOwned(k)'
                     /\ \A a_1 \in Goroutines : HasToken(a_1)' => OneWrite(run'[a_1].todo)
                     /\ \A b \in Goroutines : Pending(run'[b], "tokens") => TokenMade(b)'
  BY DEF TokenInv, TokenGone, Reset, TokenSpent, NoUserWrite, TokenOwned, HasToken, OneWrite, TokenMade
<1> QED
  BY <1>5, <1>6, <1>7, <1>8, <1>9, <1>10, <1>11

\* A reset token sets a password once: ResetPassword deletes the token and goes on only if it
\* could, so that a second password is set only by who has read the token before that.
THEOREM TokensHold == RecordsSpec => []TokenUsedOnce
<1>1. Init => BaseInv /\ TokenInv
  BY BaseInit, NoneInit
<1>2. BaseInv /\ TokenInv /\ [Next]_vars => BaseInv' /\ TokenInv'
  <2> SUFFICES ASSUME BaseInv, TokenInv, [Next]_vars PROVE BaseInv' /\ TokenInv'
    OBVIOUS
  <2>1. TypeInv /\ KeyInv /\ PendInv /\ BaseInv' /\ Ways
    BY BaseNext DEF BaseInv
  <2>2. CASE UNCHANGED vars
    <3>1. TokenInv'
      BY <2>2 DEF TokenInv, vars, data, ghosts, Now, Key, HoldsToken
    <3> QED
      BY <2>1, <3>1
  <2> QED
    BY <2>1, <2>2, TokenWorks, TokenStarts, TokenCrash DEF Ways
<1>3. TokenInv => TokenUsedOnce
  BY DEF TokenInv, TokenUsedOnce
<1> QED
  BY <1>1, <1>2, <1>3, PTL DEF RecordsSpec

-----------------------------------------------------------------------------
\* Spaces in memory

\* After a step that needs another after it, the handler goes on.
LEMMA GoesOn ==
  ASSUME TypeInv, NEW a \in Goroutines, Active(a), NeedsAfter(Now(a)), NEW f, NEW c, NEW g, run[a].touched \subseteq g,
         run'[a] = Or(Doing(Tail(run[a].todo), run[a].key, f, c, g))
  PROVE  /\ run'[a] # AtRest /\ Passes(a) /\ Takes(Now(a), run'[a].todo[1]) /\ run'[a].todo # <<>>
         /\ Head(run'[a].todo) = run'[a].todo[1] /\ run'[a].todo[1] \in AnyStep(driver)
         /\ run'[a].todo = Tail(run[a].todo)
<1> DEFINE r == run[a]
           x == Tail(r.todo)
           q == run'[a]
<1>1. r.todo \in Todos(driver) /\ r.todo # <<>> /\ Now(a) = r.todo[1]
  BY RunFacts
<1>2. Chain(driver, r.todo) /\ Len(r.todo) \in Nat /\ Len(r.todo) >= 1 /\ r.todo \in Seq(AnyStep(driver))
  BY <1>1, TodoLens
<1>3. Len(r.todo) # 1
  BY <1>1, <1>2 DEF Chain
<1>4. x # <<>>
  <2>1. x = From(r.todo, 2)
    BY <1>1, <1>2, TailIsFrom
  <2>2. 2 \in 1..Len(r.todo) + 1
    BY <1>2
  <2>3. Len(x) = Len(r.todo) - 2 + 1
    BY <1>2, <2>1, <2>2, FromFacts
  <2>4. Len(<<>>) = 0
    OBVIOUS
  <2> HIDE DEF x, r
  <2> DEFINE n == Len(r.todo)
  <2>5. n \in Nat /\ n >= 1 /\ n # 1 /\ Len(x) = n - 2 + 1
    BY <1>2, <1>3, <2>3
  <2> HIDE DEF n
  <2>6. Len(x) # 0
    BY <2>5
  <2> QED
    BY <2>4, <2>6, Zenon
<1> HIDE DEF x, r
<1>5. q = Doing(x, r.key, f, c, g)
  <2>1. q = Or(Doing(x, r.key, f, c, g))
    BY DEF x, r
  <2> HIDE DEF q
  <2>2. Doing(x, r.key, f, c, g).todo = x
    BY DoingFacts
  <2> QED
    BY <1>4, <2>1, <2>2 DEF Or
<1> HIDE DEF q
<1>6. q.todo = x /\ q.key = r.key /\ q.touched = g
  BY <1>5, DoingFacts
<1>7. q # AtRest
  BY <1>4, <1>6, RestFacts
<1>8. Onward(driver, r, q, <<>>, 2)
  BY <1>1, <1>4, <1>6, DoneOnward DEF x, r
<1>9. Passes(a)
  BY <1>8 DEF Passes, q, r
<1> QED
  BY <1>4, <1>6, <1>7, <1>9, NextTakes DEF q, x, r

\* A handler that goes on after its step
LEMMA DoneIs ==
  ASSUME TypeInv, NEW a \in Goroutines, WriteStep(a) \/ DelStep(a) \/ TouchStep(a) \/ FillStep(a)
  PROVE  run'[a] = Or(Doing(Tail(run[a].todo), run[a].key, run[a].fresh, run[a].copy, run[a].touched))
<1>1. Active(a) /\ run'[a] = Or(Done(a))
  BY DEF WriteStep, DelStep, TouchStep, FillStep, InCopy, Touches, At
<1> QED
  BY <1>1, DoneDoing

LEMMA FailsOn ==
  ASSUME TypeInv, NEW a \in Goroutines, Fails(a), Now(a).failed = "on"
  PROVE  \E g : /\ run[a].touched \subseteq g
                /\ run'[a] = Or(Doing(Tail(run[a].todo), run[a].key, run[a].fresh, run[a].copy, g))
<1> DEFINE r == run[a]
           g == r.touched \cup ({Now(a).t} \cap Asked)
<1>1. Active(a) /\ Proceeds(a, [Undone(a) EXCEPT !.touched = @ \cup ({Now(a).t} \cap Asked)])
  BY DEF Fails
<1>2. PICK u \in Todos(driver) :
           /\ Undone(a) = Doing(u, r.key, r.fresh, r.copy, r.touched)
           /\ Now(a).failed = "on" => u = Tail(r.todo)
  BY <1>1, UndoneDoing
<1>3. [Undone(a) EXCEPT !.touched = @ \cup ({Now(a).t} \cap Asked)] = Doing(u, r.key, r.fresh, r.copy, g)
  <2>1. Undone(a).touched = r.touched
    BY <1>2, DoingFacts
  <2>2. [Undone(a) EXCEPT !.touched = @ \cup ({Now(a).t} \cap Asked)] = [Undone(a) EXCEPT !.touched = g]
    BY <2>1
  <2> HIDE DEF g, r
  <2> QED
    BY <1>2, <2>2, DoingFacts
<1> HIDE DEF g
<1>4. run'[a] = Or(Doing(u, r.key, r.fresh, r.copy, g))
  BY <1>1, <1>3 DEF Proceeds, TypeInv
<1>5. r.touched \subseteq g
  BY DEF g
<1> QED
  BY <1>2, <1>4, <1>5

\* What a step adds to the copy
CopyGrown(a, c) ==
  /\ DOMAIN c = DOMAIN run[a].copy \cup Reads(a)
  /\ \A x \in DOMAIN run[a].copy \ Reads(a) : c[x] = run[a].copy[x]
  /\ \A x \in Reads(a) : Has(Now(a).t, x[2]) => c[x] = db[Now(a).t][x[2]]
LEMMA CopyWorks ==
  ASSUME TypeInv, NEW a \in Goroutines, Works(a), run'[a] # AtRest
  PROVE  CopyGrown(a, run'[a].copy)
<1> DEFINE t == Now(a).t
           k == Key(a)
           c == run[a].copy
           c1 == run'[a].copy
<1>1. CASE Now(a).op = "get"
  <2>0. "get" \notin Loops
    BY DEF Loops, Branches
  <2>1. ReadStep(a)
    BY <1>1, StepOf
  <2>2. Reads(a) = {<<t, k>>}
    BY <1>1 DEF Reads
  <2>3. \E v : c1 = Set(c, <<t, k>>, v) /\ (Has(t, k) => v = db[t][k])
    BY <1>1, <2>1, GetFacts DEF Keeps
  <2>4. PICK v : c1 = Set(c, <<t, k>>, v) /\ (Has(t, k) => v = db[t][k])
    BY <2>3
  <2> HIDE DEF c, c1, t, k
  <2>5. Put1(c, c1, <<t, k>>, v)
    BY <2>4, SetFacts
  <2> DEFINE x == <<t, k>>
  <2>6. x[2] = k
    OBVIOUS
  <2> HIDE DEF x
  <2>7. /\ DOMAIN c1 = DOMAIN c \cup {x} /\ c1[x] = v
        /\ \A y \in DOMAIN c \ {x} : c1[y] = c[y]
    BY <2>5 DEF Put1, x
  <2>8. Reads(a) = {x}
    BY <2>2 DEF x
  <2>9. CopyGrown(a, c1) <=> /\ DOMAIN c1 = DOMAIN c \cup Reads(a)
                             /\ \A y \in DOMAIN c \ Reads(a) : c1[y] = c[y]
                             /\ \A y \in Reads(a) : Has(t, y[2]) => c1[y] = db[t][y[2]]
    BY DEF CopyGrown, c, t
  <2>10. CopyGrown(a, c1)
    BY <2>4, <2>6, <2>7, <2>8, <2>9
  <2> QED
    BY <2>10 DEF c1
<1>2. CASE Now(a).op \in Loops
  <2>1. EachStep(a)
    BY <1>2, StepOf
  <2> DEFINE S == Listed(a)
             e == Over([tk \in {t} \X S |-> db[t][tk[2]]], c)
  <2>2. /\ Keeps(a, run[a].fresh, e) /\ DOMAIN e = DOMAIN c \cup ({t} \X S)
        /\ \A y \in S : e[<<t, y>>] = db[t][y]
        /\ \A x \in DOMAIN c \ ({t} \X S) : e[x] = c[x]
    BY <2>1, EachFacts
  <2>3. Reads(a) = {t} \X S
    BY <1>2 DEF Reads, Loops, Branches
  <2> HIDE DEF e, S
  <2>4. c1 = e
    BY <2>2 DEF Keeps
  <2>5. \A x \in Reads(a) : e[x] = db[t][x[2]]
    <3> SUFFICES ASSUME NEW x \in Reads(a) PROVE e[x] = db[t][x[2]]
      OBVIOUS
    <3>1. x[2] \in S /\ x = <<t, x[2]>>
      BY <2>3
    <3> QED
      BY <2>2, <3>1
  <2> QED
    BY <2>2, <2>3, <2>4, <2>5 DEF CopyGrown
<1>3. CASE Now(a).op \notin {"get"} \cup Loops
  <2>1. Reads(a) = {}
    BY <1>3 DEF Reads
  <2>2. c1 = c
    <3>1. CASE FreshStep(a)
      BY <3>1, FreshFacts DEF Keeps
    <3>2. CASE ReadStep(a)
      <4>1. Now(a).op \in {"free", "any"}
        BY <1>3, <3>2 DEF ReadStep, At
      <4> QED
        BY <3>2, <4>1, FreeFacts DEF Keeps
    <3>3. CASE TakeStep(a)
      BY <3>3, TakeFacts DEF Keeps
    <3>4. CASE UnlessStep(a)
      BY <3>4, UnlessFacts DEF Keeps
    <3>5. CASE WriteStep(a)
      BY <3>5, WriteFacts DEF Keeps
    <3>6. CASE TouchStep(a)
      BY <3>6, TouchFacts DEF Keeps
    <3>7. CASE DelStep(a)
      BY <3>7, DelFacts DEF Keeps
    <3>8. CASE FillStep(a)
      BY <3>8, FillFacts DEF Keeps
    <3>9. CASE SendStep(a)
      BY <3>9, SendFacts DEF Keeps
    <3>10. ~EachStep(a)
      BY <1>3 DEF EachStep, At, Loops, Branches
    <3> QED
      BY <3>1, <3>2, <3>3, <3>4, <3>5, <3>6, <3>7, <3>8, <3>9, <3>10 DEF Works
  <2> QED
    BY <2>1, <2>2 DEF CopyGrown
<1> QED
  BY <1>1, <1>2, <1>3

LEMMA CopyFails ==
  ASSUME TypeInv, NEW a \in Goroutines, Fails(a), run'[a] # AtRest
  PROVE  run'[a].copy = run[a].copy
BY FailFacts DEF Keeps

CacheKept   == \A k \in DOMAIN db["spacecache"] \ stale :
                 Kept(k, db["spacecache"][k]) \/ \E a \in Goroutines : Settling(a)
CopyKept(a) == Active(a) /\ "spaces" \notin run[a].touched =>
                 \A k \in Keys : <<"spaces", k>> \in DOMAIN run[a].copy => Settling(a) \/ Kept(k, run[a].copy[<<"spaces", k>>])
SpacesSame  == db'["spaces"] = db["spaces"]
CacheSame   == db'["spacecache"] = db["spacecache"] /\ stale' = stale

LEMMA CacheParts ==
  CacheInv <=> CacheKept /\ \A a \in Goroutines : CopyKept(a) /\ ForgetLast(run[a].todo)
BY DEF CacheInv, CacheKept, CopyKept

LEMMA SettlingOthers ==
  ASSUME TypeInv, NEW a, OthersSame(a, {}), NEW c \in Goroutines \ {a}
  PROVE  Settling(c)' = Settling(c)
<1>1. Active(c)' = Active(c) /\ Now(c)' = Now(c)
  BY OthersNext
<1> QED
  BY <1>1 DEF Settling

LEMMA SpaceWrites ==
  ASSUME TypeInv, NEW a \in Goroutines, Works(a), SpaceWrite(Now(a))
  PROVE  Settling(a)' /\ OthersSame(a, {"spaces"}) /\ CacheSame
<1> DEFINE s == Now(a)
<1>1. Active(a) /\ s.op \in {"put", "blank", "del"} /\ s.t = "spaces" /\ "spacecache" \in Tables
  BY WorkedFacts, TableNames DEF Worked, SpaceWrite
<1>2. s \in AnyStep(driver)
  BY <1>1, RunFacts
<1>3. PlainShape(s)
  BY <1>2, ShapeOf
<1>4. WriteStep(a) \/ DelStep(a)
  BY <1>1, StepOf
<1>5. OthersSame(a, {"spaces"}) /\ CacheSame
  <2>1. CASE WriteStep(a)
    <3>1. s.via = "spaces"
      BY <1>1, <1>3, <2>1, WriteFacts DEF PlainShape
    <3>2. OthersSame(a, {s.t, s.via}) /\ stale' = stale /\ \A u \in Tables \ {s.t, s.via} : db'[u] = db[u]
      BY <2>1, WriteFacts
    <3> QED
      BY <1>1, <3>1, <3>2 DEF CacheSame
  <2>2. CASE DelStep(a)
    <3>1. OthersSame(a, {s.t}) /\ (\A u \in Tables \ {s.t} : db'[u] = db[u])
          /\ stale' = IF s.t = "spacecache" THEN {} ELSE stale
      BY <2>2, DelFacts
    <3> QED
      BY <1>1, <3>1 DEF CacheSame
  <2> QED
    BY <1>4, <2>1, <2>2
<1>6. NeedsAfter(s) /\ ~TokenRead(s)
  BY <1>1 DEF NeedsAfter, SpaceWrite, TokenRead
<1>7. run'[a] = Or(Doing(Tail(run[a].todo), run[a].key, run[a].fresh, run[a].copy, run[a].touched))
  BY <1>4, DoneIs
<1>8. Takes(s, run'[a].todo[1]) /\ run'[a].todo # <<>> /\ Head(run'[a].todo) = run'[a].todo[1]
  BY <1>1, <1>6, <1>7, GoesOn
<1> QED
  BY <1>5, <1>8 DEF Takes, Settling, Active, Now

LEMMA NewMembers ==
  ASSUME TypeInv, NEW a \in Goroutines, Works(a) \/ Fails(a), NewMember(Now(a))
  PROVE  Settling(a)' /\ SpacesSame /\ CacheSame
<1> DEFINE s == Now(a)
<1>1. Active(a) /\ s.op = "blank" /\ s.t = "members" /\ s.failed = "on" /\ {"spaces", "spacecache"} \subseteq Tables
  BY WorkedFacts, TableNames DEF Worked, NewMember
<1>2. s \in AnyStep(driver)
  BY <1>1, RunFacts
<1>3. PlainShape(s)
  BY <1>2, ShapeOf
<1>4. NeedsAfter(s)
  BY <1>1 DEF NeedsAfter, NewMember
<1>5. SpacesSame /\ CacheSame
  <2>1. CASE Works(a)
    <3>1. WriteStep(a)
      BY <1>1, <2>1, StepOf
    <3>2. s.via = "members"
      BY <1>1, <1>3 DEF PlainShape
    <3>3. stale' = stale /\ \A u \in Tables \ {s.t, s.via} : db'[u] = db[u]
      BY <3>1, WriteFacts
    <3> QED
      BY <1>1, <3>2, <3>3 DEF CacheSame, SpacesSame
  <2>2. CASE Fails(a)
    BY <2>2, FailFacts DEF CacheSame, SpacesSame, data, ghosts
  <2> QED
    BY <2>1, <2>2
<1>6. \E g : /\ run[a].touched \subseteq g
             /\ run'[a] = Or(Doing(Tail(run[a].todo), run[a].key, run[a].fresh, run[a].copy, g))
  <2>1. CASE Works(a)
    <3>1. WriteStep(a)
      BY <1>1, <2>1, StepOf
    <3> QED
      BY <3>1, DoneIs
  <2>2. CASE Fails(a)
    BY <1>1, <2>2, FailsOn
  <2> QED
    BY <2>1, <2>2
<1>7. PICK g : /\ run[a].touched \subseteq g
               /\ run'[a] = Or(Doing(Tail(run[a].todo), run[a].key, run[a].fresh, run[a].copy, g))
  BY <1>6
<1>8. Takes(s, run'[a].todo[1]) /\ run'[a].todo # <<>> /\ Head(run'[a].todo) = run'[a].todo[1]
  <2>1. run[a].touched \subseteq g
    BY <1>7
  <2>2. run'[a] = Or(Doing(Tail(run[a].todo), run[a].key, run[a].fresh, run[a].copy, g))
    BY <1>7
  <2>3. Active(a) /\ NeedsAfter(Now(a))
    BY <1>1, <1>4
  <2> HIDE DEF s
  <2>4. Takes(Now(a), run'[a].todo[1]) /\ run'[a].todo # <<>> /\ Head(run'[a].todo) = run'[a].todo[1]
    BY <2>1, <2>2, <2>3, GoesOn, SMTT(20)
  <2> QED
    BY <2>4 DEF s
<1> QED
  BY <1>1, <1>5, <1>8 DEF Takes, Settling, Active, Now

LEMMA Forgotten ==
  ASSUME TypeInv, ZeroInv, NEW a \in Goroutines, Works(a), Forgets(Now(a)), ForgetLast(run[a].todo)
  PROVE  run'[a] = AtRest /\ SpacesSame /\ DOMAIN db'["spacecache"] = {}
<1> DEFINE s == Now(a)
           x == run[a].todo
<1>1. Active(a) /\ s.op = "forget" /\ s.t = "spacecache" /\ {"spaces", "spacecache"} \subseteq Tables
  BY WorkedFacts, TableNames DEF Worked, Forgets
<1>2. x \in Todos(driver) /\ x # <<>> /\ s = x[1] /\ 1 \in DOMAIN x
  BY <1>1, RunFacts
<1>3. Len(x) = 1 /\ x \in Seq(AnyStep(driver))
  BY <1>2, TodoLens DEF ForgetLast
<1>4. Tail(x) = <<>>
  <2>1. Tail(x) = From(x, 2)
    BY <1>2, <1>3, TailIsFrom
  <2>2. 2 \in 1..Len(x) + 1
    BY <1>3
  <2>3. Len(Tail(x)) = Len(x) - 2 + 1 /\ Tail(x) \in Seq(AnyStep(driver))
    BY <1>3, <2>1, <2>2, FromFacts
  <2> DEFINE y == Tail(x)
  <2>4. y \in Seq(AnyStep(driver)) /\ Len(y) = 0
    BY <1>3, <2>3
  <2> HIDE DEF y
  <2>5. y = <<>>
    BY <2>4
  <2> QED
    BY <2>5 DEF y
<1>5. DelStep(a)
  BY <1>1, StepOf
<1>6. run'[a] = AtRest
  <2>1. run'[a] = Or(Doing(Tail(x), run[a].key, run[a].fresh, run[a].copy, run[a].touched))
    BY <1>5, DoneIs
  <2> HIDE DEF x
  <2>2. Doing(Tail(x), run[a].key, run[a].fresh, run[a].copy, run[a].touched).todo = <<>>
    BY <1>4 DEF Doing
  <2> QED
    BY <2>1, <2>2 DEF Or
<1>7. Cut(db["spacecache"], db'["spacecache"], Keys) /\ SpacesSame
  <2> DEFINE S == CASE s.op = "del" -> {Key(a)} [] s.op = "purgeidle" -> idle [] OTHER -> Keys
  <2>1. Cut(db[s.t], db'[s.t], S) /\ \A u \in Tables \ {s.t} : db'[u] = db[u]
    BY <1>5, DelFacts
  <2>2. S = Keys
    BY <1>1
  <2> HIDE DEF S
  <2> QED
    BY <1>1, <2>1, <2>2 DEF SpacesSame
<1>8. DOMAIN db["spacecache"] \subseteq Keys
  BY <1>1 DEF TypeInv, ZeroInv, Keys0
<1> QED
  BY <1>6, <1>7, <1>8 DEF Cut

LEMMA ForgetStays ==
  ASSUME TypeInv, NEW a \in Goroutines, Worked(a), ForgetLast(run[a].todo)
  PROVE  ForgetLast(run'[a].todo)
<1> DEFINE q == run'[a]
           r == run[a]
<1>1. Active(a) /\ Advances(a)
  BY DEF Worked
<1>2. CASE q = AtRest
  <2>1. q.todo = <<>> /\ DOMAIN <<>> = {}
    BY <1>2, RestFacts
  <2> QED
    BY <2>1 DEF ForgetLast
<1>3. CASE q # AtRest
  <2>1. PICK X, n : Onward(driver, r, q, X, n) /\ Lapped(a, X)
    BY <1>1, <1>3 DEF Advances
  <2>2. r.todo \in Todos(driver)
    BY <1>1, RunFacts
  <2> HIDE DEF q
  <2>3. /\ Len(X) \in Nat /\ DOMAIN X = 1..Len(X) /\ Len(q.todo) = Len(X) + Len(r.todo) - n + 1
        /\ DOMAIN q.todo = 1..Len(q.todo)
        /\ \A m \in DOMAIN q.todo : \/ m \in DOMAIN X /\ q.todo[m] = X[m]
                                    \/ m > Len(X) /\ Was(X, n, m) \in n..Len(r.todo) /\ q.todo[m] = r.todo[Was(X, n, m)]
    BY <2>1, <2>2, OnwardSteps
  <2>4. n \in 2..Len(r.todo) + 1 /\ Len(r.todo) \in Nat /\ DOMAIN r.todo = 1..Len(r.todo) /\ Len(q.todo) \in Nat
    <3>1. n \in 2..Len(r.todo) + 1 /\ q.todo \in Todos(driver)
      BY <2>1 DEF Onward
    <3> QED
      BY <2>2, <3>1, TodoLens
  <2>5. \A m \in DOMAIN X : ~Forgets(X[m])
    <3>1. \A m \in DOMAIN X : Lapping(a, X[m])
      BY <2>1 DEF Lapped
    <3> QED
      BY <3>1, LapFacts DEF Forgets
  <2> HIDE DEF r
  <2>6. ForgetLast(r.todo)
    BY DEF r
  <2>7. ASSUME NEW i \in DOMAIN q.todo, Forgets(q.todo[i]) PROVE i = Len(q.todo)
    <3>1. Was(X, n, i) \in n..Len(r.todo) /\ q.todo[i] = r.todo[Was(X, n, i)]
      BY <2>3, <2>5, <2>7
    <3>2. Was(X, n, i) \in DOMAIN r.todo
      BY <2>4, <3>1
    <3>3. Was(X, n, i) = Len(r.todo)
      BY <2>6, <2>7, <3>1, <3>2 DEF ForgetLast
    <3>4. i \in Nat
      BY <2>3, <2>4
    <3> QED
      BY <2>3, <2>4, <3>3, <3>4 DEF Was
  <2> QED
    BY <2>7 DEF ForgetLast, q
<1> QED
  BY <1>2, <1>3

\* A step that neither writes spaces nor is on the way to forgetting them
Calmly(a) == ~SpaceWrite(Now(a)) /\ ~Settling(a)

LEMMA CalmSpaces ==
  ASSUME TypeInv, NEW a \in Goroutines, Works(a) \/ Fails(a), Calmly(a)
  PROVE  /\ SpacesSame
         /\ \/ CacheSame
            \/ Works(a) /\ Now(a).op = "fill"
<1> DEFINE s == Now(a)
<1>1. Active(a) /\ {"spaces", "spacecache"} \subseteq Tables
  BY WorkedFacts, TableNames DEF Worked
<1>2. s \in AnyStep(driver)
  BY <1>1, RunFacts
<1>3. PlainShape(s) /\ OtherShape(s)
  BY <1>2, ShapeOf
<1>4. CASE Fails(a)
  BY <1>4, FailFacts DEF SpacesSame, CacheSame, data, ghosts
<1>5. CASE Works(a)
  <2>1. Moved(a)
    BY <1>5, MovedFacts
  <2>2. /\ s.t = "spaces" => s.op \in {"get", "each"}
        /\ s.t = "spacecache" => s.op \in {"unless", "fill"}
        /\ s.op \in {"put", "blank", "new"} => "spaces" # s.via /\ "spacecache" # s.via
    <3>1. s.t = "spaces" => s.op \in {"get", "put", "blank", "del", "each"}
      BY <1>3 DEF OtherShape
    <3>2. s.t = "spacecache" => s.op \in {"unless", "fill", "forget"}
      BY <1>3 DEF OtherShape
    <3>3. s.op \in {"put", "blank", "new"} => s.via = s.t \/ s.via = "prindex"
      BY <1>3 DEF PlainShape
    <3> QED
      BY <1>1, <3>1, <3>2, <3>3 DEF Calmly, SpaceWrite, Settling, Forgets
  <2>3. SpacesSame
    BY <1>1, <2>1, <2>2 DEF Moved, SpacesSame
  <2>4. s.op # "fill" => db'["spacecache"] = db["spacecache"]
    BY <1>1, <2>1, <2>2 DEF Moved
  <2>5. s.op # "fill" => stale' = stale
    <3>1. s.op \in {"del", "purge", "purgeidle", "forget"} => stale' = stale
      <4> SUFFICES ASSUME s.op \in {"del", "purge", "purgeidle", "forget"} PROVE stale' = stale
        OBVIOUS
      <4>1. DelStep(a)
        BY <1>5, StepOf
      <4> QED
        BY <2>2, <4>1, DelFacts
    <3>2. s.op \notin {"fill", "del", "purge", "purgeidle", "forget"} => stale' = stale
      BY <1>5 DEF Works, FreshStep, ReadStep, TakeStep, EachStep, UnlessStep, WriteStep, TouchStep, DelStep, FillStep, SendStep, InCopy, At, ghosts
    <3> QED
      BY <3>1, <3>2
  <2> QED
    BY <1>5, <2>3, <2>4, <2>5 DEF CacheSame
<1> QED
  BY <1>4, <1>5

\* What is in the copy after such a step is in the database, or was in the copy.
LEMMA CalmCopy ==
  ASSUME TypeInv, CacheInv, NEW a \in Goroutines, Works(a) \/ Fails(a), Worked(a), Calmly(a)
  PROVE  CopyKept(a)'
<1> SUFFICES ASSUME Active(a)', "spaces" \notin run'[a].touched, NEW k \in Keys, <<"spaces", k>> \in DOMAIN run'[a].copy
             PROVE  Kept(k, run[a].copy[<<"spaces", k>>])'
  BY DEF CopyKept
<1> DEFINE c == run[a].copy
           c1 == run'[a].copy
           x == <<"spaces", k>>
<1>1. Active(a) /\ run'[a] # AtRest /\ Advances(a) /\ SpacesSame
  BY CalmSpaces, RestFacts DEF Worked, Active
<1>2. "spaces" \notin run[a].touched
  BY <1>1, GoesSteps
<1>3. x \in DOMAIN c => Kept(k, c[x])
  BY <1>1, <1>2, CacheParts DEF CopyKept, Calmly
<1>4. CASE Fails(a)
  <2>1. c1 = c
    BY <1>1, <1>4, CopyFails
  <2> QED
    BY <1>1, <1>3, <2>1 DEF Kept, Has, SpacesSame
<1>5. CASE Works(a)
  <2>1. CopyGrown(a, c1)
    BY <1>1, <1>5, CopyWorks
  <2> HIDE DEF c, c1
  <2>2. CASE x \notin Reads(a)
    <3>1. x \in DOMAIN c /\ c1[x] = c[x]
      BY <2>1, <2>2 DEF CopyGrown, c, c1
    <3> QED
      BY <1>1, <1>3, <3>1 DEF Kept, Has, SpacesSame, c1
  <2>3. CASE x \in Reads(a)
    <3>1. Now(a).t = "spaces" /\ (Now(a).op \in Loops => k \in Listed(a)) /\ Now(a).op \in {"get"} \cup Loops
          /\ (Now(a).op = "get" => k = Key(a))
      BY <2>3 DEF Reads, Loops, Branches
    <3>2. Has("spaces", k)
      <4>1. CASE Now(a).op \in Loops
        BY <1>1, <3>1, <4>1, ListedFacts DEF Has
      <4>2. CASE Now(a).op = "get"
        <5>1. Now(a).failed = "end"
          <6>1. Now(a) \in AnyStep(driver)
            BY <1>1, RunFacts
          <6> QED
            BY <3>1, <4>2, <6>1, ShapeOf DEF OtherShape
        <5> QED
          BY <1>1, <1>5, <3>1, <4>2, <5>1, FoundFacts
      <4> QED
        BY <3>1, <4>1, <4>2
    <3>3. x[2] = k
      OBVIOUS
    <3>4. c1[x] = db["spaces"][k]
      BY <2>1, <2>3, <3>1, <3>2, <3>3 DEF CopyGrown
    <3> QED
      BY <1>1, <3>2, <3>4 DEF Kept, Has, SpacesSame, c1
  <2> QED
    BY <2>2, <2>3
<1> QED
  BY <1>4, <1>5

LEMMA CalmCache ==
  ASSUME TypeInv, CacheInv, NEW a \in Goroutines, Works(a) \/ Fails(a), Worked(a), Calmly(a)
  PROVE  CacheKept'
<1>1. SpacesSame /\ Active(a) /\ OthersSame(a, {})
  BY CalmSpaces DEF Worked
<1>2. (\E c \in Goroutines : Settling(c)) => \E c \in Goroutines : Settling(c)'
  BY <1>1, SettlingOthers DEF Calmly
<1>3. CacheKept
  BY CacheParts
<1>4. CASE CacheSame
  <2>1. \A k, v : Kept(k, v)' <=> Kept(k, v)
    BY <1>1 DEF Kept, Has, SpacesSame
  <2> QED
    BY <1>1, <1>2, <1>3, <1>4 DEF CacheKept, CacheSame, Kept, SpacesSame, Has
<1>5. CASE Works(a) /\ Now(a).op = "fill"
  <2> DEFINE f == db["spacecache"]
             g == db'["spacecache"]
             c == run[a].copy
             S == {k \in Keys : <<"spaces", k>> \in DOMAIN c}
  <2>1. FillStep(a)
    BY <1>5, StepOf
  <2>2. /\ DOMAIN g = DOMAIN f \cup S
        /\ (\A k \in S : g[k] = c[<<"spaces", k>>]) /\ (\A k \in DOMAIN f \ S : g[k] = f[k])
        /\ stale' = IF "spaces" \in run[a].touched THEN stale \cup S ELSE stale
    BY <2>1, FillFacts
  <2>3. ASSUME NEW k \in S, k \notin stale' PROVE Kept(k, db["spacecache"][k])'
    <3>1. "spaces" \notin run[a].touched
      BY <2>2, <2>3
    <3>2. ~Settling(a)
      BY DEF Calmly
    <3>3. Kept(k, c[<<"spaces", k>>])
      BY <1>1, <2>3, <3>1, <3>2, CacheParts DEF CopyKept
    <3> QED
      BY <1>1, <2>2, <3>3 DEF Kept, Has, SpacesSame
  <2>4. ASSUME NEW k \in DOMAIN f \ S, k \notin stale' PROVE Kept(k, db["spacecache"][k])' \/ \E b \in Goroutines : Settling(b)'
    <3>1. k \notin stale /\ g[k] = f[k]
      BY <2>2, <2>4
    <3>2. Kept(k, f[k]) \/ \E b \in Goroutines : Settling(b)
      BY <1>3, <2>4, <3>1 DEF CacheKept
    <3> QED
      BY <1>1, <1>2, <3>1, <3>2 DEF Kept, Has, SpacesSame
  <2> HIDE DEF S
  <2> QED
    BY <2>2, <2>3, <2>4 DEF CacheKept
<1> QED
  BY <1>4, <1>5, CalmSpaces

LEMMA CopyOthers ==
  ASSUME TypeInv, NEW a, NEW T, OthersSame(a, T), SpacesSame \/ "spaces" \in T, NEW c \in Goroutines \ {a}, CopyKept(c)
  PROVE  CopyKept(c)'
<1>1. /\ Active(c)' = Active(c) /\ run'[c].copy = run[c].copy /\ run[c].touched \subseteq run'[c].touched
      /\ Active(c) => T \cap Asked \subseteq run'[c].touched
  BY OthersNext
<1>2. Settling(c)' = Settling(c)
  <2>1. OthersSame(a, {})
    BY OthersLess
  <2> QED
    BY <2>1, SettlingOthers
<1>3. CASE SpacesSame
  BY <1>1, <1>2, <1>3 DEF CopyKept, Kept, Has, SpacesSame
<1>4. CASE "spaces" \in T
  BY <1>1, <1>4 DEF CopyKept, Asked
<1> QED
  BY <1>3, <1>4

LEMMA SettlesCopy ==
  ASSUME NEW a, Settling(a)' \/ ~Active(a)'
  PROVE  CopyKept(a)'
BY DEF CopyKept

LEMMA CacheWorks ==
  ASSUME TypeInv, ZeroInv, CacheInv, NEW a \in Goroutines, Works(a) \/ Fails(a), Worked(a)
  PROVE  CacheInv'
<1>1. Active(a) /\ OthersSame(a, {}) /\ CacheKept /\ \A c \in Goroutines : CopyKept(c) /\ ForgetLast(run[c].todo)
  BY CacheParts DEF Worked
<1>2. \A c \in Goroutines : ForgetLast(run'[c].todo)
  BY <1>1, ForgetStays, OthersNext
<1>3. CacheInv' <=> CacheKept' /\ \A c \in Goroutines : CopyKept(c)' /\ ForgetLast(run'[c].todo)
  BY DEF CacheInv, CacheKept, CopyKept
<1>4. CASE SpaceWrite(Now(a)) /\ Works(a)
  <2>1. Settling(a)' /\ OthersSame(a, {"spaces"})
    BY <1>4, SpaceWrites
  <2>2. CacheKept'
    BY <2>1 DEF CacheKept
  <2>3. \A c \in Goroutines : CopyKept(c)'
    BY <1>1, <2>1, CopyOthers, SettlesCopy
  <2> QED
    BY <1>2, <1>3, <2>2, <2>3
<1>5. CASE SpaceWrite(Now(a)) /\ Fails(a)
  <2>1. Now(a).failed = "end"
    <3>1. Now(a) \in AnyStep(driver)
      BY <1>1, RunFacts
    <3> QED
      BY <1>5, <3>1, ShapeOf DEF OtherShape, SpaceWrite
  <2>2. run'[a] = AtRest /\ SpacesSame /\ CacheSame
    BY <1>5, <2>1, FailFacts DEF SpacesSame, CacheSame, data, ghosts
  <2>3. ~Active(a)'
    BY <2>2, RestFacts DEF Active
  <2>4. \A c \in Goroutines : CopyKept(c)'
    BY <1>1, <2>2, <2>3, CopyOthers, SettlesCopy
  <2>5. ~Settling(a)
    BY <1>5 DEF Settling, SpaceWrite, Forgets, NewMember
  <2>6. (\E c \in Goroutines : Settling(c)) => \E c \in Goroutines : Settling(c)'
    BY <1>1, <2>5, SettlingOthers
  <2>7. CacheKept'
    BY <1>1, <2>2, <2>6 DEF CacheKept, Kept, Has, SpacesSame, CacheSame
  <2> QED
    BY <1>2, <1>3, <2>4, <2>7
<1>6. CASE NewMember(Now(a))
  <2>1. Settling(a)' /\ SpacesSame
    BY <1>6, NewMembers
  <2>2. CacheKept'
    BY <2>1 DEF CacheKept
  <2>3. \A c \in Goroutines : CopyKept(c)'
    BY <1>1, <2>1, CopyOthers, SettlesCopy
  <2> QED
    BY <1>2, <1>3, <2>2, <2>3
<1>7. CASE Forgets(Now(a))
  <2>1. Works(a)
    BY <1>7, FailFacts DEF Forgets
  <2>2. run'[a] = AtRest /\ SpacesSame /\ DOMAIN db'["spacecache"] = {}
    BY <1>1, <1>7, <2>1, Forgotten
  <2>3. ~Active(a)'
    BY <2>2, RestFacts DEF Active
  <2>4. \A c \in Goroutines : CopyKept(c)'
    BY <1>1, <2>2, <2>3, CopyOthers, SettlesCopy
  <2>5. CacheKept'
    BY <2>2 DEF CacheKept
  <2> QED
    BY <1>2, <1>3, <2>4, <2>5
<1>8. CASE Calmly(a)
  <2>1. CacheKept' /\ CopyKept(a)' /\ SpacesSame
    BY <1>8, CalmCache, CalmCopy, CalmSpaces
  <2>2. \A c \in Goroutines : CopyKept(c)'
    BY <1>1, <2>1, CopyOthers
  <2> QED
    BY <1>2, <1>3, <2>1, <2>2
<1> QED
  BY <1>4, <1>5, <1>6, <1>7, <1>8 DEF Calmly, Settling

LEMMA CacheStarts ==
  ASSUME TypeInv, CacheInv, NEW a, StartStep(a)
  PROVE  CacheInv'
<1>1. a \in Goroutines /\ ~Active(a) /\ OthersSame(a, {}) /\ SpacesSame /\ CacheSame /\ RunsTyped'
  BY DEF StartStep, SpacesSame, CacheSame, data, ghosts
<1>2. CacheKept /\ \A c \in Goroutines : CopyKept(c) /\ ForgetLast(run[c].todo)
  BY CacheParts
<1>3. CacheInv' <=> CacheKept' /\ \A c \in Goroutines : CopyKept(c)' /\ ForgetLast(run'[c].todo)
  BY DEF CacheInv, CacheKept, CopyKept
<1>4. (\E c \in Goroutines : Settling(c)) => \E c \in Goroutines : Settling(c)'
  <2>1. ~Settling(a)
    BY <1>1 DEF Settling
  <2> QED
    BY <1>1, <2>1, SettlingOthers
<1>5. CacheKept'
  BY <1>1, <1>2, <1>4 DEF CacheKept, Kept, Has, SpacesSame, CacheSame
<1>6. CopyKept(a)' /\ ForgetLast(run'[a].todo)
  <2>1. CASE Active(a)'
    <3>1. Startable(driver, run'[a].todo) /\ DOMAIN run'[a].copy = {}
      BY <2>1, StartFacts
    <3> QED
      BY <3>1 DEF Startable, CopyKept
  <2>2. CASE ~Active(a)'
    <3>1. run'[a] = AtRest
      BY <1>1, <2>2 DEF RunsTyped
    <3>2. ForgetLast(<<>>)
      BY DEF ForgetLast
    <3> QED
      BY <2>2, <3>1, <3>2, RestFacts, SettlesCopy
  <2> QED
    BY <2>1, <2>2
<1>7. \A c \in Goroutines \ {a} : CopyKept(c)' /\ ForgetLast(run'[c].todo)
  BY <1>1, <1>2, CopyOthers, OthersNext
<1> QED
  BY <1>3, <1>5, <1>6, <1>7

LEMMA CacheCrash ==
  ASSUME TypeInv, Crash
  PROVE  CacheInv'
<1>1. (\A a \in Goroutines : run'[a] = AtRest) /\ DOMAIN db'["spacecache"] = {}
  BY CrashFacts, TableNames DEF Memory
<1>2. ForgetLast(<<>>)
  BY DEF ForgetLast
<1>3. \A a \in Goroutines : ~Active(a)' /\ ForgetLast(run'[a].todo)
  BY <1>1, <1>2, RestFacts DEF Active
<1>4. CacheInv' <=> CacheKept' /\ \A c \in Goroutines : CopyKept(c)' /\ ForgetLast(run'[c].todo)
  BY DEF CacheInv, CacheKept, CopyKept
<1>5. CacheKept'
  BY <1>1 DEF CacheKept
<1> QED
  BY <1>3, <1>4, <1>5, SettlesCopy

LEMMA CacheInit ==
  ASSUME Init
  PROVE  CacheInv
<1>1. \A a \in Goroutines : run[a].todo = <<>> /\ ~Active(a)
  BY InitRuns
<1>2. PICK s \in Origins :
              \A t \in Tables : DOMAIN db[t] = IF t = "users" THEN {1}
                     ELSE IF t \in s.empty \/ (t = "byuser" /\ driver = "mongo") THEN {} ELSE s.keys
  BY InitRuns
<1>3. "spacecache" \in s.empty
  BY RecordsAssumption
<1>4. DOMAIN db["spacecache"] = {}
  BY <1>2, <1>3, TableNames
<1> QED
  BY <1>1, <1>4 DEF CacheInv, ForgetLast

\* Who is settling forgets, now or with the next step.
LEMMA SettlingForgets ==
  ASSUME TypeInv, NEW a \in Goroutines, Settling(a)
  PROVE  \E i \in DOMAIN run[a].todo : run[a].todo[i].op = "forget"
<1> DEFINE s == run[a].todo
<1>1. s \in Todos(driver) /\ s # <<>> /\ Now(a) = s[1] /\ 1 \in DOMAIN s
  BY RunFacts DEF Settling
<1>2. Chain(driver, s) /\ Len(s) \in Nat /\ Len(s) >= 1 /\ DOMAIN s = 1..Len(s)
  BY <1>1, TodoLens
<1>3. CASE Forgets(s[1])
  BY <1>1, <1>3 DEF Forgets
<1>4. CASE NewMember(s[1])
  <2>1. NeedsAfter(s[1])
    BY <1>4 DEF NeedsAfter
  <2>2. Len(s) # 1
    BY <1>1, <1>2, <2>1 DEF Chain
  <2> DEFINE n == Len(s)
  <2>a. n \in Nat /\ n >= 1 /\ n # 1
    BY <1>2, <2>2
  <2> HIDE DEF n
  <2>b. 2 \in 2..n /\ 2 \in 1..n /\ 2 - 1 = 1
    BY <2>a
  <2>3. 2 \in 2..Len(s) /\ 2 \in DOMAIN s /\ 2 - 1 = 1
    BY <1>2, <2>b DEF n
  <2>4. \A i \in 2..Len(s) : Link(driver, s[i - 1], s[i])
    BY <1>2 DEF Chain
  <2>5. Link(driver, s[2 - 1], s[2])
    BY <2>3, <2>4
  <2>6. Forgets(s[2])
    BY <1>4, <2>1, <2>3, <2>5 DEF Link, Takes
  <2> QED
    BY <2>3, <2>6 DEF Forgets
<1> QED
  BY <1>1, <1>3, <1>4 DEF Settling

\* What the cache holds of a space is what the database does, unless it was listed before a
\* change: every handler that writes spaces calls invalidateSpaceCache after it.
THEOREM CacheHolds == RecordsSpec => []CacheFresh
<1>1. Init => BaseInv /\ CacheInv
  BY BaseInit, CacheInit
<1>2. BaseInv /\ CacheInv /\ [Next]_vars => BaseInv' /\ CacheInv'
  <2> SUFFICES ASSUME BaseInv, CacheInv, [Next]_vars PROVE BaseInv' /\ CacheInv'
    OBVIOUS
  <2>1. TypeInv /\ ZeroInv /\ BaseInv' /\ Ways
    BY BaseNext DEF BaseInv
  <2>2. CASE UNCHANGED vars
    <3>1. CacheInv'
      BY <2>2 DEF CacheInv, vars, data, ghosts, Now, Active, Settling, Kept, Has
    <3> QED
      BY <2>1, <3>1
  <2> QED
    BY <2>1, <2>2, CacheWorks, CacheStarts, CacheCrash DEF Ways
<1>3. BaseInv /\ CacheInv => CacheFresh
  <2> SUFFICES ASSUME BaseInv, CacheInv PROVE CacheFresh
    OBVIOUS
  <2>1. TypeInv /\ CacheKept
    BY CacheParts DEF BaseInv
  <2> QED
    BY <2>1, SettlingForgets DEF CacheKept, CacheFresh, Kept
<1> QED
  BY <1>1, <1>2, <1>3, PTL DEF RecordsSpec

-----------------------------------------------------------------------------
\* Digests are sent before they are deleted

\* Where the steps after a step come from: at place m there is one put before, or the one that
\* was at place Was(X, n, m)
Comes(a, X, n, m) ==
  \/ m \in 1..Len(X) /\ run'[a].todo[m] = X[m] /\ Lapping(a, X[m])
  \/ /\ m > Len(X) /\ Was(X, n, m) \in DOMAIN run[a].todo /\ Was(X, n, m) >= n
     /\ run'[a].todo[m] = run[a].todo[Was(X, n, m)]
Placed(a, X, n) ==
  /\ Len(X) \in Nat /\ DOMAIN X = 1..Len(X) /\ n \in 2..Len(run[a].todo) + 1 /\ Len(run[a].todo) \in Nat /\ Len(run'[a].todo) \in Nat
  /\ DOMAIN run[a].todo = 1..Len(run[a].todo) /\ DOMAIN run'[a].todo = 1..Len(run'[a].todo)
  /\ Len(run'[a].todo) = Len(X) + Len(run[a].todo) - n + 1
  /\ run'[a].key = run[a].key /\ run[a].touched \subseteq run'[a].touched
  /\ run'[a].todo # <<>> /\ run'[a].todo[1] = Head(run'[a].todo) /\ 1 \in DOMAIN run'[a].todo
  /\ \A m \in DOMAIN run'[a].todo : m \in Nat /\ run'[a].todo[m] \in AnyStep(driver) /\ Comes(a, X, n, m)
  /\ \A j \in n..Len(run[a].todo) : /\ j - n + 1 + Len(X) \in DOMAIN run'[a].todo
                                    /\ run'[a].todo[j - n + 1 + Len(X)] = run[a].todo[j]

LEMMA PlacesOf ==
  ASSUME TypeInv, NEW a \in Goroutines, Active(a), NEW X, NEW n, Onward(driver, run[a], run'[a], X, n), Lapped(a, X)
  PROVE  Placed(a, X, n)
<1> DEFINE q == run'[a]
           r == run[a]
<1>1. r.todo \in Todos(driver)
  BY RunFacts
<1>2. \A m \in DOMAIN X : Lapping(a, X[m])
  BY DEF Lapped
<1> HIDE DEF q
<1>3. Onward(driver, r, q, X, n)
  BY DEF q
<1>4. /\ n \in 2..Len(r.todo) + 1 /\ q.todo \in Todos(driver) /\ q.todo # <<>>
      /\ q.key = r.key /\ r.touched \subseteq q.touched
  BY <1>3 DEF Onward
<1>5. /\ Len(X) \in Nat /\ DOMAIN X = 1..Len(X) /\ Len(q.todo) = Len(X) + Len(r.todo) - n + 1
      /\ \A m \in DOMAIN q.todo : \/ m \in DOMAIN X /\ q.todo[m] = X[m]
                                  \/ m > Len(X) /\ Was(X, n, m) \in n..Len(r.todo) /\ q.todo[m] = r.todo[Was(X, n, m)]
      /\ \A j \in n..Len(r.todo) : /\ j - n + 1 + Len(X) \in DOMAIN q.todo
                                   /\ q.todo[j - n + 1 + Len(X)] = r.todo[j]
  BY <1>1, <1>3, OnwardSteps
<1>6. Len(r.todo) \in Nat /\ DOMAIN r.todo = 1..Len(r.todo)
  BY <1>1, TodoLens
<1>7. /\ Len(q.todo) \in Nat /\ DOMAIN q.todo = 1..Len(q.todo) /\ 1 \in DOMAIN q.todo /\ q.todo[1] = Head(q.todo)
      /\ \A m \in DOMAIN q.todo : q.todo[m] \in AnyStep(driver)
  BY <1>4, TodoLens
<1>8. \A j \in n..Len(r.todo) : j \in DOMAIN r.todo /\ j >= n
  BY <1>4, <1>6
<1>9. ASSUME NEW m \in DOMAIN q.todo PROVE m \in Nat /\ Comes(a, X, n, m)
  <2>1. m \in Nat
    BY <1>7
  <2>2. CASE m \in DOMAIN X /\ q.todo[m] = X[m]
    BY <1>2, <1>5, <2>1, <2>2 DEF Comes, q
  <2>3. CASE m > Len(X) /\ Was(X, n, m) \in n..Len(r.todo) /\ q.todo[m] = r.todo[Was(X, n, m)]
    BY <1>8, <2>1, <2>3 DEF Comes, q
  <2> QED
    BY <1>5, <2>2, <2>3
<1>10. /\ Len(X) \in Nat /\ DOMAIN X = 1..Len(X) /\ n \in 2..Len(r.todo) + 1 /\ Len(r.todo) \in Nat /\ Len(q.todo) \in Nat
       /\ DOMAIN r.todo = 1..Len(r.todo) /\ DOMAIN q.todo = 1..Len(q.todo)
       /\ Len(q.todo) = Len(X) + Len(r.todo) - n + 1
  BY <1>4, <1>5, <1>6, <1>7
<1>11. \A m \in DOMAIN q.todo : m \in Nat /\ q.todo[m] \in AnyStep(driver) /\ Comes(a, X, n, m)
  BY <1>7, <1>9
<1> HIDE DEF r
<1> QED
  BY <1>4, <1>5, <1>7, <1>10, <1>11 DEF Placed, q, r

LEMMA WorkPlaces ==
  ASSUME TypeInv, NEW a \in Goroutines, Worked(a), run'[a] # AtRest
  PROVE  \E X, n : Placed(a, X, n) /\ Onward(driver, run[a], run'[a], X, n) /\ Lapped(a, X)
BY PlacesOf DEF Worked, Advances

\* A step undone, or one that is no loop and no branch, puts nothing before the others.
LEMMA NoLaps ==
  ASSUME TypeInv, NEW a \in Goroutines,
         \/ Fails(a)
         \/ Works(a) /\ Now(a).op \notin Branches
  PROVE  Skips(a) /\ Lapped(a, <<>>)
<1>0. Lapped(a, <<>>)
  BY NothingProgram DEF Lapped
<1>1. Passes(a) => Skips(a)
  BY DEF Passes, Skips
<1>2. Undoes(a) => Skips(a)
  BY DEF Undoes, Skips, Left
<1>3. CASE Fails(a)
  BY <1>0, <1>2, <1>3, FailFacts
<1>4. CASE Works(a) /\ Now(a).op \notin Branches
  <2>1. CASE FreshStep(a)
    BY <1>0, <1>1, <2>1, FreshFacts
  <2>2. CASE ReadStep(a)
    <3>1. CASE Now(a).op = "get"
      BY <1>0, <1>1, <1>2, <2>2, <3>1, GetFacts
    <3>2. CASE Now(a).op \in {"free", "any"}
      BY <1>0, <1>1, <2>2, <3>2, FreeFacts
    <3> QED
      BY <2>2, <3>1, <3>2 DEF ReadStep, At
  <2>3. CASE TakeStep(a)
    BY <1>0, <1>1, <2>3, TakeFacts DEF Skips
  <2>4. CASE WriteStep(a)
    BY <1>0, <1>1, <2>4, WriteFacts
  <2>5. CASE TouchStep(a)
    BY <1>0, <1>1, <2>5, TouchFacts
  <2>6. CASE DelStep(a)
    BY <1>0, <1>1, <2>6, DelFacts
  <2>7. CASE FillStep(a)
    BY <1>0, <1>1, <2>7, FillFacts
  <2>8. CASE SendStep(a)
    BY <1>0, <1>1, <2>8, SendFacts
  <2>9. ~EachStep(a) /\ ~UnlessStep(a)
    BY <1>4 DEF EachStep, UnlessStep, At, Loops, Branches
  <2> QED
    BY <1>4, <2>1, <2>2, <2>3, <2>4, <2>5, <2>6, <2>7, <2>8, <2>9 DEF Works
<1> QED
  BY <1>3, <1>4

\* A loop without a body puts nothing before the others either.
LEMMA NoBody ==
  ASSUME TypeInv, NEW a \in Goroutines, EachStep(a), Now(a).body = <<>>
  PROVE  Passes(a)
<1>1. Active(a) /\ Now(a).op \in Loops /\ Loops2(a, Laps(Listed(a), Now(a).body))
  BY EachFacts
<1>2. IsFiniteSet(Listed(a))
  BY <1>1, ListedFacts
<1>3. Laps(Listed(a), Now(a).body) = <<>>
  BY <1>2, LapsEmpty
<1> QED
  BY <1>1, <1>3 DEF Loops2, Passes

\* What DigestInv says of one goroutine: no digest is added before one is deleted, and who has
\* listed the digests has copied, or sent, all there are
Early(a) ==
  \A j \in DOMAIN run[a].todo : \A i \in 1..j - 1 :
    DigestDel(run[a].todo[j]) => ~(run[a].todo[i].op = "new" /\ run[a].todo[i].t = "digests")
Copied(a) == \A k \in DOMAIN db["digests"] : <<"digests", k>> \in DOMAIN run[a].copy
Sent(a)   == DOMAIN db["digests"] \subseteq sent
Ending(a) == DigestLoop(Now(a)) \/ \E i \in DOMAIN run[a].todo : DigestDel(run[a].todo[i])
Informed(a) ==
  Unmoved(a) => /\ Now(a).op = "send" \/ PrefsRead(Now(a)) => Copied(a)
                /\ Ending(a) => Sent(a)

LEMMA DigestParts == DigestInv <=> \A a \in Goroutines : Early(a) /\ Informed(a)
BY DEF DigestInv, Early, Informed, Copied, Sent, Ending

\* What is sent stays sent; the digests grow only by one that is added, and then others know.
Adds(a) == Now(a).op = "new" /\ Now(a).t = "digests" /\ OthersSame(a, {"digests"})
LEMMA DigestMoves ==
  ASSUME TypeInv, NEW a \in Goroutines, Works(a) \/ Fails(a)
  PROVE  sent \subseteq sent' /\ (Adds(a) \/ DOMAIN db'["digests"] \subseteq DOMAIN db["digests"])
<1>1. CASE Fails(a)
  BY <1>1, FailFacts DEF ghosts, data
<1>2. CASE FreshStep(a)
  BY <1>2, FreshFacts DEF ghosts
<1>3. CASE ReadStep(a)
  <2>1. RunOnly
    BY <1>3, FreeFacts, GetFacts DEF ReadStep, At
  <2> QED
    BY <2>1 DEF RunOnly, ghosts, data
<1>4. CASE EachStep(a)
  BY <1>4, EachFacts DEF RunOnly, ghosts, data
<1>5. CASE UnlessStep(a)
  BY <1>5, UnlessFacts DEF RunOnly, ghosts, data
<1>6. CASE TakeStep(a)
  <2>1. "digests" \in Tables
    BY TableNames
  <2> QED
    BY <1>6, <2>1, TakeFacts DEF ghosts
<1>7. CASE SendStep(a)
  BY <1>7, SendFacts DEF data
<1>8. "digests" \in Tables
  BY TableNames
<1>9. CASE TouchStep(a)
  BY <1>8, <1>9, TouchFacts DEF ghosts
<1>10. CASE FillStep(a)
  BY <1>8, <1>10, FillFacts
<1>11. CASE DelStep(a)
  <2>1. sent' = sent
    BY <1>11, DelFacts
  <2>2. CASE Now(a).t = "digests"
    BY <1>11, <2>1, <2>2, DelFacts DEF Cut
  <2>3. CASE Now(a).t # "digests"
    BY <1>8, <1>11, <2>1, <2>3, DelFacts
  <2> QED
    BY <2>2, <2>3
<1>12. CASE WriteStep(a)
  <2>1. /\ sent' = sent /\ Active(a) /\ Now(a).op \in {"put", "blank", "new"} /\ OthersSame(a, {Now(a).t, Now(a).via})
        /\ Now(a).via = Now(a).t \/ (Now(a).t = "prs" /\ Now(a).via = "prindex")
        /\ \A u \in Tables \ {Now(a).t, Now(a).via} : db'[u] = db[u]
    BY <1>12, WriteFacts
  <2>2. CASE Now(a).t = "digests"
    <3>1. Now(a) \in AnyStep(driver)
      BY <2>1, RunFacts
    <3>2. Now(a).op = "new"
      BY <2>1, <2>2, <3>1, FailedModes DEF Shape, OtherShape
    <3>3. {Now(a).t, Now(a).via} = {"digests"}
      BY <2>1, <2>2
    <3> QED
      BY <2>1, <2>2, <3>2, <3>3 DEF Adds
  <2>3. CASE Now(a).t # "digests"
    <3>1. db'["digests"] = db["digests"]
      BY <1>8, <2>1, <2>3
    <3> QED
      BY <2>1, <3>1
  <2> QED
    BY <2>2, <2>3
<1> QED
  BY <1>1, <1>2, <1>3, <1>4, <1>5, <1>6, <1>7, <1>9, <1>10, <1>11, <1>12 DEF Works

\* Nothing is put before the other steps but by loops that have a body, and branches.
LEMMA LapsPlaced ==
  ASSUME TypeInv, NEW a \in Goroutines, Works(a) \/ Fails(a), run'[a] # AtRest
  PROVE  \E X, n : /\ Placed(a, X, n)
                   /\ X # <<>> => Works(a) /\ Now(a).op \in Branches /\ (Now(a).op \in Loops => Now(a).body # <<>>)
<1>0. Worked(a) /\ Active(a)
  BY WorkedFacts DEF Worked
<1>1. Lapped(a, <<>>)
  BY NothingProgram DEF Lapped
<1>2. CASE Fails(a) \/ Now(a).op \notin Branches
  <2>1. Skips(a)
    BY <1>2, NoLaps
  <2>2. PICK n : Onward(driver, run[a], run'[a], <<>>, n)
    BY <2>1 DEF Skips
  <2>3. Placed(a, <<>>, n)
    BY <1>0, <1>1, <2>2, PlacesOf
  <2> QED
    BY <2>3
<1>3. CASE Works(a) /\ Now(a).op \in Loops /\ Now(a).body = <<>>
  <2>1. EachStep(a)
    BY <1>3 DEF Works, FreshStep, ReadStep, TakeStep, UnlessStep, WriteStep, TouchStep, DelStep, FillStep, SendStep, InCopy, At, Loops, Branches
  <2>2. Passes(a)
    BY <1>3, <2>1, NoBody
  <2>3. Onward(driver, run[a], run'[a], <<>>, 2)
    BY <2>2 DEF Passes
  <2>4. Placed(a, <<>>, 2)
    BY <1>0, <1>1, <2>3, PlacesOf
  <2> QED
    BY <2>4
<1>4. CASE Works(a) /\ Now(a).op \in Branches /\ (Now(a).op \in Loops => Now(a).body # <<>>)
  <2>1. PICK X, n : Placed(a, X, n)
    BY <1>0, WorkPlaces
  <2> QED
    BY <1>4, <2>1
<1> QED
  BY <1>2, <1>3, <1>4

\* A handler that adds a digest deletes none after that: no loop puts the one before the other.
LEMMA EarlyKept ==
  ASSUME TypeInv, NEW a \in Goroutines, Works(a) \/ Fails(a), Early(a)
  PROVE  Early(a)'
<1>1. CASE run'[a] = AtRest
  <2>1. DOMAIN run'[a].todo = {}
    BY <1>1, RestFacts
  <2> QED
    BY <2>1 DEF Early
<1>2. CASE run'[a] # AtRest
  <2>1. PICK X, n : Placed(a, X, n)
    BY <1>2, LapsPlaced
  <2>2. SUFFICES ASSUME NEW j \in DOMAIN run'[a].todo, NEW i \in 1..j - 1, DigestDel(run'[a].todo[j]),
                        run'[a].todo[i].op = "new", run'[a].todo[i].t = "digests"
                 PROVE  FALSE
    BY DEF Early
  <2>3. /\ Len(X) \in Nat /\ n \in Nat /\ n >= 2 /\ DOMAIN run[a].todo = 1..Len(run[a].todo) /\ Len(run[a].todo) \in Nat
        /\ DOMAIN run'[a].todo = 1..Len(run'[a].todo) /\ Len(run'[a].todo) \in Nat
        /\ \A m \in DOMAIN run'[a].todo : Comes(a, X, n, m)
    BY <2>1 DEF Placed
  <2>4. j \in Nat /\ i \in DOMAIN run'[a].todo /\ i \in Nat /\ i < j
    BY <2>2, <2>3
  <2>5. ~Lapping(a, X[i]) \/ run'[a].todo[i] # X[i]
    BY <2>2 DEF Lapping, Inner
  <2>6. i > Len(X) /\ Was(X, n, i) \in DOMAIN run[a].todo /\ run'[a].todo[i] = run[a].todo[Was(X, n, i)]
    BY <2>3, <2>4, <2>5 DEF Comes
  <2>7. j > Len(X) /\ j \notin 1..Len(X)
    BY <2>3, <2>4, <2>6
  <2>8. Was(X, n, j) \in DOMAIN run[a].todo /\ run'[a].todo[j] = run[a].todo[Was(X, n, j)]
    BY <2>3, <2>7 DEF Comes
  <2>9. Was(X, n, i) \in 1..Was(X, n, j) - 1
    BY <2>3, <2>4, <2>6, <2>8 DEF Was
  <2> QED
    BY <2>2, <2>6, <2>8, <2>9 DEF Early
<1> QED
  BY <1>1, <1>2

\* Who is to send the digests, or is to read who wants them, has a copy of all there are.
LEMMA CopiedKept ==
  ASSUME TypeInv, NEW a \in Goroutines, Works(a) \/ Fails(a), Unmoved(a), Informed(a), run'[a] # AtRest,
         Now(a)'.op = "send" \/ PrefsRead(Now(a)')
  PROVE  Copied(a)'
<1>1. Worked(a)
  BY WorkedFacts
<1>2. Active(a)
  BY <1>1 DEF Worked
<1>3. Now(a)' = run'[a].todo[1]
  <2>1. PICK X, n : Placed(a, X, n)
    BY LapsPlaced
  <2> QED
    BY <2>1 DEF Placed, Now
<1>4. NeedsBefore(driver, run'[a].todo[1])
  BY <1>3 DEF NeedsBefore
<1>5. Gives(driver, Now(a), run'[a].todo[1])
  BY <1>1, <1>4, NextNeeds
<1>6. \/ PrefsRead(Now(a))
      \/ DigestList(Now(a)) /\ Now(a).failed = "end"
  BY <1>3, <1>5 DEF Gives
<1>7. Now(a).failed = "end"
  <2>1. Now(a) \in AnyStep(driver)
    BY <1>2, RunFacts
  <2> QED
    BY <1>6, <2>1, FailedModes DEF Shape, OtherShape, PrefsRead
<1>8. Works(a)
  BY <1>7, FailFacts
<1>9. Now(a).op # "new"
  BY <1>6 DEF PrefsRead, DigestList
<1>10. DOMAIN db'["digests"] \subseteq DOMAIN db["digests"]
  BY <1>9, DigestMoves DEF Adds
<1>11. DOMAIN run'[a].copy = DOMAIN run[a].copy \cup Reads(a)
  BY <1>8, CopyWorks DEF CopyGrown
<1>12. CASE PrefsRead(Now(a))
  <2>1. Copied(a)
    BY <1>12 DEF Informed
  <2> QED
    BY <1>10, <1>11, <2>1 DEF Copied
<1>13. CASE DigestList(Now(a))
  <2>1. Now(a).op \in Loops /\ Now(a).op = "each" /\ Now(a).t = "digests" /\ Now(a).via = "digests" /\ Now(a).op # "get"
    BY <1>13 DEF DigestList, Loops, Branches
  <2>2. Listed(a) = DOMAIN db["digests"]
    BY <1>2, <2>1, ListedFacts
  <2>3. Reads(a) = {"digests"} \X DOMAIN db["digests"]
    BY <2>1, <2>2 DEF Reads
  <2> QED
    BY <1>10, <1>11, <2>3 DEF Copied
<1> QED
  BY <1>6, <1>12, <1>13

\* Who is to delete digests has sent all there are.
LEMMA SentKept ==
  ASSUME TypeInv, ZeroInv, NEW a \in Goroutines, Works(a) \/ Fails(a), Unmoved(a), Early(a), Informed(a), run'[a] # AtRest,
         Ending(a)'
  PROVE  Sent(a)'
<1>1. Worked(a)
  BY WorkedFacts
<1>2. Active(a)
  BY <1>1 DEF Worked
<1>3. PICK X, n : /\ Placed(a, X, n)
                  /\ X # <<>> => Works(a) /\ Now(a).op \in Branches /\ (Now(a).op \in Loops => Now(a).body # <<>>)
  BY LapsPlaced
<1>4. Now(a)' = run'[a].todo[1]
  BY <1>3 DEF Placed, Now
<1>5. sent \subseteq sent' /\ (Adds(a) \/ DOMAIN db'["digests"] \subseteq DOMAIN db["digests"])
  BY DigestMoves
<1>6. Now(a) \in AnyStep(driver) /\ Now(a) = run[a].todo[1] /\ 1 \in DOMAIN run[a].todo
  BY <1>2, RunFacts
<1>7. CASE DigestLoop(Now(a)')
  <2>1. NeedsBefore(driver, run'[a].todo[1])
    BY <1>4, <1>7 DEF NeedsBefore
  <2>2. Gives(driver, Now(a), run'[a].todo[1])
    BY <1>1, <2>1, NextNeeds
  <2>3. Now(a).op = "send"
    BY <1>4, <1>7, <2>2 DEF Gives
  <2>4. SendStep(a)
    BY <2>3, FailFacts DEF Works, FreshStep, ReadStep, TakeStep, EachStep, UnlessStep, WriteStep, TouchStep, DelStep, FillStep, InCopy, At
  <2>5. sent' = sent \cup {k \in Keys : <<"digests", k>> \in DOMAIN run[a].copy}
    BY <2>4, SendFacts
  <2>6. Copied(a)
    BY <2>3 DEF Informed
  <2>7. DOMAIN db["digests"] \subseteq Keys
    <3>1. "digests" \in Tables
      BY TableNames
    <3>2. DOMAIN db["digests"] \subseteq Keys0 /\ 0 \notin DOMAIN db["digests"]
      BY <3>1 DEF TypeInv, ZeroInv
    <3> QED
      BY <3>2 DEF Keys0
  <2>8. DOMAIN db'["digests"] \subseteq DOMAIN db["digests"]
    BY <1>5, <2>3 DEF Adds
  <2> QED
    BY <2>5, <2>6, <2>7, <2>8 DEF Copied, Sent
<1>8. CASE \E m \in DOMAIN run'[a].todo : DigestDel(run'[a].todo[m])
  <2>1. PICK m \in DOMAIN run'[a].todo : DigestDel(run'[a].todo[m])
    BY <1>8
  <2>2. Comes(a, X, n, m) /\ n \in 2..Len(run[a].todo) + 1 /\ DOMAIN run[a].todo = 1..Len(run[a].todo)
        /\ Len(run[a].todo) \in Nat /\ Len(X) \in Nat /\ DOMAIN X = 1..Len(X)
    BY <1>3, <2>1 DEF Placed
  <2>3. CASE m \in 1..Len(X) /\ run'[a].todo[m] = X[m] /\ Lapping(a, X[m])
    <3>1. Now(a).t = "digests" /\ Now(a).op \in Loops
      BY <2>1, <2>3 DEF Lapping, Inner, DigestDel
    <3>2. Now(a).op = "each"
      BY <1>6, <3>1, FailedModes DEF Shape, OtherShape, Loops, Branches
    <3>3. X # <<>>
      BY <2>2, <2>3
    <3>4. Now(a).body # <<>>
      BY <1>3, <3>1, <3>3
    <3>5. Ending(a)
      BY <3>1, <3>2, <3>4 DEF Ending, DigestLoop
    <3>6. Sent(a)
      BY <3>5 DEF Informed
    <3> QED
      BY <1>5, <3>2, <3>6 DEF Sent, Adds
  <2>4. CASE Was(X, n, m) \in DOMAIN run[a].todo /\ Was(X, n, m) >= n /\ run'[a].todo[m] = run[a].todo[Was(X, n, m)]
    <3> DEFINE j == Was(X, n, m)
    <3>1. j \in DOMAIN run[a].todo /\ DigestDel(run[a].todo[j]) /\ 1 \in 1..j - 1
      BY <2>1, <2>2, <2>4
    <3> HIDE DEF j
    <3>2. ~Adds(a)
      BY <1>6, <3>1 DEF Early, Adds
    <3>3. Sent(a)
      BY <3>1 DEF Informed, Ending
    <3> QED
      BY <1>5, <3>2, <3>3 DEF Sent
  <2> QED
    BY <2>2, <2>3, <2>4 DEF Comes
<1> QED
  BY <1>7, <1>8 DEF Ending

LEMMA DigestOthers ==
  ASSUME TypeInv, NEW a \in Goroutines, OthersSame(a, {}), sent \subseteq sent',
         Adds(a) \/ DOMAIN db'["digests"] \subseteq DOMAIN db["digests"],
         NEW c \in Goroutines \ {a}, Early(c), Informed(c)
  PROVE  Early(c)' /\ Informed(c)'
<1>1. /\ run'[c].todo = run[c].todo /\ run'[c].copy = run[c].copy /\ run[c].touched \subseteq run'[c].touched
      /\ Active(c)' = Active(c) /\ Now(c)' = Now(c)
  BY OthersNext
<1>2. Early(c)'
  BY <1>1 DEF Early
<1>3. ASSUME Unmoved(c)' PROVE DOMAIN db'["digests"] \subseteq DOMAIN db["digests"]
  <2>1. Active(c) /\ "digests" \notin run'[c].touched
    BY <1>1, <1>3 DEF Unmoved
  <2>2. CASE Adds(a)
    <3>1. OthersSame(a, {"digests"})
      BY <2>2 DEF Adds
    <3>2. {"digests"} \cap Asked \subseteq run'[c].touched
      BY <2>1, <3>1, OthersNext
    <3> QED
      BY <2>1, <3>2 DEF Asked
  <2> QED
    BY <2>2
<1>4. Unmoved(c)' => Unmoved(c)
  BY <1>1 DEF Unmoved
<1>5. Ending(c)' <=> Ending(c)
  BY <1>1 DEF Ending
<1>6. Unmoved(c)' /\ Copied(c) => Copied(c)'
  BY <1>1, <1>3 DEF Copied
<1>7. Unmoved(c)' /\ Sent(c) => Sent(c)'
  BY <1>3 DEF Sent
<1>8. Informed(c)'
  BY <1>1, <1>4, <1>5, <1>6, <1>7 DEF Informed
<1> QED
  BY <1>2, <1>8

LEMMA DigestWorks ==
  ASSUME TypeInv, ZeroInv, DigestInv, NEW a \in Goroutines, Works(a) \/ Fails(a)
  PROVE  DigestInv'
<1>1. Worked(a) /\ OthersSame(a, {})
  BY WorkedFacts DEF Worked
<1>2. /\ \A c \in Goroutines : Early(c) /\ Informed(c)
      /\ sent \subseteq sent' /\ (Adds(a) \/ DOMAIN db'["digests"] \subseteq DOMAIN db["digests"])
  BY DigestParts, DigestMoves
<1>3. ASSUME NEW c \in Goroutines \ {a} PROVE Early(c)' /\ Informed(c)'
  BY <1>1, <1>2, <1>3, DigestOthers
<1>4. Early(a)'
  BY <1>2, EarlyKept
<1>5. ASSUME Unmoved(a)'
      PROVE  /\ Now(a)'.op = "send" \/ PrefsRead(Now(a)') => Copied(a)'
             /\ Ending(a)' => Sent(a)'
  <2>1. run'[a] # AtRest
    <3>1. run'[a].todo # <<>>
      BY <1>5 DEF Unmoved, Active
    <3> QED
      BY <3>1, RestFacts
  <2>2. PICK X, n : Placed(a, X, n)
    BY <2>1, LapsPlaced
  <2>3. Active(a) /\ run[a].touched \subseteq run'[a].touched
    BY <1>1, <2>2 DEF Placed, Worked
  <2>4. Unmoved(a)
    BY <1>5, <2>3 DEF Unmoved
  <2>5. Now(a)'.op = "send" \/ PrefsRead(Now(a)') => Copied(a)'
    BY <1>2, <2>1, <2>4, CopiedKept
  <2>6. Ending(a)' => Sent(a)'
    BY <1>2, <2>1, <2>4, SentKept
  <2> QED
    BY <2>5, <2>6
<1>6. PrefsRead(Now(a))' <=> PrefsRead(Now(a)')
  BY DEF PrefsRead
<1>7. Informed(a)'
  BY <1>5, <1>6 DEF Informed
<1>8. \A c \in Goroutines : Early(c)' /\ Informed(c)'
  BY <1>3, <1>4, <1>7
<1> QED
  BY <1>8, DigestParts DEF DigestInv, Early, Informed, Copied, Sent, Ending

LEMMA DigestStarts ==
  ASSUME TypeInv, DigestInv, NEW a, StartStep(a)
  PROVE  DigestInv'
<1>1. a \in Goroutines /\ OthersSame(a, {}) /\ db' = db /\ sent' = sent
  BY DEF StartStep, data, ghosts
<1>2. \A c \in Goroutines : Early(c) /\ Informed(c)
  BY DigestParts
<1>3. ASSUME NEW c \in Goroutines \ {a} PROVE Early(c)' /\ Informed(c)'
  BY <1>1, <1>2, <1>3, DigestOthers
<1>4. CASE ~Active(a)'
  <2>1. run'[a].todo = <<>>
    BY <1>4 DEF Active
  <2>2. DOMAIN run'[a].todo = {}
    BY <2>1
  <2>3. Early(a)' /\ Informed(a)'
    BY <1>4, <2>2 DEF Early, Informed, Unmoved
  <2> QED
    BY <1>3, <2>3 DEF DigestInv, Early, Informed, Copied, Sent, Ending
<1>5. CASE Active(a)'
  <2>1. /\ Startable(driver, run'[a].todo) /\ Now(a)' = run'[a].todo[1]
        /\ run'[a].todo[1].op = "take" \/ ~NeedsBefore(driver, run'[a].todo[1])
    BY <1>5, StartFacts
  <2>2. \A i \in DOMAIN run'[a].todo : ~DigestDel(run'[a].todo[i])
    BY <2>1 DEF Startable, TopShape
  <2>3. Early(a)'
    BY <2>2 DEF Early, DigestDel
  <2>4. ~(Now(a)'.op = "send") /\ ~PrefsRead(Now(a)') /\ ~DigestLoop(Now(a)')
    BY <2>1 DEF NeedsBefore, PrefsRead, DigestLoop
  <2>5. PrefsRead(Now(a))' <=> PrefsRead(Now(a)')
    BY DEF PrefsRead
  <2>6. DigestLoop(Now(a))' <=> DigestLoop(Now(a)')
    BY DEF DigestLoop
  <2>7. ~Ending(a)'
    BY <2>2, <2>4, <2>6 DEF Ending, DigestDel
  <2>8. Informed(a)'
    BY <2>4, <2>5, <2>7 DEF Informed
  <2> QED
    BY <1>3, <2>3, <2>8 DEF DigestInv, Early, Informed, Copied, Sent, Ending
<1> QED
  BY <1>4, <1>5

LEMMA DigestNone ==
  ASSUME \A a \in Goroutines : run[a] = AtRest
  PROVE  DigestInv
<1>1. ASSUME NEW a \in Goroutines PROVE Early(a) /\ Informed(a)
  <2>1. run[a].todo = <<>> /\ DOMAIN run[a].todo = {}
    BY RestFacts
  <2> QED
    BY <2>1 DEF Early, Informed, Unmoved, Active
<1> QED
  BY <1>1, DigestParts

\* What deletes digests comes after the digests were sent.
LEMMA DigestGone ==
  ASSUME TypeInv, DigestInv, NEW a \in Goroutines, Works(a) \/ Fails(a), NEW k \in DOMAIN db["digests"] \ DOMAIN db'["digests"]
  PROVE  k \in sent \/ (Active(a) /\ "digests" \in run[a].touched)
<1>1. Works(a)
  BY FailFacts DEF data
<1>2. "digests" \in Tables /\ Moved(a) /\ Worked(a)
  BY <1>1, TableNames, MovedFacts, WorkedFacts
<1>3. Active(a) /\ Now(a) \in AnyStep(driver) /\ Now(a) = run[a].todo[1] /\ 1 \in DOMAIN run[a].todo
  BY <1>2, RunFacts DEF Worked
<1>4. DOMAIN db'["digests"] # DOMAIN db["digests"] /\ db'["digests"] # db["digests"] /\ ~Grows("digests", Key(a))
  BY DEF Grows
<1>5. Now(a).t = "digests" /\ Now(a).op \in {"del", "take", "purge", "purgeidle", "forget"}
  BY <1>2, <1>4 DEF Moved
<1>6. Now(a).op \in {"del", "purge"}
  BY <1>3, <1>5, FailedModes DEF Shape, OtherShape
<1>7. Ending(a)
  BY <1>3, <1>5, <1>6 DEF Ending, DigestLoop, DigestDel
<1>8. Informed(a)
  BY DigestParts
<1> QED
  BY <1>3, <1>7, <1>8 DEF Informed, Unmoved, Sent

\* A digest is deleted unsent only if another goroutine changed the digests after they were
\* listed: FlushDigests sends what it has listed, and deletes what there is after that.
THEOREM DigestsHold == RecordsSpec => DigestsSent
<1> DEFINE Gone == \A k \in DOMAIN db["digests"] \ DOMAIN db'["digests"] :
                     k \in sent \/ \E a \in Goroutines : Active(a) /\ "digests" \in run[a].touched
<1>1. Init => DigestInv
  <2>1. ASSUME Init PROVE \A a \in Goroutines : run[a] = AtRest
    BY <2>1, InitRuns
  <2> QED
    BY <2>1, DigestNone
<1>2. ASSUME BaseInv, DigestInv, [Next]_vars PROVE DigestInv' /\ (Gone \/ UNCHANGED vars)
  <2>1. TypeInv /\ ZeroInv /\ Ways
    BY <1>2, BaseNext DEF BaseInv
  <2>2. CASE \E a \in Goroutines : StartStep(a)
    <3>1. PICK a \in Goroutines : StartStep(a)
      BY <2>2
    <3>2. DigestInv'
      BY <1>2, <2>1, <3>1, DigestStarts
    <3>3. db' = db
      BY <3>1 DEF StartStep, data
    <3> QED
      BY <3>2, <3>3
  <2>3. CASE Crash
    <3>1. \A a \in Goroutines : run'[a] = AtRest
      BY <2>1, <2>3, CrashFacts
    <3>2. \A a \in Goroutines : run'[a].todo = <<>> /\ DOMAIN run'[a].todo = {}
      BY <3>1, RestFacts
    <3>3. DigestInv'
      BY <3>2 DEF DigestInv, Unmoved, Active
    <3>4. db'["digests"] = db["digests"]
      <4>1. "digests" \in Tables /\ "digests" \notin Memory
        BY TableNames DEF Memory
      <4> QED
        BY <2>1, <2>3, <4>1, CrashFacts
    <3> QED
      BY <3>3, <3>4
  <2>4. CASE \E a \in Goroutines : (Works(a) \/ Fails(a)) /\ Worked(a)
    <3>1. PICK a \in Goroutines : Works(a) \/ Fails(a)
      BY <2>4
    <3>2. DigestInv'
      BY <1>2, <2>1, <3>1, DigestWorks
    <3>3. ASSUME NEW k \in DOMAIN db["digests"] \ DOMAIN db'["digests"]
          PROVE  k \in sent \/ \E c \in Goroutines : Active(c) /\ "digests" \in run[c].touched
      BY <1>2, <2>1, <3>1, <3>3, DigestGone
    <3> QED
      BY <3>2, <3>3
  <2>5. CASE UNCHANGED vars
    <3>1. run' = run /\ db' = db /\ sent' = sent
      BY <2>5 DEF vars, data, ghosts
    <3>2. DigestInv'
      BY <1>2, <3>1 DEF DigestInv, Unmoved, Active, Now
    <3> QED
      BY <2>5, <3>2
  <2> QED
    BY <2>1, <2>2, <2>3, <2>4, <2>5 DEF Ways
<1>3. BaseInv /\ DigestInv /\ [Next]_vars => DigestInv'
  BY <1>2
<1>4. BaseInv /\ DigestInv /\ [Next]_vars => [Gone]_vars
  BY <1>2
<1> QED
  BY <1>1, <1>3, <1>4, RecordsTyped, PTL DEF RecordsSpec, DigestsSent

-----------------------------------------------------------------------------
\* What is lost is lost to races

\* Which steps a step leaves out: those of the lap, or of the loop, that is left.  It is left
\* for an error, or for a record that is not there.
Skipping(a, n) ==
  /\ run[a].todo[1].failed \in {"next", "out"}
  /\ \A i \in 2..n - 1 : run[a].todo[i].key \in LeftOut(run[a].todo[1])
  /\ n \in DOMAIN run[a].todo => run[a].todo[n].key \notin LeftOut(run[a].todo[1])
  /\ Fails(a) \/ (Now(a).op = "get" /\ ~Has(Now(a).t, Key(a)))
Turns(a, X, n) ==
  /\ Placed(a, X, n)
  /\ n = 2 \/ (X = <<>> /\ Skipping(a, n))
  /\ X # <<>> => Works(a) /\ Now(a).op \in Branches
  /\ EachStep(a) => X = Laps(Listed(a), Now(a).body)

LEMMA Turning ==
  ASSUME TypeInv, NEW a \in Goroutines, Works(a) \/ Fails(a), run'[a] # AtRest
  PROVE  \E X, n : Turns(a, X, n)
<1>0. Worked(a) /\ Active(a)
  BY WorkedFacts DEF Worked
<1>1. Lapped(a, <<>>)
  BY NothingProgram DEF Lapped
<1>2. Passes(a) /\ ~EachStep(a) => \E X, n : Turns(a, X, n)
  <2>1. SUFFICES ASSUME Passes(a), ~EachStep(a) PROVE Turns(a, <<>>, 2)
    OBVIOUS
  <2>2. Onward(driver, run[a], run'[a], <<>>, 2)
    BY <2>1 DEF Passes
  <2>3. Placed(a, <<>>, 2)
    BY <1>0, <1>1, <2>2, PlacesOf
  <2> QED
    BY <2>1, <2>3 DEF Turns
<1>3. ASSUME Undoes(a), ~EachStep(a), Fails(a) \/ (Now(a).op = "get" /\ ~Has(Now(a).t, Key(a)))
      PROVE  \E X, n : Turns(a, X, n)
  <2>1. PICK n : Left(driver, run[a], run'[a], n)
    BY <1>3 DEF Undoes
  <2>2. Onward(driver, run[a], run'[a], <<>>, n)
    BY <2>1 DEF Left
  <2>3. Placed(a, <<>>, n)
    BY <1>0, <1>1, <2>2, PlacesOf
  <2>4. n = 2 \/ Skipping(a, n)
    BY <1>3, <2>1 DEF Left, Skipping
  <2> QED
    BY <1>3, <2>3, <2>4 DEF Turns
<1>4. CASE Fails(a)
  <2>1. CASE EachStep(a)
    <3>1. faults' = faults /\ faults' = faults - 1 /\ faults \in Nat
      BY <1>4, <2>1, EachFacts, FailFacts DEF RunOnly, TypeInv
    <3> QED
      BY <3>1
  <2> QED
    BY <1>3, <1>4, <2>1, FailFacts
<1>5. CASE FreshStep(a)
  BY <1>2, <1>5, FreshFacts DEF EachStep, At
<1>6. CASE ReadStep(a)
  <2>0. ~EachStep(a)
    BY <1>6 DEF ReadStep, EachStep, At
  <2>1. CASE Now(a).op = "get"
    <3>1. CASE Has(Now(a).t, Key(a))
      BY <1>2, <1>6, <2>0, <2>1, <3>1, GetFacts
    <3>2. CASE ~Has(Now(a).t, Key(a))
      BY <1>3, <1>6, <2>0, <2>1, <3>2, GetFacts
    <3> QED
      BY <3>1, <3>2
  <2>2. CASE Now(a).op \in {"free", "any"}
    BY <1>2, <1>6, <2>0, <2>2, FreeFacts
  <2> QED
    BY <1>6, <2>1, <2>2 DEF ReadStep, At
<1>7. CASE TakeStep(a)
  BY <1>2, <1>7, TakeFacts DEF EachStep, At
<1>8. CASE WriteStep(a)
  BY <1>2, <1>8, WriteFacts DEF EachStep, At
<1>9. CASE TouchStep(a)
  BY <1>2, <1>9, TouchFacts DEF EachStep, At
<1>10. CASE DelStep(a)
  BY <1>2, <1>10, DelFacts DEF EachStep, At
<1>11. CASE FillStep(a)
  BY <1>2, <1>11, FillFacts DEF EachStep, At
<1>12. CASE SendStep(a)
  BY <1>2, <1>12, SendFacts DEF EachStep, At
<1>13. CASE EachStep(a)
  <2> DEFINE X == Laps(Listed(a), Now(a).body)
  <2>1. Lapped(a, X) /\ Loops2(a, X) /\ Now(a).op \in Loops
    BY <1>13, EachFacts
  <2> HIDE DEF X
  <2>2. Placed(a, X, 2)
    BY <1>0, <2>1, PlacesOf DEF Loops2
  <2>3. Works(a)
    BY <1>13 DEF Works
  <2>4. Turns(a, X, 2)
    BY <2>1, <2>2, <2>3 DEF Turns, Branches, X
  <2> QED
    BY <2>4
<1>14. CASE UnlessStep(a)
  <2>1. Now(a).op \in {"unless", "again"} /\ (Passes(a) \/ \E X : Lapped(a, X) /\ Loops2(a, X))
    BY <1>14, UnlessFacts
  <2>2. ~EachStep(a) /\ Works(a)
    BY <2>1, <1>14 DEF EachStep, At, Works
  <2>3. ASSUME NEW X, Lapped(a, X), Loops2(a, X) PROVE Turns(a, X, 2)
    <3>1. Placed(a, X, 2)
      BY <1>0, <2>3, PlacesOf DEF Loops2
    <3> QED
      BY <2>1, <2>2, <3>1 DEF Turns, Branches
  <2> QED
    BY <1>2, <2>1, <2>2, <2>3
<1> QED
  BY <1>4, <1>5, <1>6, <1>7, <1>8, <1>9, <1>10, <1>11, <1>12, <1>13, <1>14 DEF Works

\* Where a step of before is after the one that is taken: its place, and what is about it.
Now2(X, n, j) == j - n + 1 + Len(X)
LEMMA OldPlaces ==
  ASSUME NEW a, NEW X, NEW n, Placed(a, X, n)
  PROVE  /\ \A j \in DOMAIN run[a].todo : j >= n =>
              Now2(X, n, j) \in DOMAIN run'[a].todo /\ run'[a].todo[Now2(X, n, j)] = run[a].todo[j]
         /\ \A m \in DOMAIN run'[a].todo : m > Len(X) =>
              /\ Was(X, n, m) \in DOMAIN run[a].todo /\ Was(X, n, m) >= n /\ run'[a].todo[m] = run[a].todo[Was(X, n, m)]
              /\ Now2(X, n, Was(X, n, m)) = m
         /\ \A j, i \in DOMAIN run[a].todo : i < j <=> Now2(X, n, i) < Now2(X, n, j)
<1>1. /\ Len(X) \in Nat /\ n \in Nat /\ n >= 2 /\ DOMAIN run[a].todo = 1..Len(run[a].todo) /\ Len(run[a].todo) \in Nat
      /\ DOMAIN run'[a].todo = 1..Len(run'[a].todo) /\ Len(run'[a].todo) \in Nat
      /\ \A m \in DOMAIN run'[a].todo : Comes(a, X, n, m)
      /\ \A j \in n..Len(run[a].todo) : /\ j - n + 1 + Len(X) \in DOMAIN run'[a].todo
                                        /\ run'[a].todo[j - n + 1 + Len(X)] = run[a].todo[j]
  BY DEF Placed
<1>2. ASSUME NEW j \in DOMAIN run[a].todo, j >= n
      PROVE  Now2(X, n, j) \in DOMAIN run'[a].todo /\ run'[a].todo[Now2(X, n, j)] = run[a].todo[j]
  <2>1. j \in n..Len(run[a].todo)
    BY <1>1, <1>2
  <2> QED
    BY <1>1, <2>1 DEF Now2
<1>3. ASSUME NEW m \in DOMAIN run'[a].todo, m > Len(X)
      PROVE  /\ Was(X, n, m) \in DOMAIN run[a].todo /\ Was(X, n, m) >= n /\ run'[a].todo[m] = run[a].todo[Was(X, n, m)]
             /\ Now2(X, n, Was(X, n, m)) = m
  <2>1. m \in Nat /\ m \notin 1..Len(X)
    BY <1>1, <1>3
  <2>2. Comes(a, X, n, m)
    BY <1>1
  <2>3. Now2(X, n, Was(X, n, m)) = m
    BY <1>1, <2>1 DEF Now2, Was
  <2> QED
    BY <2>1, <2>2, <2>3 DEF Comes
<1>4. ASSUME NEW i \in DOMAIN run[a].todo, NEW j \in DOMAIN run[a].todo PROVE i < j <=> Now2(X, n, i) < Now2(X, n, j)
  BY <1>1 DEF Now2
<1> QED
  BY <1>2, <1>3, <1>4

\* A record is written over what was read of it, or will be read before.
ReadAt(r, j, i) == r.todo[j].op = "get" /\ r.todo[j].t = r.todo[i].t /\ \A m \in j..i : r.todo[m].key = r.todo[i].key
Safe(r, i) ==
  Rewrites(r.todo[i]) => \/ \E j \in 1..i - 1 : ReadAt(r, j, i)
                         \/ <<r.todo[i].t, KeyOf(r, r.todo[i])>> \in DOMAIN r.copy
                         \/ r.todo[i].t \in erred
LEMMA CoverParts == CoverInv <=> \A a \in Goroutines : \A i \in DOMAIN run[a].todo : Safe(run[a], i)
BY DEF CoverInv, Safe, ReadAt

LEMMA ErredGrows ==
  ASSUME TypeInv, NEW a \in Goroutines, Works(a) \/ Fails(a)
  PROVE  erred \subseteq erred' /\ (Fails(a) => erred' = erred \cup {Now(a).t})
<1>1. CASE Fails(a)
  BY <1>1, FailFacts
<1>2. CASE Works(a)
  <2>1. erred' = erred
    BY <1>2 DEF Works, FreshStep, ReadStep, TakeStep, EachStep, UnlessStep, WriteStep, TouchStep, DelStep, FillStep, SendStep, InCopy
  <2>2. ~Fails(a) \/ faults' = faults - 1
    BY DEF Fails
  <2>3. faults' = faults /\ faults \in Nat
    BY <1>2 DEF Works, FreshStep, ReadStep, TakeStep, EachStep, UnlessStep, WriteStep, TouchStep, DelStep, FillStep, SendStep, InCopy, TypeInv
  <2> QED
    BY <2>1, <2>2, <2>3
<1> QED
  BY <1>1, <1>2

LEMMA CopyStays ==
  ASSUME TypeInv, NEW a \in Goroutines, Works(a) \/ Fails(a), run'[a] # AtRest
  PROVE  /\ DOMAIN run[a].copy \subseteq DOMAIN run'[a].copy
         /\ Works(a) => Reads(a) \subseteq DOMAIN run'[a].copy
BY CopyWorks, CopyFails DEF CopyGrown

\* A step put before the others writes over what the loop has read.
LEMMA LapSafe ==
  ASSUME TypeInv, ZeroInv, NEW a \in Goroutines, Works(a), Active(a), run'[a] # AtRest, NEW b, Lapping(a, b), Rewrites(b)
  PROVE  <<b.t, KeyOf(run'[a], b)>> \in DOMAIN run'[a].copy
<1>1. PICK s : /\ Inner(driver, Now(a), s)
               /\ b.op = s.op /\ b.t = s.t /\ b.via = s.via /\ b.failed = s.failed /\ b.body = s.body
               /\ \/ Now(a).op \in Loops /\ b.key \in Listed(a)
                  \/ Now(a).op = "unless" /\ b.key = Now(a).key
                  \/ Now(a).op = "again" /\ b.key \in InCopy(a, Now(a).t)
  BY DEF Lapping
<1>2. Rewrites(s)
  BY <1>1 DEF Rewrites
<1>3. b.t = Now(a).t /\ Now(a).op \in Loops /\ b.t # "users"
  BY <1>1, <1>2 DEF Inner
<1>4. b.key \in Listed(a)
  BY <1>1, <1>3 DEF Loops, Branches
<1>5. Listed(a) \subseteq DOMAIN db[Now(a).t] /\ Now(a).t \in Tables
  BY <1>3, ListedFacts
<1>6. b.key # 0
  BY <1>4, <1>5 DEF ZeroInv
<1>7. KeyOf(run'[a], b) = b.key
  BY <1>3, <1>6 DEF KeyOf, Rewrites
<1>8. Now(a).op # "get"
  BY <1>3 DEF Loops, Branches
<1>9. Reads(a) = {Now(a).t} \X Listed(a)
  BY <1>3, <1>8 DEF Reads
<1> QED
  BY <1>3, <1>4, <1>7, <1>9, CopyStays

\* Where the steps between two of those that stay are, before and after
LEMMA BetweenPlaces ==
  ASSUME NEW X, NEW n \in Nat, Len(X) \in Nat, NEW p \in Nat, NEW j \in Nat, p >= n, p < j
  PROVE  /\ Now2(X, n, p) \in 1..Now2(X, n, j) - 1
         /\ \A q \in Now2(X, n, p)..Now2(X, n, j) :
              q \in Nat /\ q > Len(X) /\ q >= 1 /\ q <= Now2(X, n, j) /\ Was(X, n, q) \in p..j
<1> DEFINE l == Len(X)
<1>1. l \in Nat
  OBVIOUS
<1>2. \A q : Now2(X, n, q) = q - n + 1 + l /\ Was(X, n, q) = q - l + n - 1
  BY DEF Now2, Was
<1> HIDE DEF l
<1>3. Now2(X, n, p) \in 1..Now2(X, n, j) - 1
  BY <1>1, <1>2
<1>4. ASSUME NEW q \in Now2(X, n, p)..Now2(X, n, j)
      PROVE  q \in Nat /\ q > l /\ q >= 1 /\ q <= Now2(X, n, j) /\ Was(X, n, q) \in p..j
  BY <1>1, <1>2
<1> QED
  BY <1>3, <1>4 DEF l

\* A step that was there before
LEMMA OldSafe ==
  ASSUME TypeInv, NEW a \in Goroutines, Works(a) \/ Fails(a), run'[a] # AtRest, NEW X, NEW n, Turns(a, X, n),
         NEW j \in DOMAIN run[a].todo, j >= n, Safe(run[a], j)
  PROVE  Safe(run[a], Now2(X, n, j))'
<1> DEFINE s == run[a].todo[j]
           m == Now2(X, n, j)
<1>1. /\ Placed(a, X, n) /\ Len(X) \in Nat /\ n \in Nat /\ n >= 2 /\ Len(run[a].todo) \in Nat
      /\ DOMAIN run[a].todo = 1..Len(run[a].todo) /\ run'[a].key = run[a].key
  BY DEF Turns, Placed
<1>2. m \in DOMAIN run'[a].todo /\ run'[a].todo[m] = s /\ j \in Nat /\ m \in Nat
  <2>1. m \in DOMAIN run'[a].todo /\ run'[a].todo[m] = s
    BY <1>1, OldPlaces
  <2>2. DOMAIN run'[a].todo = 1..Len(run'[a].todo)
    BY <1>1 DEF Placed
  <2> HIDE DEF m, s
  <2> QED
    BY <1>1, <2>1, <2>2
<1>3. SUFFICES ASSUME Rewrites(s)
               PROVE  \/ \E p \in 1..m - 1 : ReadAt(run'[a], p, m)
                      \/ <<s.t, KeyOf(run'[a], s)>> \in DOMAIN run'[a].copy
                      \/ s.t \in erred'
  BY <1>2 DEF Safe
<1>4. KeyOf(run'[a], s) = KeyOf(run[a], s)
  BY <1>1, <1>3 DEF KeyOf, Rewrites
<1>5. Active(a) /\ Now(a) = run[a].todo[1]
  <2>1. Active(a)
    BY WorkedFacts DEF Worked
  <2> QED
    BY <2>1, RunFacts
<1>6. CASE <<s.t, KeyOf(run[a], s)>> \in DOMAIN run[a].copy
  BY <1>4, <1>6, CopyStays
<1>7. CASE s.t \in erred
  BY <1>7, ErredGrows
<1>8. CASE \E p \in 1..j - 1 : ReadAt(run[a], p, j)
  <2>1. PICK p \in 1..j - 1 : ReadAt(run[a], p, j)
    BY <1>8
  <2>2. /\ run[a].todo[p].op = "get" /\ run[a].todo[p].t = s.t
        /\ \A q \in p..j : run[a].todo[q].key = s.key
    BY <2>1 DEF ReadAt
  <2>3. p \in DOMAIN run[a].todo /\ p \in Nat /\ p >= 1 /\ p < j /\ p \in p..j
    BY <1>1, <1>2, <2>1
  <2> HIDE DEF s
  <2>4. CASE p >= n
    <3>1. /\ Now2(X, n, p) \in DOMAIN run'[a].todo /\ run'[a].todo[Now2(X, n, p)] = run[a].todo[p]
          /\ Now2(X, n, p) < m
      BY <1>1, <2>3, <2>4, OldPlaces
    <3>2. /\ Now2(X, n, p) \in 1..m - 1
          /\ \A q \in Now2(X, n, p)..m : q \in Nat /\ q > Len(X) /\ q >= 1 /\ q <= m /\ Was(X, n, q) \in p..j
      BY <1>1, <1>2, <2>3, <2>4, BetweenPlaces
    <3>3. ASSUME NEW q \in Now2(X, n, p)..m PROVE run'[a].todo[q].key = s.key
      <4>1. DOMAIN run'[a].todo = 1..Len(run'[a].todo) /\ Len(run'[a].todo) \in Nat
        BY <1>1 DEF Placed
      <4> HIDE DEF m
      <4>2. q \in DOMAIN run'[a].todo /\ q > Len(X) /\ Was(X, n, q) \in p..j
        BY <1>2, <3>2, <4>1
      <4>3. run'[a].todo[q] = run[a].todo[Was(X, n, q)]
        BY <1>1, <4>2, OldPlaces
      <4> QED
        BY <2>2, <4>2, <4>3
    <3>4. ReadAt(run'[a], Now2(X, n, p), m)
      BY <1>2, <2>2, <3>1, <3>3 DEF ReadAt
    <3> HIDE DEF m
    <3> QED
      BY <3>2, <3>4
  <2>5. CASE p = 1
    <3>1. Now(a).op = "get" /\ Now(a).t = s.t /\ Now(a).key = s.key
      BY <1>5, <2>2, <2>3, <2>5
    <3>2. CASE Fails(a)
      BY <3>1, <3>2, ErredGrows
    <3>3. CASE Works(a)
      <4>1. Reads(a) = {<<s.t, Key(a)>>}
        BY <3>1 DEF Reads
      <4>2. Key(a) = KeyOf(run[a], s)
        BY <1>3, <3>1 DEF Key, KeyOf, Rewrites
      <4> QED
        BY <1>4, <3>3, <4>1, <4>2, CopyStays
    <3> QED
      BY <3>2, <3>3
  <2>6. CASE p > 1 /\ p < n
    <3>1. Skipping(a, n)
      BY <1>1, <2>3, <2>6 DEF Turns
    <3>2. p \in 2..n - 1 /\ n \in p..j /\ n \in DOMAIN run[a].todo
      BY <1>1, <1>2, <2>3, <2>6
    <3>3. run[a].todo[p].key = s.key /\ run[a].todo[n].key = s.key
      BY <2>2, <2>3, <3>2
    <3> QED
      BY <3>1, <3>2, <3>3 DEF Skipping
  <2> QED
    BY <1>1, <2>3, <2>4, <2>5, <2>6
<1> QED
  BY <1>3, <1>6, <1>7, <1>8 DEF Safe

LEMMA CoverWorks ==
  ASSUME TypeInv, ZeroInv, CoverInv, NEW a \in Goroutines, Works(a) \/ Fails(a)
  PROVE  CoverInv'
<1>1. Active(a) /\ OthersSame(a, {})
  BY WorkedFacts DEF Worked
<1>2. erred \subseteq erred' /\ \A c \in Goroutines : \A i \in DOMAIN run[c].todo : Safe(run[c], i)
  BY ErredGrows, CoverParts
<1>3. ASSUME NEW c \in Goroutines \ {a}, NEW i \in DOMAIN run'[c].todo PROVE Safe(run[c], i)'
  <2>1. run'[c].todo = run[c].todo /\ run'[c].copy = run[c].copy /\ \A s : KeyOf(run'[c], s) = KeyOf(run[c], s)
    BY <1>1, OthersNext
  <2>2. Safe(run[c], i)
    BY <1>2, <2>1
  <2>3. \A j : ReadAt(run'[c], j, i) <=> ReadAt(run[c], j, i)
    BY <2>1 DEF ReadAt
  <2> QED
    BY <1>2, <2>1, <2>2, <2>3 DEF Safe
<1>4. ASSUME NEW m \in DOMAIN run'[a].todo PROVE Safe(run[a], m)'
  <2>1. run'[a] # AtRest
    <3>1. DOMAIN AtRest.todo = {}
      BY RestFacts
    <3> QED
      BY <3>1
  <2>2. PICK X, n : Turns(a, X, n)
    BY <2>1, Turning
  <2>3. Placed(a, X, n)
    BY <2>2 DEF Turns
  <2>4. Comes(a, X, n, m) /\ Len(X) \in Nat /\ DOMAIN X = 1..Len(X)
    BY <2>3 DEF Placed
  <2>5. CASE m \in 1..Len(X) /\ run'[a].todo[m] = X[m] /\ Lapping(a, X[m])
    <3>1. Works(a)
      BY <2>2, <2>4, <2>5 DEF Turns
    <3>2. Rewrites(X[m]) => <<X[m].t, KeyOf(run'[a], X[m])>> \in DOMAIN run'[a].copy
      BY <1>1, <2>1, <2>5, <3>1, LapSafe
    <3> QED
      BY <2>5, <3>2 DEF Safe
  <2>6. CASE m > Len(X)
    <3>1. Was(X, n, m) \in DOMAIN run[a].todo /\ Was(X, n, m) >= n /\ Now2(X, n, Was(X, n, m)) = m
      BY <2>3, <2>6, OldPlaces
    <3>2. Safe(run[a], Was(X, n, m))
      BY <1>2, <3>1
    <3> DEFINE j == Was(X, n, m)
    <3> HIDE DEF j
    <3>3. j \in DOMAIN run[a].todo /\ j >= n /\ Safe(run[a], j)
      BY <3>1, <3>2 DEF j
    <3>4. Safe(run[a], Now2(X, n, j))'
      BY <2>1, <2>2, <3>3, OldSafe
    <3> QED
      BY <3>1, <3>4 DEF j
  <2> QED
    BY <2>4, <2>5, <2>6 DEF Comes
<1>5. \A c \in Goroutines : \A i \in DOMAIN run'[c].todo : Safe(run[c], i)'
  BY <1>3, <1>4
<1> QED
  BY <1>5 DEF CoverInv, Safe, ReadAt

LEMMA CoverStarts ==
  ASSUME TypeInv, CoverInv, NEW a, StartStep(a)
  PROVE  CoverInv'
<1>1. a \in Goroutines /\ OthersSame(a, {}) /\ erred' = erred
  BY DEF StartStep
<1>2. ASSUME NEW c \in Goroutines \ {a}, NEW i \in DOMAIN run'[c].todo PROVE Safe(run[c], i)'
  <2>1. run'[c].todo = run[c].todo /\ run'[c].copy = run[c].copy /\ \A s : KeyOf(run'[c], s) = KeyOf(run[c], s)
    BY <1>1, OthersNext
  <2>2. Safe(run[c], i)
    BY <2>1, CoverParts
  <2>3. \A j : ReadAt(run'[c], j, i) <=> ReadAt(run[c], j, i)
    BY <2>1 DEF ReadAt
  <2> QED
    BY <1>1, <2>1, <2>2, <2>3 DEF Safe
<1>3. ASSUME NEW i \in DOMAIN run'[a].todo PROVE Safe(run[a], i)'
  <2>1. Active(a)'
    <3>1. run'[a].todo # <<>>
      BY <1>3
    <3> QED
      BY <3>1 DEF Active
  <2>2. Startable(driver, run'[a].todo) /\ run'[a].todo \in Todos(driver)
    BY <2>1, StartFacts
  <2>3. \A m \in DOMAIN run'[a].todo : run'[a].todo[m].key = 0
    BY <2>2 DEF Startable, TopShape
  <2>4. Rewrites(run'[a].todo[i]) => \E j \in 1..i - 1 : run'[a].todo[j].op = "get" /\ run'[a].todo[j].t = run'[a].todo[i].t
    BY <2>2 DEF Startable, Covered
  <2>5. DOMAIN run'[a].todo = 1..Len(run'[a].todo) /\ Len(run'[a].todo) \in Nat
    BY <2>2, TodoLens
  <2>6. ASSUME NEW j \in 1..i - 1, run'[a].todo[j].op = "get", run'[a].todo[j].t = run'[a].todo[i].t PROVE ReadAt(run'[a], j, i)
    <3>1. ASSUME NEW m \in j..i PROVE m \in DOMAIN run'[a].todo
      BY <2>5
    <3> QED
      BY <2>3, <2>6, <3>1 DEF ReadAt
  <2> QED
    BY <2>4, <2>6 DEF Safe
<1>4. \A c \in Goroutines : \A i \in DOMAIN run'[c].todo : Safe(run[c], i)'
  BY <1>2, <1>3
<1> QED
  BY <1>4 DEF CoverInv, Safe, ReadAt

-----------------------------------------------------------------------------
\* A handler that has written is a step further.
LEMMA WrittenFurther ==
  ASSUME TypeInv, NEW a \in Goroutines, WriteStep(a)
  PROVE  run'[a].todo # run[a].todo
<1>1. Active(a) /\ Passes(a) /\ run[a].todo # <<>>
  BY WriteFacts DEF Active
<1>2. CASE run'[a] = AtRest
  <2>1. run'[a].todo = <<>>
    BY <1>2, RestFacts
  <2> QED
    BY <1>1, <2>1
<1>3. CASE run'[a] # AtRest
  <2>1. Onward(driver, run[a], run'[a], <<>>, 2)
    BY <1>1, <1>3 DEF Passes
  <2>2. Lapped(a, <<>>)
    BY NothingProgram DEF Lapped
  <2>3. Placed(a, <<>>, 2)
    BY <1>1, <2>1, <2>2, PlacesOf
  <2>4. Len(<<>>) = 0
    OBVIOUS
  <2>5. Len(run'[a].todo) = 0 + Len(run[a].todo) - 2 + 1 /\ Len(run[a].todo) \in Nat
    BY <2>3, <2>4 DEF Placed
  <2>6. Len(run'[a].todo) # Len(run[a].todo)
    BY <2>5
  <2> QED
    BY <2>6
<1> QED
  BY <1>2, <1>3

\* What a write leaves out of a record
Knows(a, t, k) == At(a, {"put", "blank"}) /\ run'[a].todo # run[a].todo
                  /\ (Now(a).op = "put" /\ t \notin erred => <<t, k>> \in DOMAIN run[a].copy)
LEMMA WritesKnown ==
  ASSUME TypeInv, PendInv, CoverInv, NEW a \in Goroutines, WriteStep(a),
         NEW t \in Tables \ (Memory \cup DOMAIN Index), NEW k \in DOMAIN db[t] \cap DOMAIN db'[t], db'[t][k] # db[t][k]
  PROVE  Knows(a, t, k)
<1>1. /\ Active(a) /\ Now(a).op \in {"put", "blank", "new"}
      /\ Now(a).via = Now(a).t \/ (Now(a).op = "put" /\ Now(a).t = "prs" /\ Now(a).via = "prindex")
      /\ \A u \in Tables \ {Now(a).t, Now(a).via} : db'[u] = db[u]
      /\ \A x \in DOMAIN db[Now(a).t] \ {Key(a)} : db'[Now(a).t][x] = db[Now(a).t][x]
  BY WriteFacts DEF Put1
<1>2. t # "prindex"
  BY IndexNames
<1>3. t = Now(a).t /\ k = Key(a)
  BY <1>1, <1>2
<1>4. Now(a) = run[a].todo[1] /\ 1 \in DOMAIN run[a].todo
  BY <1>1, RunFacts
<1>5. Now(a).op # "new"
  <2>1. SUFFICES ASSUME Now(a).op = "new" PROVE FALSE
    OBVIOUS
  <2>2. Pending(run[a], t) /\ t \in Made /\ Key(a) = run[a].fresh
    BY <1>1, <1>3, <2>1, NewPending
  <2>3. run[a].fresh \notin DOMAIN db[t]
    BY <2>2 DEF PendInv
  <2> QED
    BY <1>3, <2>2, <2>3
<1>6. ASSUME Now(a).op = "put", t \notin erred PROVE <<t, k>> \in DOMAIN run[a].copy
  <2>1. ~ \E j \in 1..1 - 1 : TRUE
    OBVIOUS
  <2>2. Rewrites(run[a].todo[1]) /\ Safe(run[a], 1)
    BY <1>3, <1>4, <1>6, CoverParts DEF Rewrites
  <2>3. <<t, KeyOf(run[a], run[a].todo[1])>> \in DOMAIN run[a].copy
    BY <1>3, <1>4, <1>6, <2>1, <2>2 DEF Safe
  <2> QED
    BY <1>3, <1>4, <2>3 DEF Key
<1>7. run'[a].todo # run[a].todo
  BY WrittenFurther
<1> QED
  BY <1>1, <1>5, <1>6, <1>7 DEF Knows, At

LEMMA LostWhy ==
  ASSUME TypeInv, PendInv, CoverInv, NEW a \in Goroutines, Works(a) \/ Fails(a),
         NEW t \in Tables \ (Memory \cup DOMAIN Index), NEW k \in DOMAIN db[t] \cap DOMAIN db'[t],
         NEW c \in db[t][k] \ db'[t][k]
  PROVE  Knows(a, t, k)
<1>0. db'[t] # db[t] /\ db'[t][k] # db[t][k] /\ ~(db[t][k] \subseteq db'[t][k])
  OBVIOUS
<1>1. CASE Fails(a)
  BY <1>0, <1>1, FailFacts DEF data
<1>2. CASE FreshStep(a)
  BY <1>0, <1>2, FreshFacts
<1>3. CASE ReadStep(a)
  <2>1. RunOnly
    BY <1>3, FreeFacts, GetFacts DEF ReadStep, At
  <2> QED
    BY <1>0, <2>1 DEF RunOnly, data
<1>4. CASE EachStep(a)
  BY <1>0, <1>4, EachFacts DEF RunOnly, data
<1>5. CASE UnlessStep(a)
  BY <1>0, <1>5, UnlessFacts DEF RunOnly, data
<1>6. CASE SendStep(a)
  BY <1>0, <1>6, SendFacts DEF data
<1>7. CASE TakeStep(a)
  <2>1. t # "states"
    BY DEF Memory
  <2> QED
    BY <1>0, <1>7, <2>1, TakeFacts
<1>8. CASE FillStep(a)
  <2>1. t # "spacecache"
    BY DEF Memory
  <2> QED
    BY <1>0, <1>8, <2>1, FillFacts
<1>9. CASE TouchStep(a)
  BY <1>0, <1>9, TouchFacts
<1>10. CASE DelStep(a)
  <2>1. CASE t = Now(a).t
    <3>1. db'[t][k] = db[t][k]
      BY <1>10, <2>1, DelFacts DEF Cut
    <3> QED
      BY <1>0, <3>1
  <2>2. CASE t # Now(a).t
    BY <1>0, <1>10, <2>2, DelFacts
  <2> QED
    BY <2>1, <2>2
<1>11. CASE WriteStep(a)
  BY <1>0, <1>11, WritesKnown
<1> QED
  BY <1>1, <1>2, <1>3, <1>4, <1>5, <1>6, <1>7, <1>8, <1>9, <1>10, <1>11 DEF Works

\* A change of a record is lost only to a writer that had read the record before it was made,
\* could not read it, or writes it whole on purpose: no handler of the code updates a record
\* it has not read before.
THEOREM LostHolds == RecordsSpec => LostOnlyToRaces
<1> DEFINE Lost ==
      \A t \in Tables \ (Memory \cup DOMAIN Index) : \A k \in DOMAIN db[t] \cap DOMAIN db'[t] :
        \A c \in db[t][k] \ db'[t][k] :
          \E a \in Goroutines :
            /\ At(a, {"put", "blank"}) /\ run'[a].todo # run[a].todo
            /\ Now(a).op = "put" /\ t \notin erred => <<t, k>> \in DOMAIN run[a].copy
<1>1. Init => CoverInv
  BY InitRuns DEF CoverInv
<1>2. ASSUME BaseInv, CoverInv, [Next]_vars PROVE CoverInv' /\ (Lost \/ UNCHANGED vars)
  <2>1. TypeInv /\ KeyInv /\ PendInv /\ ZeroInv /\ Ways
    BY <1>2, BaseNext DEF BaseInv
  <2>2. CASE \E a \in Goroutines : StartStep(a)
    <3>1. PICK a \in Goroutines : StartStep(a)
      BY <2>2
    <3>2. CoverInv'
      BY <1>2, <2>1, <3>1, CoverStarts
    <3>3. db' = db
      BY <3>1 DEF StartStep, data
    <3>4. Lost
      BY <3>3
    <3> HIDE DEF Lost
    <3> QED
      BY <3>2, <3>4
  <2>3. CASE Crash
    <3>1. \A a \in Goroutines : run'[a] = AtRest
      BY <2>1, <2>3, CrashFacts
    <3>2. \A a \in Goroutines : DOMAIN run'[a].todo = {}
      BY <3>1, RestFacts
    <3>3. CoverInv'
      BY <3>2 DEF CoverInv
    <3>4. \A t \in Tables \ (Memory \cup DOMAIN Index) : db'[t] = db[t]
      BY <2>1, <2>3, CrashFacts
    <3>5. Lost
      BY <3>4
    <3> HIDE DEF Lost
    <3> QED
      BY <3>3, <3>5
  <2>4. CASE \E a \in Goroutines : (Works(a) \/ Fails(a)) /\ Worked(a)
    <3>1. PICK a \in Goroutines : Works(a) \/ Fails(a)
      BY <2>4
    <3>2. CoverInv'
      BY <1>2, <2>1, <3>1, CoverWorks
    <3>3. ASSUME NEW t \in Tables \ (Memory \cup DOMAIN Index), NEW k \in DOMAIN db[t] \cap DOMAIN db'[t],
                 NEW c \in db[t][k] \ db'[t][k]
          PROVE  Knows(a, t, k)
      BY <1>2, <2>1, <3>1, <3>3, LostWhy
    <3>4. Lost
      BY <3>3 DEF Knows
    <3> HIDE DEF Lost
    <3> QED
      BY <3>2, <3>4
  <2>5. CASE UNCHANGED vars
    <3>1. run' = run /\ db' = db /\ erred' = erred
      BY <2>5 DEF vars, data
    <3>2. CoverInv'
      BY <1>2, <3>1 DEF CoverInv, Pending
    <3> HIDE DEF Lost
    <3> QED
      BY <2>5, <3>2
  <2> HIDE DEF Lost
  <2> QED
    BY <2>1, <2>2, <2>3, <2>4, <2>5 DEF Ways
<1>3. BaseInv /\ CoverInv /\ [Next]_vars => CoverInv'
  BY <1>2
<1>4. BaseInv /\ CoverInv /\ [Next]_vars => [Lost]_vars
  BY <1>2
<1> QED
  BY <1>1, <1>3, <1>4, RecordsTyped, PTL DEF RecordsSpec, LostOnlyToRaces

-----------------------------------------------------------------------------
\* The deletion of a user

\* What a loop puts before the other steps: every step of its body for every record, and for
\* one record in the order of the body
LapOf(b, s) == b.op = s.op /\ b.t = s.t /\ b.failed = s.failed /\ b.body = s.body
LapsRight(S, body, X) ==
  /\ Len(body) \in Nat
  /\ \A i \in DOMAIN X : X[i].key \in S /\ \E m \in 1..Len(body) : LapOf(X[i], body[m])
  /\ \A k \in S : \A m \in 1..Len(body) : \E i \in DOMAIN X : X[i].key = k /\ LapOf(X[i], body[m])
  /\ \A i, j \in DOMAIN X : i < j /\ X[i].key = X[j].key =>
       \E m, n \in 1..Len(body) : m < n /\ LapOf(X[i], body[m]) /\ LapOf(X[j], body[n])

LEMMA EachLaps ==
  ASSUME TypeInv, NEW a \in Goroutines, EachStep(a)
  PROVE  LapsRight(Listed(a), Now(a).body, Laps(Listed(a), Now(a).body))
<1> DEFINE d == driver
           e == Now(a)
           S == Listed(a)
           body == Now(a).body
           X == Laps(S, body)
           A == AnyStep(d)
<1>1. Active(a) /\ Now(a).op \in Loops
  BY EachFacts
<1>2. e \in A /\ S \subseteq Keys0 /\ IsFiniteSet(S)
  BY <1>1, RunFacts, ListedFacts
<1>3. body \in Seq(A) /\ Len(body) \in Nat
  <2>1. body \in Seq(StepsOf(d, Bodies1(d)))
    BY <1>2 DEF AnyStep, StepsOf, Raw, Bodies2, Programs
  <2>2. Seq(StepsOf(d, Bodies1(d))) \subseteq Seq(A)
    BY BodiesNested
  <2> QED
    BY <2>1, <2>2
<1>4. \A k \in S : Bind(k, body) \in Seq(A)
  <2>1. ASSUME NEW k \in S PROVE Bind(k, body) \in Programs(d, Bodies2(d))
    BY <1>2, <2>1, BindProgram
  <2> QED
    BY <2>1 DEF Programs, AnyStep
<1>5. X \in Seq(A)
  <2>1. X \in Programs(d, Bodies2(d))
    BY <1>2, LapsProgram
  <2> QED
    BY <2>1 DEF Programs, AnyStep
<1>6. ASSUME NEW k \in S, NEW m \in 1..Len(body)
      PROVE  Bind(k, body)[m].key = k /\ LapOf(Bind(k, body)[m], body[m])
  BY <1>2, <1>6, BoundStep DEF LapOf
<1> HIDE DEF e, S, body, X, A
<1>7. ASSUME NEW i \in DOMAIN X PROVE X[i].key \in S /\ \E m \in 1..Len(body) : LapOf(X[i], body[m])
  <2>1. InLap(S, body, X[i])
    BY <1>2, <1>3, <1>7, LapsSteps DEF X
  <2>2. PICK k \in S : \E m \in 1..Len(body) : X[i] = Bind(k, body)[m]
    BY <2>1 DEF InLap
  <2> QED
    BY <1>6, <2>2
<1>8. ASSUME NEW k \in S, NEW m \in 1..Len(body) PROVE \E i \in DOMAIN X : X[i].key = k /\ LapOf(X[i], body[m])
  <2>1. \E i \in DOMAIN X : X[i] = Bind(k, body)[m]
    BY <1>2, <1>3, <1>4, <1>5, <1>8, LapsAll DEF X
  <2> QED
    BY <1>6, <2>1
<1>9. ASSUME NEW i \in DOMAIN X, NEW j \in DOMAIN X, i < j, X[i].key = X[j].key
      PROVE  \E m, n \in 1..Len(body) : m < n /\ LapOf(X[i], body[m]) /\ LapOf(X[j], body[n])
  <2>1. InOrder(S, body, X[i], X[j])
    BY <1>2, <1>3, <1>4, <1>5, <1>6, <1>9, LapsOrder DEF X
  <2>2. PICK k \in S : \E m, n \in 1..Len(body) : m < n /\ X[i] = Bind(k, body)[m] /\ X[j] = Bind(k, body)[n]
    BY <2>1 DEF InOrder
  <2> QED
    BY <1>6, <2>2
<1>10. LapsRight(S, body, X)
  BY <1>3, <1>7, <1>8, <1>9 DEF LapsRight
<1> QED
  BY <1>10 DEF X, S, body

\* The loop that deletes the keys, or the links, of the user
LEMMA DelLaps ==
  ASSUME TypeInv, NEW a \in Goroutines, EachStep(a), NEW t, EachDels(Now(a), t)
  PROVE  LET X == Laps(Listed(a), Now(a).body) IN
         /\ \A i \in DOMAIN X : /\ X[i].key \in Listed(a) /\ X[i].op = "del" /\ X[i].t = t /\ X[i].failed = "on"
                                /\ X[i].body = <<>>
         /\ \A k \in Listed(a) : \E i \in DOMAIN X : X[i].op = "del" /\ X[i].t = t /\ X[i].key = k
<1> DEFINE S == Listed(a)
           body == Now(a).body
           X == Laps(S, body)
<1>1. LapsRight(S, body, X)
  BY EachLaps
<1>2. Len(body) = 1 /\ body[1].op = "del" /\ body[1].t = t /\ body[1].failed = "on"
  BY DEF EachDels
<1>3. body[1].body = <<>>
  <2>1. Active(a)
    BY EachFacts
  <2>2. Now(a) \in AnyStep(driver)
    BY <2>1, RunFacts
  <2>3. body \in Seq(StepsOf(driver, Bodies1(driver)))
    BY <2>2 DEF AnyStep, StepsOf, Raw, Bodies2, Programs
  <2>4. body[1] \in StepsOf(driver, Bodies1(driver))
    BY <1>2, <2>3
  <2>5. PlainShape(body[1])
    BY <2>4 DEF StepsOf, Shape
  <2> QED
    BY <1>2, <2>5 DEF PlainShape, Loops, Branches
<1> HIDE DEF S, body, X
<1>4. ASSUME NEW m \in 1..Len(body) PROVE m = 1
  BY <1>2, <1>4
<1>5. 1 \in 1..Len(body)
  BY <1>2
<1>6. \A i \in DOMAIN X : /\ X[i].key \in S /\ X[i].op = "del" /\ X[i].t = t /\ X[i].failed = "on" /\ X[i].body = <<>>
  BY <1>1, <1>2, <1>3, <1>4 DEF LapsRight, LapOf
<1>7. \A k \in S : \E i \in DOMAIN X : X[i].op = "del" /\ X[i].t = t /\ X[i].key = k
  BY <1>1, <1>2, <1>5 DEF LapsRight, LapOf
<1> QED
  BY <1>6, <1>7 DEF X, S, body

\* The loop that deletes the sessions of the user, with bbolt
LEMMA SessionLaps ==
  ASSUME TypeInv, NEW a \in Goroutines, EachStep(a), SessionDels(driver, Now(a))
  PROVE  LET X == Laps(Listed(a), Now(a).body) IN
         /\ driver = "bbolt" /\ Now(a).t = "sessions" /\ Now(a).via = "byuser" /\ Now(a).op = "each"
         /\ \A i \in DOMAIN X : /\ X[i].key \in Listed(a) /\ X[i].op \in {"get", "del"} /\ X[i].t \in {"sessions", "byuser"}
                                /\ X[i].op = "get" => X[i].t = "sessions"
                                /\ X[i].failed \in {"on", "out"} /\ X[i].body = <<>>
         /\ \A k \in Listed(a) : \E i \in DOMAIN X : X[i].op = "del" /\ X[i].t = "byuser" /\ X[i].key = k
         /\ \A i, j \in DOMAIN X : i < j /\ X[i].key = X[j].key => X[j].op # "get"
<1> DEFINE S == Listed(a)
           body == Now(a).body
           X == Laps(S, body)
<1>1. LapsRight(S, body, X)
  BY EachLaps
<1>2. Now(a).op \in Loops /\ driver \in Drivers
  BY EachFacts DEF TypeInv
<1>3. driver = "bbolt" /\ Now(a).t = "sessions" /\ Now(a).via = "byuser" /\ Now(a).op = "each" /\ body = BboltDeleteSession("out")
  BY <1>2 DEF SessionDels, Drivers, Loops, Branches
<1>4. /\ Len(body) = 3
      /\ body[1].op = "get" /\ body[1].t = "sessions" /\ body[1].failed = "out" /\ body[1].body = <<>>
      /\ body[2].op = "del" /\ body[2].t = "byuser" /\ body[2].failed = "on" /\ body[2].body = <<>>
      /\ body[3].op = "del" /\ body[3].t = "sessions" /\ body[3].failed = "out" /\ body[3].body = <<>>
  BY <1>3 DEF BboltDeleteSession, Get, Del, Step
<1> HIDE DEF S, body, X
<1>5. ASSUME NEW m \in 1..Len(body) PROVE m = 1 \/ m = 2 \/ m = 3
  BY <1>4, <1>5
<1>6. 2 \in 1..Len(body)
  BY <1>4
<1>7. \A i \in DOMAIN X : /\ X[i].key \in S /\ X[i].op \in {"get", "del"} /\ X[i].t \in {"sessions", "byuser"}
                          /\ X[i].op = "get" => X[i].t = "sessions"
                          /\ X[i].failed \in {"on", "out"} /\ X[i].body = <<>>
  <2> SUFFICES ASSUME NEW i \in DOMAIN X
               PROVE  /\ X[i].key \in S /\ X[i].op \in {"get", "del"} /\ X[i].t \in {"sessions", "byuser"}
                      /\ X[i].op = "get" => X[i].t = "sessions"
                      /\ X[i].failed \in {"on", "out"} /\ X[i].body = <<>>
    OBVIOUS
  <2>1. X[i].key \in S
    BY <1>1 DEF LapsRight
  <2>2. PICK m \in 1..Len(body) : LapOf(X[i], body[m])
    BY <1>1 DEF LapsRight
  <2> QED
    BY <1>4, <1>5, <2>1, <2>2 DEF LapOf
<1>8. \A k \in S : \E i \in DOMAIN X : X[i].op = "del" /\ X[i].t = "byuser" /\ X[i].key = k
  <2> SUFFICES ASSUME NEW k \in S PROVE \E i \in DOMAIN X : X[i].op = "del" /\ X[i].t = "byuser" /\ X[i].key = k
    OBVIOUS
  <2>1. PICK i \in DOMAIN X : X[i].key = k /\ LapOf(X[i], body[2])
    BY <1>1, <1>6 DEF LapsRight
  <2> QED
    BY <1>4, <2>1 DEF LapOf
<1>9. ASSUME NEW i \in DOMAIN X, NEW j \in DOMAIN X, i < j, X[i].key = X[j].key PROVE X[j].op # "get"
  <2>1. PICK m, n \in 1..Len(body) : m < n /\ LapOf(X[i], body[m]) /\ LapOf(X[j], body[n])
    BY <1>1, <1>9 DEF LapsRight
  <2>2. n = 2 \/ n = 3
    <3>1. m = 1 \/ m = 2 \/ m = 3
      BY <1>5
    <3>2. n = 1 \/ n = 2 \/ n = 3
      BY <1>5
    <3> QED
      BY <2>1, <3>1, <3>2
  <2> QED
    BY <1>4, <2>1, <2>2 DEF LapOf
<1> QED
  BY <1>3, <1>7, <1>8, <1>9 DEF X, S, body

\* A goroutine that changes which records a table has tells those that asked about it.
LEMMA Telling ==
  ASSUME TypeInv, NEW a \in Goroutines, Works(a) \/ Fails(a), NEW t \in Tables
  PROVE  DOMAIN db'[t] = DOMAIN db[t] \/ OthersSame(a, {t})
<1>1. ASSUME NEW T, OthersSame(a, T), t \in T PROVE OthersSame(a, {t})
  BY <1>1 DEF OthersSame, Same
<1>2. CASE Fails(a)
  BY <1>2, FailFacts DEF data
<1>3. CASE FreshStep(a)
  BY <1>3, FreshFacts
<1>4. CASE ReadStep(a)
  <2>1. RunOnly
    BY <1>4, FreeFacts, GetFacts DEF ReadStep, At
  <2> QED
    BY <2>1 DEF RunOnly, data
<1>5. CASE TakeStep(a)
  BY <1>1, <1>5, TakeFacts
<1>6. CASE EachStep(a)
  BY <1>6, EachFacts DEF RunOnly, data
<1>7. CASE UnlessStep(a)
  BY <1>7, UnlessFacts DEF RunOnly, data
<1>8. CASE WriteStep(a)
  <2>1. OthersSame(a, {Now(a).t, Now(a).via}) /\ \A u \in Tables \ {Now(a).t, Now(a).via} : db'[u] = db[u]
    BY <1>8, WriteFacts
  <2> QED
    BY <1>1, <2>1
<1>9. CASE TouchStep(a)
  BY <1>1, <1>9, TouchFacts
<1>10. CASE DelStep(a)
  <2>1. OthersSame(a, {Now(a).t}) /\ \A u \in Tables \ {Now(a).t} : db'[u] = db[u]
    BY <1>10, DelFacts
  <2> QED
    BY <1>1, <2>1
<1>11. CASE FillStep(a)
  BY <1>1, <1>11, FillFacts
<1>12. CASE SendStep(a)
  BY <1>12, SendFacts DEF data
<1> QED
  BY <1>2, <1>3, <1>4, <1>5, <1>6, <1>7, <1>8, <1>9, <1>10, <1>11, <1>12 DEF Works

LEMMA CascadeOthers ==
  ASSUME TypeInv, driver' = driver, erred \subseteq erred', NEW a \in Goroutines, OthersSame(a, {}),
         \A t \in Tables : DOMAIN db'[t] = DOMAIN db[t] \/ OthersSame(a, {t}),
         NEW c \in Goroutines \ {a}, Deleting(c) => Falling(run[c])
  PROVE  (Deleting(c) => Falling(run[c]))'
<1> DEFINE r == run[c]
           q == run'[c]
<1>1. /\ q.todo = r.todo /\ q.key = r.key /\ q.fresh = r.fresh /\ r.touched \subseteq q.touched
      /\ \A s : KeyOf(q, s) = KeyOf(r, s)
  BY OthersNext
<1>2. SUFFICES ASSUME Deleting(c)' PROVE Falling(run[c])'
  OBVIOUS
<1>3. Falling(r)
  BY <1>1, <1>2 DEF Deleting
<1>4. Active(c)
  BY <1>1, <1>2 DEF Deleting, Active
<1>5. ASSUME NEW t \in {"keys", "oidclinks", "sessions", "byuser"} PROVE DOMAIN db'[t] = DOMAIN db[t] \/ t \in q.touched
  <2>1. t \in Tables /\ t \in Asked
    BY TableNames DEF Asked
  <2>2. ASSUME OthersSame(a, {t}) PROVE t \in q.touched
    <3>1. {t} \cap Asked \subseteq run'[c].touched
      BY <1>4, <2>2, OthersNext
    <3> QED
      BY <2>1, <3>1
  <2> QED
    BY <2>1, <2>2
<1>6. StepsClear(run[c])' /\ LoopsFirst(run[c])'
  BY <1>1, <1>3 DEF Falling, StepsClear, LoopsFirst
<1>7. ASSUME NEW t \in {"keys", "oidclinks", "sessions", "byuser"}, DOMAIN db'[t] = DOMAIN db[t]
      PROVE  Deletes(r, t) => Deletes(run[c], t)'
  BY <1>1, <1>7 DEF Deletes
<1>8. ASSUME NEW t \in {"keys", "oidclinks"} PROVE Swept(run[c], t)'
  <2>1. Swept(r, t)
    BY <1>3 DEF Falling
  <2> QED
    BY <1>1, <1>5, <1>7, <2>1 DEF Swept
<1>9. Ended(run[c])'
  <2>1. Ended(r)
    BY <1>3 DEF Falling
  <2>2. Missed(r) => Missed(run[c])'
    BY <1>1 DEF Missed
  <2>3. CASE "sessions" \in q.touched \/ "byuser" \in q.touched
    <3>1. Missed(run[c])'
      BY <2>3 DEF Missed
    <3> QED
      BY <3>1 DEF Ended
  <2>4. CASE DOMAIN db'["sessions"] = DOMAIN db["sessions"] /\ DOMAIN db'["byuser"] = DOMAIN db["byuser"]
    <3>1. Deletes(r, "byuser") => Deletes(run[c], "byuser")'
      BY <1>7, <2>4
    <3>2. \A i \in DOMAIN q.todo : Sought(r, i) => Sought(run[c], i)'
      BY <1>1, <2>4 DEF Sought
    <3> QED
      BY <1>1, <2>1, <2>2, <2>4, <3>1, <3>2 DEF Ended
  <2> QED
    BY <1>5, <2>3, <2>4
<1> QED
  BY <1>6, <1>8, <1>9 DEF Falling

\* The handler that deletes the user begins with all that clears.
LEMMA CascadeBegins ==
  ASSUME TypeInv, NEW a, StartStep(a)
  PROVE  (Deleting(a) => Falling(run[a]))'
<1> DEFINE r == run'[a]
           s == run'[a].todo
<1>1. SUFFICES ASSUME Deleting(a)' PROVE Falling(run[a])'
  OBVIOUS
<1>2. Active(a)'
  BY <1>1 DEF Deleting, Active
<1>3. Startable(driver, s) /\ driver' = driver
  BY <1>2, StartFacts DEF StartStep
<1>4. \A i \in DOMAIN s : s[i].key = 0
  BY <1>3 DEF Startable, TopShape
<1>5. /\ \A i \in DOMAIN s : Cascading(s[i]) /\ Clears(driver, s[i]) /\ s[i].op # "get"
      /\ \A t \in {"keys", "oidclinks"} : \E i \in DOMAIN s : EachDels(s[i], t)
      /\ \E i \in DOMAIN s : SessionDels(driver, s[i])
  BY <1>1, <1>3 DEF Startable, Cascades, Deleting
<1>6. StepsClear(run[a])' /\ LoopsFirst(run[a])'
  BY <1>3, <1>4, <1>5 DEF StepsClear, LoopsFirst
<1>7. ASSUME NEW t \in {"keys", "oidclinks"} PROVE Swept(run[a], t)'
  BY <1>5 DEF Swept
<1>8. Ended(run[a])'
  BY <1>3, <1>5 DEF Ended
<1> QED
  BY <1>6, <1>7, <1>8 DEF Falling

\* The goroutine that deletes the user puts nothing before its other steps but the deletions of a loop.
LEMMA OwnLaps ==
  ASSUME TypeInv, NEW a \in Goroutines, Works(a) \/ Fails(a), StepsClear(run[a]), NEW X, NEW n, Turns(a, X, n), X # <<>>
  PROVE  /\ EachStep(a) /\ X = Laps(Listed(a), Now(a).body) /\ n = 2 /\ Now(a).op = "each" /\ Now(a).key = 0
         /\ SessionDels(driver, Now(a)) \/ EachDels(Now(a), "keys") \/ EachDels(Now(a), "oidclinks")
<1>1. Active(a) /\ Now(a) = run[a].todo[1] /\ 1 \in DOMAIN run[a].todo
  <2>1. Active(a)
    BY WorkedFacts DEF Worked
  <2> QED
    BY <2>1, RunFacts
<1>2. Works(a) /\ Now(a).op \in Branches
  BY DEF Turns
<1>3. Cascading(Now(a)) /\ Clears(driver, Now(a)) /\ (Now(a).op = "each" => Now(a).key = 0)
  BY <1>1 DEF StepsClear
<1>4. Now(a).op = "each"
  BY <1>2, <1>3 DEF Cascading, CascadeStep, Loops, Branches
<1>5. EachStep(a)
  BY <1>2, <1>4 DEF Works, At, FreshStep, ReadStep, TakeStep, UnlessStep, WriteStep, TouchStep, DelStep, FillStep, SendStep, InCopy
<1>6. n = 2 /\ X = Laps(Listed(a), Now(a).body)
  BY <1>5 DEF Turns, Placed
<1> QED
  BY <1>3, <1>4, <1>5, <1>6 DEF Clears

LapClear(a, b) ==
  /\ b.op \in {"get", "del"} /\ b.failed \in {"on", "out"} /\ b.body = <<>> /\ b.key # 0 /\ b.key \in Listed(a)
  /\ b.t \in {"sessions", "byuser", "keys", "oidclinks"}
  /\ b.op = "get" \/ b.failed = "out" => b.t \in {"sessions", "byuser"}
  /\ b.op = "get" => b.t = "sessions"
  /\ b.t \in {"keys", "oidclinks"} <=> ~SessionDels(driver, Now(a))
LEMMA LapsClear ==
  ASSUME TypeInv, ZeroInv, NEW a \in Goroutines, Works(a) \/ Fails(a), StepsClear(run[a]), NEW X, NEW n, Turns(a, X, n),
         NEW i \in DOMAIN X
  PROVE  LapClear(a, X[i])
<1>1. X # <<>>
  OBVIOUS
<1>2. /\ EachStep(a) /\ X = Laps(Listed(a), Now(a).body) /\ Now(a).op = "each"
      /\ SessionDels(driver, Now(a)) \/ EachDels(Now(a), "keys") \/ EachDels(Now(a), "oidclinks")
  BY <1>1, OwnLaps
<1>3. \A k \in Listed(a) : k # 0
  <2>1. Active(a) /\ Now(a).op \in Loops
    BY <1>2, EachFacts
  <2>2. Now(a).t \in Tables /\ Listed(a) \subseteq DOMAIN db[Now(a).t]
    BY <2>1, ListedFacts
  <2> QED
    BY <2>2 DEF ZeroInv
<1>4. ASSUME NEW t \in {"keys", "oidclinks"}, EachDels(Now(a), t) PROVE LapClear(a, X[i])
  <2>1. /\ X[i].key \in Listed(a) /\ X[i].op = "del" /\ X[i].t = t /\ X[i].failed = "on" /\ X[i].body = <<>>
    <3> DEFINE Y == Laps(Listed(a), Now(a).body)
    <3>1. EachStep(a) /\ EachDels(Now(a), t)
      BY <1>2, <1>4
    <3>2. \A m \in DOMAIN Y : /\ Y[m].key \in Listed(a) /\ Y[m].op = "del" /\ Y[m].t = t /\ Y[m].failed = "on"
                              /\ Y[m].body = <<>>
      BY <3>1, DelLaps
    <3>3. X = Y
      BY <1>2
    <3> HIDE DEF Y
    <3> QED
      BY <3>2, <3>3
  <2>2. Now(a).t = t
    BY <1>4 DEF EachDels
  <2>3. ~SessionDels(driver, Now(a))
    BY <1>4, <2>2 DEF SessionDels
  <2> QED
    BY <1>3, <1>4, <2>1, <2>3 DEF LapClear
<1>5. CASE SessionDels(driver, Now(a))
  <2>1. /\ X[i].key \in Listed(a) /\ X[i].op \in {"get", "del"} /\ X[i].t \in {"sessions", "byuser"}
        /\ X[i].op = "get" => X[i].t = "sessions"
        /\ X[i].failed \in {"on", "out"} /\ X[i].body = <<>>
    BY <1>2, <1>5, SessionLaps
  <2> QED
    BY <1>3, <1>5, <2>1 DEF LapClear
<1> QED
  BY <1>2, <1>4, <1>5

\* What a step leaves out are steps of laps.
LEMMA LeftHaveKeys ==
  ASSUME TypeInv, NEW a \in Goroutines, Works(a) \/ Fails(a), StepsClear(run[a]), NEW X, NEW n, Turns(a, X, n),
         NEW i \in DOMAIN run[a].todo, i # 1, ~(i >= n)
  PROVE  /\ run[a].todo[i].key # 0 /\ Now(a).failed = "out" /\ Now(a).t \in {"sessions", "byuser"}
         /\ Fails(a) \/ (Now(a).op = "get" /\ Now(a).t = "sessions" /\ ~Has("sessions", Key(a)))
<1>1. Active(a) /\ Now(a) = run[a].todo[1] /\ 1 \in DOMAIN run[a].todo
  <2>1. Active(a)
    BY WorkedFacts DEF Worked
  <2> QED
    BY <2>1, RunFacts
<1>2. i \in 2..n - 1 /\ n # 2
  BY DEF Turns, Placed
<1>3. Skipping(a, n)
  BY <1>2 DEF Turns
<1>4. CascadeStep(Now(a))
  BY <1>1 DEF StepsClear, Cascading
<1>5. Now(a).failed = "out"
  BY <1>1, <1>3, <1>4 DEF Skipping, CascadeStep
<1>6. run[a].todo[i].key \in Keys
  BY <1>1, <1>2, <1>3, <1>5 DEF Skipping, LeftOut
<1>7. run[a].todo[i].key # 0
  BY <1>6, KeysNat
<1> QED
  BY <1>3, <1>4, <1>5, <1>7 DEF Skipping, CascadeStep

LEMMA StepsClearKept ==
  ASSUME TypeInv, ZeroInv, NEW a \in Goroutines, Works(a) \/ Fails(a), StepsClear(run[a]), NEW X, NEW n, Turns(a, X, n),
         driver' = driver
  PROVE  StepsClear(run[a])'
<1> SUFFICES ASSUME NEW i \in DOMAIN run'[a].todo
             PROVE  LET s == run'[a].todo[i] IN
                    /\ Cascading(s) /\ Clears(driver, s)
                    /\ s.op \in {"each", "purge"} => s.key = 0
                    /\ s.op = "get" => s.key # 0
  BY DEF StepsClear
<1>1. Comes(a, X, n, i)
  BY DEF Turns, Placed
<1>2. CASE i \in 1..Len(X) /\ run'[a].todo[i] = X[i]
  <2>1. i \in DOMAIN X
    BY <1>2 DEF Turns, Placed
  <2>2. LapClear(a, X[i])
    BY <2>1, LapsClear
  <2>3. CascadeStep(X[i]) /\ DOMAIN X[i].body = {}
    BY <2>2 DEF LapClear, CascadeStep
  <2> QED
    BY <1>2, <2>2, <2>3 DEF LapClear, Cascading, Clears
<1>3. CASE Was(X, n, i) \in DOMAIN run[a].todo /\ run'[a].todo[i] = run[a].todo[Was(X, n, i)]
  BY <1>3 DEF StepsClear
<1> QED
  BY <1>1, <1>2, <1>3 DEF Comes

LEMMA LoopsFirstKept ==
  ASSUME TypeInv, ZeroInv, NEW a \in Goroutines, Works(a) \/ Fails(a), StepsClear(run[a]), LoopsFirst(run[a]),
         NEW X, NEW n, Turns(a, X, n)
  PROVE  LoopsFirst(run[a])'
<1> DEFINE s == run[a].todo
           q == run'[a].todo
<1> SUFFICES ASSUME NEW j \in DOMAIN q, NEW i \in 1..j - 1,
                    q[i].op = "each" \/ (q[i].failed = "out" /\ q[j].t \in {"keys", "oidclinks"})
             PROVE  q[j].key = 0
  BY DEF LoopsFirst
<1>1. /\ Placed(a, X, n) /\ Len(X) \in Nat /\ DOMAIN X = 1..Len(X) /\ n \in Nat /\ n >= 2
      /\ DOMAIN q = 1..Len(q) /\ Len(q) \in Nat /\ DOMAIN s = 1..Len(s) /\ Len(s) \in Nat
  BY DEF Turns, Placed
<1>2. i \in DOMAIN q /\ i < j /\ i \in Nat /\ j \in Nat
  BY <1>1
<1>3. Comes(a, X, n, i) /\ Comes(a, X, n, j)
  BY <1>1, <1>2 DEF Placed
<1>4. ASSUME NEW m \in DOMAIN X, q[m] = X[m]
      PROVE  LapClear(a, q[m]) /\ Now(a).op = "each" /\ 1 \in DOMAIN s /\ Now(a) = s[1]
  <2>1. LapClear(a, X[m])
    BY <1>4, LapsClear
  <2>2. X # <<>>
    BY <1>4
  <2>3. Now(a).op = "each" /\ EachStep(a)
    BY <2>2, OwnLaps
  <2>4. Active(a)
    BY <2>3, EachFacts
  <2> QED
    BY <1>4, <2>1, <2>3, <2>4, RunFacts
<1>5. CASE i \in DOMAIN X /\ j \in DOMAIN X
  <2>1. q[i] = X[i] /\ q[j] = X[j]
    BY <1>1, <1>2, <1>3, <1>5 DEF Comes
  <2>2. LapClear(a, q[i]) /\ LapClear(a, q[j])
    BY <1>4, <1>5, <2>1
  <2> QED
    BY <2>2 DEF LapClear
<1>6. CASE i \in DOMAIN X /\ j \notin DOMAIN X
  <2>1. q[i] = X[i]
    BY <1>1, <1>2, <1>3, <1>6 DEF Comes
  <2>2. LapClear(a, q[i]) /\ Now(a).op = "each" /\ 1 \in DOMAIN s /\ Now(a) = s[1]
    BY <1>4, <1>6, <2>1
  <2>3. Was(X, n, j) \in DOMAIN s /\ Was(X, n, j) >= n /\ q[j] = s[Was(X, n, j)]
    BY <1>1, <1>2, <1>3, <1>6 DEF Comes
  <2>4. 1 \in 1..Was(X, n, j) - 1
    BY <1>1, <2>3
  <2> QED
    BY <2>2, <2>3, <2>4 DEF LoopsFirst
<1>7. CASE i \notin DOMAIN X
  <2>1. /\ Was(X, n, i) \in DOMAIN s /\ q[i] = s[Was(X, n, i)]
        /\ Was(X, n, j) \in DOMAIN s /\ q[j] = s[Was(X, n, j)]
    BY <1>1, <1>2, <1>3, <1>7 DEF Comes
  <2>2. Was(X, n, i) \in 1..Was(X, n, j) - 1
    BY <1>1, <1>2, <2>1 DEF Was
  <2> QED
    BY <2>1, <2>2 DEF LoopsFirst
<1> QED
  BY <1>5, <1>6, <1>7

\* What the tables lose to the goroutine that deletes the user, and what it knows of its errors
LEMMA OwnMoves ==
  ASSUME TypeInv, NEW a \in Goroutines, Works(a) \/ Fails(a), run'[a] # AtRest, StepsClear(run[a])
  PROVE  /\ Active(a) /\ Now(a) = run[a].todo[1] /\ 1 \in DOMAIN run[a].todo /\ CascadeStep(Now(a)) /\ erred \subseteq erred'
         /\ \A t \in Tables : DOMAIN db'[t] \subseteq DOMAIN db[t]
         /\ Works(a) /\ Now(a).op = "del" => Key(a) \notin DOMAIN db'[Now(a).t]
         /\ Works(a) /\ Now(a).op = "each" => EachStep(a) /\ db' = db
         /\ Fails(a) => db' = db /\ Now(a).t \in erred' /\ (Now(a).t \in Asked => Now(a).t \in run'[a].touched)
<1>1. Worked(a) /\ Active(a)
  BY WorkedFacts DEF Worked
<1>2. Now(a) = run[a].todo[1] /\ 1 \in DOMAIN run[a].todo
  BY <1>1, RunFacts
<1>3. CascadeStep(Now(a))
  BY <1>2 DEF StepsClear, Cascading
<1>4. ASSUME NEW t \in Tables PROVE DOMAIN db'[t] \subseteq DOMAIN db[t]
  <2>1. DOMAIN db'[t] \subseteq DOMAIN db[t] \cup Grown(a, t)
    BY <1>1 DEF Worked
  <2>2. Grown(a, t) = {}
    BY <1>3 DEF Grown, CascadeStep
  <2> QED
    BY <2>1, <2>2
<1>5. Works(a) /\ Now(a).op = "del" => Key(a) \notin DOMAIN db'[Now(a).t]
  BY MovedFacts DEF Moved
<1>6. ASSUME Works(a), Now(a).op = "each" PROVE EachStep(a) /\ db' = db
  <2>1. EachStep(a)
    BY <1>6 DEF Works, At, FreshStep, ReadStep, TakeStep, UnlessStep, WriteStep, TouchStep, DelStep, FillStep, SendStep, InCopy
  <2> QED
    BY <2>1, EachFacts DEF RunOnly, data
<1>7. Fails(a) => db' = db /\ Now(a).t \in erred' /\ (Now(a).t \in Asked => Now(a).t \in run'[a].touched)
  BY FailFacts DEF data
<1>8. erred \subseteq erred'
  BY ErredGrows
<1> QED
  BY <1>1, <1>2, <1>3, <1>4, <1>5, <1>6, <1>7, <1>8

\* A record to be deleted is deleted, or still to be, or the handler knows of the error.
LEMMA DeletesKept ==
  ASSUME TypeInv, NEW a \in Goroutines, Works(a) \/ Fails(a), run'[a] # AtRest, StepsClear(run[a]),
         NEW X, NEW n, Turns(a, X, n), NEW t \in {"keys", "oidclinks", "byuser"}, Deletes(run[a], t),
         \A i \in DOMAIN run[a].todo : run[a].todo[i].op = "del" /\ run[a].todo[i].t = t /\ i # 1 => i >= n
  PROVE  Deletes(run[a], t)' \/ t \in run'[a].touched
<1>1. SUFFICES ASSUME NEW k \in DOMAIN db'[t], t \notin run'[a].touched
               PROVE  \E i \in DOMAIN run'[a].todo : run'[a].todo[i].op = "del" /\ run'[a].todo[i].t = t /\ KeyOf(run'[a], run'[a].todo[i]) = k
  BY DEF Deletes
<1>2. t \in Tables /\ t \in Asked /\ t # "users"
  BY TableNames DEF Asked
<1>3. PICK i \in DOMAIN run[a].todo : run[a].todo[i].op = "del" /\ run[a].todo[i].t = t /\ KeyOf(run[a], run[a].todo[i]) = k
  <2>1. k \in DOMAIN db[t]
    BY <1>1, <1>2, OwnMoves
  <2> QED
    BY <2>1 DEF Deletes
<1>4. i # 1
  <2>1. SUFFICES ASSUME i = 1 PROVE FALSE
    OBVIOUS
  <2>2. Now(a).op = "del" /\ Now(a).t = t /\ Key(a) = k
    BY <1>3, <2>1, OwnMoves DEF Key
  <2>3. CASE Works(a)
    BY <1>1, <2>2, <2>3, OwnMoves
  <2>4. CASE Fails(a)
    BY <1>1, <1>2, <2>2, <2>4, OwnMoves
  <2> QED
    BY <2>3, <2>4
<1>5. /\ Now2(X, n, i) \in DOMAIN run'[a].todo /\ run'[a].todo[Now2(X, n, i)] = run[a].todo[i]
      /\ run'[a].key = run[a].key
  <2>1. Placed(a, X, n) /\ run'[a].key = run[a].key
    BY DEF Turns, Placed
  <2>2. i >= n
    BY <1>3, <1>4
  <2> QED
    BY <2>1, <2>2, OldPlaces
<1>6. KeyOf(run'[a], run[a].todo[i]) = k
  BY <1>2, <1>3, <1>5 DEF KeyOf
<1> QED
  BY <1>3, <1>5, <1>6

LEMMA SweptKept ==
  ASSUME TypeInv, ZeroInv, NEW a \in Goroutines, Works(a) \/ Fails(a), run'[a] # AtRest, StepsClear(run[a]),
         LoopsFirst(run[a]), NEW X, NEW n, Turns(a, X, n), NEW t \in {"keys", "oidclinks"}, Swept(run[a], t)
  PROVE  Swept(run[a], t)'
<1>1. /\ Placed(a, X, n) /\ run[a].touched \subseteq run'[a].touched /\ run'[a].key = run[a].key
      /\ DOMAIN X = 1..Len(X) /\ Len(X) \in Nat
  BY DEF Turns, Placed
<1>2. t \in Tables /\ t \in Asked /\ t # "users"
  BY TableNames DEF Asked
<1>3. CASE t \in run[a].touched
  BY <1>1, <1>3 DEF Swept
<1>4. CASE \E i \in DOMAIN run[a].todo : EachDels(run[a].todo[i], t)
  <2>1. PICK i \in DOMAIN run[a].todo : EachDels(run[a].todo[i], t)
    BY <1>4
  <2>2. run[a].todo[i].op = "each" /\ run[a].todo[i].key = 0
    BY <2>1 DEF EachDels, StepsClear
  <2>3. CASE i = 1
    <3>1. Now(a) = run[a].todo[1]
      BY OwnMoves
    <3>2. EachDels(Now(a), t) /\ Now(a).op = "each" /\ Now(a).t = t /\ Now(a).via = t
      BY <2>1, <2>3, <3>1 DEF EachDels
    <3>3. CASE Fails(a)
      BY <1>2, <3>2, <3>3, OwnMoves DEF Swept
    <3>4. CASE Works(a)
      <4>1. EachStep(a) /\ db' = db
        BY <3>2, <3>4, OwnMoves
      <4>2. Listed(a) = DOMAIN db[t]
        <5>1. Active(a) /\ Now(a).op \in Loops
          BY <4>1, EachFacts
        <5> QED
          BY <3>2, <5>1, ListedFacts
      <4>3. X = Laps(Listed(a), Now(a).body)
        BY <4>1 DEF Turns
      <4>4. \A k \in Listed(a) : \E m \in DOMAIN X : X[m].op = "del" /\ X[m].t = t /\ X[m].key = k
        <5> DEFINE Y == Laps(Listed(a), Now(a).body)
        <5>1. \A k \in Listed(a) : \E m \in DOMAIN Y : Y[m].op = "del" /\ Y[m].t = t /\ Y[m].key = k
          BY <3>2, <4>1, DelLaps
        <5>2. X = Y
          BY <4>3
        <5> HIDE DEF Y
        <5> QED
          BY <5>1, <5>2
      <4>5. ASSUME NEW k \in DOMAIN db'[t]
            PROVE  \E m \in DOMAIN run'[a].todo : run'[a].todo[m].op = "del" /\ run'[a].todo[m].t = t /\ KeyOf(run'[a], run'[a].todo[m]) = k
        <5>1. PICK m \in DOMAIN X : X[m].op = "del" /\ X[m].t = t /\ X[m].key = k
          BY <4>1, <4>2, <4>4
        <5>2. k # 0
          BY <1>2, <4>1 DEF ZeroInv
        <5>3. m \in DOMAIN run'[a].todo /\ run'[a].todo[m] = X[m]
          <6>1. m \in 1..Len(X) /\ m \in DOMAIN run'[a].todo
            BY <1>1 DEF Placed
          <6>2. Comes(a, X, n, m)
            BY <1>1, <6>1 DEF Placed
          <6> QED
            BY <1>1, <6>1, <6>2 DEF Comes
        <5>4. KeyOf(run'[a], run'[a].todo[m]) = k
          BY <1>2, <5>1, <5>2, <5>3 DEF KeyOf
        <5> QED
          BY <5>1, <5>3, <5>4
      <4> QED
        BY <4>5 DEF Swept, Deletes
    <3> QED
      BY <3>3, <3>4
  <2>4. CASE i # 1
    <3>1. i >= n
      BY <2>2, <2>4, LeftHaveKeys
    <3>2. Now2(X, n, i) \in DOMAIN run'[a].todo /\ run'[a].todo[Now2(X, n, i)] = run[a].todo[i]
      BY <1>1, <3>1, OldPlaces
    <3> QED
      BY <2>1, <3>2 DEF Swept
  <2> QED
    BY <2>3, <2>4
<1>5. CASE Deletes(run[a], t)
  <2>1. ASSUME NEW i \in DOMAIN run[a].todo, run[a].todo[i].op = "del", run[a].todo[i].t = t, i # 1, ~(i >= n) PROVE FALSE
    <3>1. run[a].todo[i].key # 0 /\ Now(a).failed = "out"
      BY <2>1, LeftHaveKeys
    <3>2. Now(a) = run[a].todo[1]
      BY OwnMoves
    <3>3. 1 \in 1..i - 1
      BY <1>1, <2>1 DEF Placed
    <3> QED
      BY <2>1, <3>1, <3>2, <3>3 DEF LoopsFirst
  <2>2. Deletes(run[a], t)' \/ t \in run'[a].touched
    BY <1>5, <2>1, DeletesKept
  <2> QED
    BY <2>2 DEF Swept
<1> QED
  BY <1>3, <1>4, <1>5 DEF Swept

\* With MongoDB the sessions are gone after one command.
LEMMA PurgeEnds ==
  ASSUME TypeInv, ZeroInv, NEW a \in Goroutines, Works(a), Active(a), Now(a).op = "purge", Now(a).t = "sessions"
  PROVE  DOMAIN db'["sessions"] = {}
<1>1. DelStep(a)
  BY DEF Works, At, FreshStep, ReadStep, TakeStep, EachStep, UnlessStep, WriteStep, TouchStep, FillStep, SendStep, InCopy
<1>2. Cut(db["sessions"], db'["sessions"], Keys)
  BY <1>1, DelFacts
<1>3. DOMAIN db["sessions"] \subseteq Keys
  BY TableNames DEF TypeInv, ZeroInv, Keys0
<1> QED
  BY <1>2, <1>3 DEF Cut

\* With bbolt every session of the index has its lap.
LEMMA LoopBegins ==
  ASSUME TypeInv, ZeroInv, IndexInv, driver' = driver, NEW a \in Goroutines, Works(a), run'[a] # AtRest, StepsClear(run[a]),
         LoopsFirst(run[a]), NEW X, NEW n, Turns(a, X, n), EachStep(a), SessionDels(driver, Now(a)), "byuser" \notin erred
  PROVE  Ended(run[a])'
<1>1. Placed(a, X, n) /\ run'[a].key = run[a].key /\ DOMAIN X = 1..Len(X) /\ Len(X) \in Nat
  BY DEF Turns, Placed
<1>2. Active(a) /\ Now(a).op \in Loops /\ db' = db /\ Now(a) = run[a].todo[1] /\ 1 \in DOMAIN run[a].todo
  BY EachFacts, OwnMoves DEF RunOnly, data
<1> DEFINE Y == Laps(Listed(a), Now(a).body)
<1>3. /\ driver = "bbolt" /\ Now(a).t = "sessions" /\ Now(a).via = "byuser" /\ Now(a).op = "each"
      /\ \A i \in DOMAIN Y : /\ Y[i].key \in Listed(a) /\ Y[i].op \in {"get", "del"} /\ Y[i].t \in {"sessions", "byuser"}
      /\ \A k \in Listed(a) : \E i \in DOMAIN Y : Y[i].op = "del" /\ Y[i].t = "byuser" /\ Y[i].key = k
      /\ \A i, j \in DOMAIN Y : i < j /\ Y[i].key = Y[j].key => Y[j].op # "get"
  BY SessionLaps
<1>4. X = Y
  BY DEF Turns
<1> HIDE DEF Y
<1>5. Listed(a) = DOMAIN db["byuser"] /\ Listed(a) \subseteq DOMAIN db["sessions"]
  <2>1. Listed(a) = DOMAIN db["sessions"] \cap DOMAIN db["byuser"]
    BY <1>2, <1>3, ListedFacts
  <2>2. DOMAIN db["byuser"] \subseteq DOMAIN db["sessions"]
    BY IndexNames DEF IndexInv
  <2> QED
    BY <2>1, <2>2
<1>6. \A k \in Listed(a) : k # 0
  BY <1>5, TableNames DEF ZeroInv
<1>7. ASSUME NEW m \in DOMAIN X PROVE m \in DOMAIN run'[a].todo /\ run'[a].todo[m] = X[m]
  <2>1. m \in 1..Len(X) /\ m \in DOMAIN run'[a].todo
    BY <1>1 DEF Placed
  <2>2. Comes(a, X, n, m)
    BY <1>1, <2>1 DEF Placed
  <2> QED
    BY <1>1, <2>1, <2>2 DEF Comes
<1>8. ASSUME NEW s, s.t # "users", s.op # "new", s.key # 0 PROVE KeyOf(run'[a], s) = s.key
  BY <1>8 DEF KeyOf
<1>9. Deletes(run[a], "byuser")'
  <2>1. ASSUME NEW k \in DOMAIN db'["byuser"]
        PROVE  \E m \in DOMAIN run'[a].todo : run'[a].todo[m].op = "del" /\ run'[a].todo[m].t = "byuser" /\ KeyOf(run'[a], run'[a].todo[m]) = k
    <3>1. k \in Listed(a)
      BY <1>2, <1>5
    <3>2. PICK m \in DOMAIN X : X[m].op = "del" /\ X[m].t = "byuser" /\ X[m].key = k
      BY <1>3, <1>4, <3>1
    <3> QED
      BY <1>6, <1>7, <1>8, <3>1, <3>2
  <2> QED
    BY <2>1 DEF Deletes
<1>10. ASSUME NEW i \in DOMAIN run'[a].todo, run'[a].todo[i].op = "get", run'[a].todo[i].t = "sessions"
       PROVE  /\ KeyOf(run'[a], run'[a].todo[i]) \in DOMAIN db'["sessions"]
              /\ \A j \in 1..i - 1 : SessionDel(run'[a].todo[j]) => KeyOf(run'[a], run'[a].todo[j]) # KeyOf(run'[a], run'[a].todo[i])
  <2>1. i \in DOMAIN X
    <3>1. SUFFICES ASSUME i \notin DOMAIN X PROVE FALSE
      OBVIOUS
    <3>2. Was(X, n, i) \in DOMAIN run[a].todo /\ Was(X, n, i) >= n /\ run'[a].todo[i] = run[a].todo[Was(X, n, i)]
      BY <1>1, <3>1 DEF Placed, Comes
    <3>3. 1 \in 1..Was(X, n, i) - 1
      BY <1>1, <3>2 DEF Placed
    <3>4. run[a].todo[Was(X, n, i)].key = 0
      BY <1>2, <1>3, <3>2, <3>3 DEF LoopsFirst
    <3>5. run[a].todo[Was(X, n, i)].key # 0
      BY <1>10, <3>2 DEF StepsClear
    <3> QED
      BY <3>4, <3>5
  <2>2. run'[a].todo[i] = X[i] /\ X[i].key \in Listed(a) /\ X[i].key # 0
    BY <1>3, <1>4, <1>6, <1>7, <2>1
  <2>3. KeyOf(run'[a], run'[a].todo[i]) = X[i].key
    BY <1>8, <1>10, <2>2
  <2>4. ASSUME NEW j \in 1..i - 1, SessionDel(run'[a].todo[j]) PROVE KeyOf(run'[a], run'[a].todo[j]) # X[i].key
    <3>1. j \in DOMAIN X /\ j < i
      BY <1>1, <2>1
    <3>2. run'[a].todo[j] = X[j] /\ X[j].key \in Listed(a) /\ X[j].key # 0
      BY <1>3, <1>4, <1>6, <1>7, <3>1
    <3>3. KeyOf(run'[a], run'[a].todo[j]) = X[j].key
      BY <1>8, <2>4, <3>2 DEF SessionDel
    <3>4. X[j].key # X[i].key
      BY <1>3, <1>4, <1>10, <2>1, <2>2, <3>1
    <3> QED
      BY <3>3, <3>4
  <2> QED
    BY <1>2, <1>5, <2>2, <2>3, <2>4
<1>11. \A i \in DOMAIN run'[a].todo : Sought(run[a], i)'
  BY <1>10 DEF Sought
<1> QED
  BY <1>3, <1>9, <1>11 DEF Ended

\* A session that is still to be read stays until then.
LEMMA SoughtKept ==
  ASSUME TypeInv, ZeroInv, NEW a \in Goroutines, Works(a) \/ Fails(a), run'[a] # AtRest, StepsClear(run[a]), driver = "bbolt",
         NEW X, NEW n, Turns(a, X, n), \A i \in DOMAIN run[a].todo : Sought(run[a], i), ~SessionDels(driver, Now(a)),
         NEW i \in DOMAIN run'[a].todo
  PROVE  Sought(run[a], i)'
<1>1. SUFFICES ASSUME run'[a].todo[i].op = "get", run'[a].todo[i].t = "sessions"
               PROVE  /\ KeyOf(run'[a], run'[a].todo[i]) \in DOMAIN db'["sessions"]
                      /\ \A j \in 1..i - 1 : SessionDel(run'[a].todo[j]) => KeyOf(run'[a], run'[a].todo[j]) # KeyOf(run'[a], run'[a].todo[i])
  BY DEF Sought
<1>2. /\ Placed(a, X, n) /\ run'[a].key = run[a].key /\ DOMAIN X = 1..Len(X) /\ Len(X) \in Nat /\ n \in Nat /\ n >= 2
      /\ DOMAIN run'[a].todo = 1..Len(run'[a].todo) /\ Len(run'[a].todo) \in Nat
      /\ DOMAIN run[a].todo = 1..Len(run[a].todo) /\ Len(run[a].todo) \in Nat
  <2>1. Placed(a, X, n)
    BY DEF Turns
  <2>2. /\ run'[a].key = run[a].key /\ DOMAIN X = 1..Len(X) /\ Len(X) \in Nat /\ n \in 2..Len(run[a].todo) + 1
        /\ DOMAIN run'[a].todo = 1..Len(run'[a].todo) /\ Len(run'[a].todo) \in Nat
        /\ DOMAIN run[a].todo = 1..Len(run[a].todo) /\ Len(run[a].todo) \in Nat
    BY <2>1 DEF Placed
  <2>3. n \in Nat /\ n >= 2
    BY <2>2
  <2> QED
    BY <2>1, <2>2, <2>3
<1>3. ASSUME NEW m \in DOMAIN run'[a].todo
      PROVE  \/ m \in DOMAIN X /\ run'[a].todo[m].t \in {"keys", "oidclinks"}
             \/ m \notin DOMAIN X /\ Was(X, n, m) \in DOMAIN run[a].todo /\ Was(X, n, m) >= n
                /\ run'[a].todo[m] = run[a].todo[Was(X, n, m)]
  <2>1. Comes(a, X, n, m) /\ m \in Nat
    BY <1>2 DEF Placed
  <2>2. CASE m \in DOMAIN X
    <3>1. run'[a].todo[m] = X[m]
      BY <1>2, <2>1, <2>2 DEF Comes
    <3>2. LapClear(a, X[m])
      BY <2>2, LapsClear
    <3> QED
      BY <2>2, <3>1, <3>2 DEF LapClear
  <2>3. CASE m \notin DOMAIN X
    BY <1>2, <2>1, <2>3 DEF Comes
  <2> QED
    BY <2>2, <2>3
<1> DEFINE w == Was(X, n, i)
<1>4. i \notin DOMAIN X /\ w \in DOMAIN run[a].todo /\ w >= n /\ run'[a].todo[i] = run[a].todo[w]
  BY <1>1, <1>3
<1>5. ASSUME NEW s, s.op # "new" PROVE KeyOf(run'[a], s) = KeyOf(run[a], s)
  BY <1>2, <1>5 DEF KeyOf
<1>6. /\ KeyOf(run[a], run[a].todo[w]) \in DOMAIN db["sessions"]
      /\ \A j \in 1..w - 1 : SessionDel(run[a].todo[j]) => KeyOf(run[a], run[a].todo[j]) # KeyOf(run[a], run[a].todo[w])
  BY <1>1, <1>4 DEF Sought
<1>7. KeyOf(run'[a], run'[a].todo[i]) = KeyOf(run[a], run[a].todo[w])
  BY <1>1, <1>4, <1>5
<1>8. KeyOf(run[a], run[a].todo[w]) \in DOMAIN db'["sessions"]
  <2>1. Active(a) /\ Now(a) = run[a].todo[1]
    BY OwnMoves
  <2>2. Works(a) => Moved(a)
    BY MovedFacts
  <2>3. CASE DOMAIN db["sessions"] \subseteq DOMAIN db'["sessions"]
    BY <1>6, <2>3
  <2>4. CASE SessionDel(Now(a)) /\ Cut(db["sessions"], db'["sessions"], {Key(a)})
    <3>1. 1 \in 1..w - 1
      BY <1>2, <1>4
    <3>2. Key(a) # KeyOf(run[a], run[a].todo[w])
      BY <1>6, <2>1, <2>4, <3>1 DEF Key
    <3> QED
      BY <1>6, <2>4, <3>2 DEF Cut
  <2>5. CASE Fails(a)
    BY <1>6, <2>5, OwnMoves
  <2> QED
    BY <2>1, <2>2, <2>3, <2>4, <2>5, IndexMoves
<1>9. ASSUME NEW j \in 1..i - 1, SessionDel(run'[a].todo[j])
      PROVE  KeyOf(run'[a], run'[a].todo[j]) # KeyOf(run[a], run[a].todo[w])
  <2>1. j \in DOMAIN run'[a].todo /\ j < i
    BY <1>2
  <2>2. Was(X, n, j) \in DOMAIN run[a].todo /\ run'[a].todo[j] = run[a].todo[Was(X, n, j)]
    BY <1>3, <1>9, <2>1 DEF SessionDel
  <2>3. Was(X, n, j) \in 1..w - 1
    BY <1>2, <1>4, <2>1, <2>2 DEF Was
  <2>4. SessionDel(run[a].todo[Was(X, n, j)])
    BY <1>9, <2>2
  <2>5. KeyOf(run[a], run[a].todo[Was(X, n, j)]) # KeyOf(run[a], run[a].todo[w])
    BY <1>6, <2>3, <2>4
  <2> QED
    BY <1>5, <2>2, <2>4, <2>5 DEF SessionDel
<1> QED
  BY <1>7, <1>8, <1>9

LEMMA EndedKept ==
  ASSUME TypeInv, ZeroInv, IndexInv, driver' = driver, NEW a \in Goroutines, Works(a) \/ Fails(a), run'[a] # AtRest,
         StepsClear(run[a]), LoopsFirst(run[a]), NEW X, NEW n, Turns(a, X, n), Ended(run[a])
  PROVE  Ended(run[a])'
<1>1. /\ Placed(a, X, n) /\ run[a].touched \subseteq run'[a].touched
      /\ Active(a) /\ Now(a) = run[a].todo[1] /\ 1 \in DOMAIN run[a].todo /\ CascadeStep(Now(a)) /\ erred \subseteq erred'
  BY OwnMoves DEF Turns, Placed
<1>2. driver \in Drivers
  BY DEF TypeInv
<1>3. CASE Missed(run[a])
  <2>1. Missed(run[a])'
    BY <1>1, <1>3 DEF Missed
  <2> QED
    BY <2>1 DEF Ended
<1>4. ASSUME Fails(a), Now(a).t \in {"sessions", "byuser"} PROVE Ended(run[a])'
  <2>1. Now(a).t \in erred'
    BY <1>4, OwnMoves
  <2>2. Missed(run[a])'
    BY <1>4, <2>1 DEF Missed
  <2> QED
    BY <2>2 DEF Ended
<1>5. CASE \E i \in DOMAIN run[a].todo : SessionDels(driver, run[a].todo[i])
  <2>1. PICK i \in DOMAIN run[a].todo : SessionDels(driver, run[a].todo[i])
    BY <1>5
  <2>2. CASE i = 1
    <3>1. SessionDels(driver, Now(a)) /\ Now(a).t = "sessions"
      BY <1>1, <2>1, <2>2 DEF SessionDels
    <3>2. CASE Fails(a)
      BY <1>4, <3>1, <3>2
    <3>3. CASE Works(a) /\ driver = "mongo"
      <4>1. DOMAIN db'["sessions"] = {}
        BY <1>1, <3>1, <3>3, PurgeEnds DEF SessionDels
      <4> QED
        BY <3>3, <4>1 DEF Ended
    <3>4. CASE Works(a) /\ driver = "bbolt"
      <4>1. EachStep(a)
        BY <3>1, <3>4, OwnMoves DEF SessionDels
      <4>2. CASE "byuser" \in erred
        BY <1>3, <4>2 DEF Missed
      <4>3. CASE "byuser" \notin erred
        BY <3>1, <3>4, <4>1, <4>3, LoopBegins
      <4> QED
        BY <4>2, <4>3
    <3> QED
      BY <1>2, <3>2, <3>3, <3>4 DEF Drivers
  <2>3. CASE i # 1
    <3>1. run[a].todo[i].op \in {"each", "purge"}
      BY <2>1 DEF SessionDels
    <3>2. run[a].todo[i].key = 0
      BY <3>1 DEF StepsClear
    <3>3. i >= n
      BY <2>3, <3>2, LeftHaveKeys
    <3>4. Now2(X, n, i) \in DOMAIN run'[a].todo /\ run'[a].todo[Now2(X, n, i)] = run[a].todo[i]
      BY <1>1, <3>3, OldPlaces
    <3> QED
      BY <2>1, <3>4 DEF Ended
  <2> QED
    BY <2>2, <2>3
<1>6. CASE driver = "mongo" /\ DOMAIN db["sessions"] = {}
  <2>1. DOMAIN db'["sessions"] = {}
    BY <1>6, TableNames, OwnMoves
  <2> QED
    BY <1>6, <2>1 DEF Ended
<1>7. CASE driver = "bbolt" /\ Deletes(run[a], "byuser") /\ \A i \in DOMAIN run[a].todo : Sought(run[a], i)
  <2>1. CASE SessionDels(driver, Now(a))
    BY <1>1, <1>5, <2>1
  <2>2. CASE ~SessionDels(driver, Now(a)) /\ Fails(a) /\ Now(a).t \in {"sessions", "byuser"}
    BY <1>4, <2>2
  <2>3. CASE ~SessionDels(driver, Now(a)) /\ ~(Fails(a) /\ Now(a).t \in {"sessions", "byuser"})
    <3>1. ASSUME NEW i \in DOMAIN run[a].todo, i # 1, ~(i >= n) PROVE FALSE
      <4>1. Now(a).t \in {"sessions", "byuser"}
            /\ (Fails(a) \/ (Now(a).op = "get" /\ Now(a).t = "sessions" /\ ~Has("sessions", Key(a))))
        BY <3>1, LeftHaveKeys
      <4>2. Now(a).op = "get" /\ Now(a).t = "sessions" /\ ~Has("sessions", Key(a))
        BY <2>3, <4>1
      <4>3. Sought(run[a], 1)
        BY <1>1, <1>7
      <4> QED
        BY <1>1, <4>2, <4>3 DEF Sought, Has, Key
    <3>2. Deletes(run[a], "byuser")' \/ "byuser" \in run'[a].touched
      BY <1>7, <3>1, DeletesKept
    <3>3. CASE "byuser" \in run'[a].touched
      <4>1. Missed(run[a])'
        BY <3>3 DEF Missed
      <4> QED
        BY <4>1 DEF Ended
    <3>4. ASSUME NEW i \in DOMAIN run'[a].todo PROVE Sought(run[a], i)'
      BY <1>7, <2>3, <3>4, SoughtKept
    <3> QED
      BY <1>7, <3>2, <3>3, <3>4 DEF Ended
  <2> QED
    BY <2>1, <2>2, <2>3
<1> QED
  BY <1>3, <1>5, <1>6, <1>7 DEF Ended

LEMMA CascadeWorks ==
  ASSUME TypeInv, ZeroInv, IndexInv, CascadeInv, NEW a \in Goroutines, Works(a) \/ Fails(a)
  PROVE  CascadeInv'
<1>1. Worked(a) /\ OthersSame(a, {}) /\ driver' = driver /\ erred \subseteq erred'
  BY WorkedFacts, ErredGrows DEF Worked
<1>2. ASSUME NEW c \in Goroutines \ {a} PROVE (Deleting(c) => Falling(run[c]))'
  <2>1. \A t \in Tables : DOMAIN db'[t] = DOMAIN db[t] \/ OthersSame(a, {t})
    BY Telling
  <2>2. Deleting(c) => Falling(run[c])
    BY <1>2 DEF CascadeInv
  <2> QED
    BY <1>1, <1>2, <2>1, <2>2, CascadeOthers
<1>3. (Deleting(a) => Falling(run[a]))'
  <2>1. SUFFICES ASSUME Deleting(a)' PROVE Falling(run[a])'
    OBVIOUS
  <2>2. run'[a] # AtRest
    <3>1. DOMAIN run'[a].todo # {}
      BY <2>1 DEF Deleting
    <3> QED
      BY <3>1, RestFacts
  <2>3. PICK X, n : Turns(a, X, n)
    BY <2>2, Turning
  <2>4. Deleting(a)
    <3>1. PICK i \in DOMAIN run'[a].todo : UserDel(run'[a].todo[i])
      BY <2>1 DEF Deleting
    <3>2. Comes(a, X, n, i)
      BY <2>3 DEF Turns, Placed
    <3>3. ~Lapping(a, run'[a].todo[i])
      BY <3>1 DEF Lapping, Inner, UserDel
    <3> QED
      BY <3>1, <3>2, <3>3 DEF Comes, Deleting
  <2>5. StepsClear(run[a]) /\ LoopsFirst(run[a]) /\ (\A t \in {"keys", "oidclinks"} : Swept(run[a], t)) /\ Ended(run[a])
    BY <2>4 DEF CascadeInv, Falling
  <2>6. StepsClear(run[a])'
    BY <1>1, <2>3, <2>5, StepsClearKept
  <2>7. LoopsFirst(run[a])'
    BY <2>3, <2>5, LoopsFirstKept
  <2>8. ASSUME NEW t \in {"keys", "oidclinks"} PROVE Swept(run[a], t)'
    BY <2>2, <2>3, <2>5, <2>8, SweptKept
  <2>9. Ended(run[a])'
    BY <1>1, <2>2, <2>3, <2>5, EndedKept
  <2> QED
    BY <2>6, <2>7, <2>8, <2>9 DEF Falling
<1> QED
  BY <1>2, <1>3 DEF CascadeInv

\* What a handler that ends with the deletion of the user had before it was that step alone.
LEMMA LastDeletes ==
  ASSUME TypeInv, NEW a \in Goroutines, Active(a), UserDel(Now(a)), Works(a), run'[a] = AtRest
  PROVE  /\ DelStep(a) /\ Len(run[a].todo) = 1 /\ DOMAIN run[a].todo = {1} /\ run[a].todo[1] = Now(a)
         /\ \A t \in Tables \ {"users"} : db'[t] = db[t]
         /\ driver' = driver
<1>1. DelStep(a)
  BY DEF Works, UserDel, At, FreshStep, ReadStep, TakeStep, EachStep, UnlessStep, WriteStep, TouchStep, FillStep, SendStep, InCopy
<1>2. Or(Done(a)) = AtRest
  <2> HIDE DEF Now
  <2>1. run' = [b \in Goroutines |-> IF b = a THEN Or(Done(a))
                               ELSE IF Active(b) THEN [run[b] EXCEPT !.touched = @ \cup ({Now(a).t} \cap Asked)]
                               ELSE AtRest]
    BY <1>1 DEF DelStep, Touches
  <2> QED
    BY <2>1
<1>3. Tail(run[a].todo) = <<>>
  <2> DEFINE r == run[a]
             x == Tail(run[a].todo)
             q == Doing(x, r.key, r.fresh, r.copy, r.touched)
  <2>1. Done(a) = q
    BY DoneDoing
  <2>2. q.todo = x
    BY DoingFacts
  <2> HIDE DEF x, q
  <2>3. AtRest.todo = <<>>
    BY RestFacts
  <2>4. CASE q.todo = <<>>
    BY <2>2, <2>4 DEF x
  <2>5. CASE q.todo # <<>>
    <3>1. Or(q) = q
      BY <2>5 DEF Or
    <3> QED
      BY <1>2, <2>1, <2>3, <2>5, <3>1
  <2> QED
    BY <2>4, <2>5
<1>4. run[a].todo \in Todos(driver) /\ run[a].todo # <<>>
  BY DEF TypeInv, IsRun, Active
<1>5. Len(run[a].todo) = 1 /\ DOMAIN run[a].todo = {1} /\ run[a].todo[1] = Now(a)
  <2>1. run[a].todo \in Seq(AnyStep(driver))
    BY <1>4 DEF Todos
  <2>2. Len(run[a].todo) = 1
    <3>1. Len(Tail(run[a].todo)) = Len(run[a].todo) - 1 /\ Len(run[a].todo) \in Nat
      BY <1>4, <2>1, HeadTailProperties
    <3>2. Len(<<>>) = 0
      OBVIOUS
    <3>3. 0 = Len(run[a].todo) - 1
      BY <1>3, <3>1, <3>2
    <3> QED
      BY <3>1, <3>3
  <2>3. DOMAIN run[a].todo = 1..Len(run[a].todo)
    BY <2>1
  <2>4. run[a].todo[1] = Now(a)
    BY <1>4, <2>1 DEF Now
  <2> QED
    BY <2>2, <2>3, <2>4
<1>6. (\A t \in Tables \ {"users"} : db'[t] = db[t]) /\ driver' = driver
  BY <1>1, DelFacts DEF UserDel
<1> QED
  BY <1>1, <1>5, <1>6

\* Then nothing is left that counts as the user's, but what others changed, or an error kept.
LEMMA Deleted ==
  ASSUME TypeInv, CascadeInv, NEW a \in Goroutines, Active(a), UserDel(Now(a)), Works(a), run'[a] = AtRest
  PROVE  /\ DOMAIN db'[UserIndex(driver)] = {} \/ Missed(run[a])
         /\ \A t \in {"keys", "oidclinks"} : DOMAIN db'[t] = {} \/ t \in run[a].touched
<1>1. /\ DOMAIN run[a].todo = {1} /\ run[a].todo[1] = Now(a)
      /\ \A t \in Tables \ {"users"} : db'[t] = db[t]
  BY LastDeletes
<1>2. Falling(run[a])
  <2>1. Deleting(a)
    BY <1>1 DEF Deleting
  <2> QED
    BY <2>1 DEF CascadeInv
<1>3. ASSUME NEW t \in {"keys", "oidclinks", "byuser"}, Deletes(run[a], t) PROVE DOMAIN db[t] = {}
  BY <1>1, <1>3 DEF Deletes, UserDel
<1>4. ASSUME NEW t \in {"keys", "oidclinks"} PROVE DOMAIN db'[t] = {} \/ t \in run[a].touched
  <2>1. Swept(run[a], t) /\ db'[t] = db[t]
    BY <1>1, <1>2, TableNames DEF Falling
  <2>2. \A i \in DOMAIN run[a].todo : ~EachDels(run[a].todo[i], t)
    BY <1>1 DEF EachDels, UserDel
  <2> QED
    BY <1>3, <2>1, <2>2 DEF Swept
<1>5. DOMAIN db'[UserIndex(driver)] = {} \/ Missed(run[a])
  <2>1. Ended(run[a]) /\ db'["sessions"] = db["sessions"] /\ db'["byuser"] = db["byuser"]
    BY <1>1, <1>2, TableNames DEF Falling
  <2>2. \A i \in DOMAIN run[a].todo : ~SessionDels(driver, run[a].todo[i])
    BY <1>1 DEF SessionDels, UserDel
  <2>3. CASE driver = "mongo" /\ DOMAIN db["sessions"] = {}
    BY <2>1, <2>3 DEF UserIndex, By
  <2>4. CASE driver = "bbolt" /\ Deletes(run[a], "byuser")
    <3>1. DOMAIN db["byuser"] = {}
      BY <1>3, <2>4
    <3> QED
      BY <2>1, <2>4, <3>1 DEF UserIndex, By
  <2> QED
    BY <2>1, <2>2, <2>3, <2>4 DEF Ended
<1> QED
  BY <1>4, <1>5

LEMMA CascadeStarts ==
  ASSUME TypeInv, CascadeInv, NEW a, StartStep(a)
  PROVE  CascadeInv'
<1>1. /\ a \in Goroutines /\ OthersSame(a, {}) /\ db' = db /\ driver' = driver /\ erred' = erred
  BY DEF StartStep, data, ghosts
<1>2. ASSUME NEW c \in Goroutines \ {a} PROVE (Deleting(c) => Falling(run[c]))'
  <2>1. Deleting(c) => Falling(run[c])
    BY <1>2 DEF CascadeInv
  <2>2. erred \subseteq erred' /\ \A t \in Tables : DOMAIN db'[t] = DOMAIN db[t] \/ OthersSame(a, {t})
    BY <1>1
  <2> QED
    BY <1>1, <1>2, <2>1, <2>2, CascadeOthers
<1>3. (Deleting(a) => Falling(run[a]))'
  BY CascadeBegins
<1> QED
  BY <1>2, <1>3 DEF CascadeInv

\* The handler that deletes a user clears all that counts as the user's first, in whatever order
\* handlers run: what it still has to do covers every session, API key and link there is,
\* but those another handler changed meanwhile, or an error kept.
THEOREM CascadeHolds == RecordsSpec => Cascade
<1> DEFINE Cleared ==
      \A a \in Goroutines :
        At(a, {"del"}) /\ Now(a).t = "users" /\ run'[a] = AtRest /\ faults' = faults =>
          /\ DOMAIN db'[UserIndex(driver)] = {} \/ {"sessions", "byuser"} \cap (run[a].touched \cup erred) # {}
          /\ \A t \in {"keys", "oidclinks"} : DOMAIN db'[t] = {} \/ t \in run[a].touched
<1>1. Init => BaseInv /\ IndexInv /\ CascadeInv
  BY BaseInit, IndexInit, InitRuns DEF CascadeInv, Deleting
<1>2. ASSUME BaseInv, IndexInv, CascadeInv, [Next]_vars
      PROVE  BaseInv' /\ IndexInv' /\ CascadeInv' /\ (Cleared \/ UNCHANGED vars)
  <2>1. TypeInv /\ KeyInv /\ PendInv /\ ZeroInv /\ BaseInv' /\ Ways
    BY <1>2, BaseNext DEF BaseInv
  <2>2. CASE \E a \in Goroutines : StartStep(a)
    <3>1. PICK a \in Goroutines : StartStep(a)
      BY <2>2
    <3>2. IndexInv' /\ CascadeInv'
      BY <1>2, <2>1, <3>1, IndexStarts, CascadeStarts
    <3>3. ASSUME NEW c \in Goroutines, Active(c) PROVE run'[c] # AtRest
      <4>1. c # a /\ OthersSame(a, {})
        BY <3>1, <3>3 DEF StartStep
      <4>2. run'[c].todo = run[c].todo
        BY <2>1, <4>1, OthersNext
      <4> QED
        BY <3>3, <4>2, RestFacts DEF Active
    <3>4. Cleared
      BY <3>3 DEF At
    <3> HIDE DEF Cleared
    <3> QED
      BY <2>1, <3>2, <3>4
  <2>3. CASE Crash
    <3>1. (\A a \in Goroutines : run'[a] = AtRest) /\ faults' = faults - 1 /\ faults \in Nat
      BY <2>1, <2>3, CrashFacts DEF TypeInv
    <3>2. \A a \in Goroutines : DOMAIN run'[a].todo = {}
      BY <3>1, RestFacts
    <3>3. CascadeInv'
      BY <3>2 DEF CascadeInv, Deleting
    <3>4. IndexInv'
      BY <1>2, <2>1, <2>3, IndexCrash
    <3>5. faults' # faults
      BY <3>1
    <3>6. Cleared
      BY <3>5
    <3> HIDE DEF Cleared
    <3> QED
      BY <2>1, <3>3, <3>4, <3>6
  <2>4. CASE \E a \in Goroutines : (Works(a) \/ Fails(a)) /\ Worked(a)
    <3>1. PICK a \in Goroutines : (Works(a) \/ Fails(a)) /\ Worked(a)
      BY <2>4
    <3>2. IndexInv' /\ CascadeInv'
      BY <1>2, <2>1, <3>1, IndexWorks, CascadeWorks
    <3>3. ASSUME NEW c \in Goroutines, At(c, {"del"}), Now(c).t = "users", run'[c] = AtRest, faults' = faults
          PROVE  /\ DOMAIN db'[UserIndex(driver)] = {} \/ Missed(run[c])
                 /\ \A t \in {"keys", "oidclinks"} : DOMAIN db'[t] = {} \/ t \in run[c].touched
      <4>1. Active(c) /\ UserDel(Now(c))
        BY <3>3 DEF At, UserDel
      <4>2. CASE c # a
        <5>1. OthersSame(a, {})
          BY <3>1 DEF Worked
        <5>2. run'[c].todo = run[c].todo
          BY <2>1, <3>1, <4>2, <5>1, OthersNext
        <5> QED
          BY <3>3, <4>1, <5>2, RestFacts DEF Active
      <4>3. CASE c = a /\ Fails(a)
        <5>1. faults' = faults - 1 /\ faults \in Nat
          BY <2>1, <3>1, <4>3, FailFacts DEF TypeInv
        <5> QED
          BY <3>3, <5>1
      <4>4. CASE c = a /\ Works(a)
        BY <1>2, <2>1, <3>3, <4>1, <4>4, Deleted
      <4> QED
        BY <3>1, <4>2, <4>3, <4>4
    <3>4. Cleared
      BY <3>3 DEF Missed
    <3> HIDE DEF Cleared
    <3> QED
      BY <2>1, <3>2, <3>4
  <2>5. CASE UNCHANGED vars
    <3>1. UNCHANGED <<driver, db, run, erred>>
      BY <2>5 DEF vars, data
    <3>2. IndexInv'
      BY <1>2, <2>5 DEF IndexInv, vars, data, Active, Now, Key
    <3>3. \A a \in Goroutines : (Deleting(a) <=> Deleting(a)') /\ (Falling(run[a]) <=> Falling(run[a])')
      BY <3>1 DEF Deleting, Falling, StepsClear, LoopsFirst, Swept, Deletes, Ended, Missed, Sought
    <3>4. CascadeInv'
      BY <1>2, <3>3 DEF CascadeInv
    <3> HIDE DEF Cleared
    <3> QED
      BY <2>1, <2>5, <3>2, <3>4
  <2> HIDE DEF Cleared
  <2> QED
    BY <2>1, <2>2, <2>3, <2>4, <2>5 DEF Ways
<1>3. BaseInv /\ IndexInv /\ CascadeInv /\ [Next]_vars => BaseInv' /\ IndexInv' /\ CascadeInv'
  BY <1>2
<1>4. BaseInv /\ IndexInv /\ CascadeInv /\ [Next]_vars => [Cleared]_vars
  BY <1>2
<1> QED
  BY <1>1, <1>3, <1>4, PTL DEF RecordsSpec, Cascade

-----------------------------------------------------------------------------
\* Configuration and binary

USE ConfigAssumption

-----------------------------------------------------------------------------
\* Shapes

Names == Requests \cup {"none"}
Hook == [of : Requests \cup {"setup"}, key : Requests \cup {"setup", Mask}]
Configuration == [whole : BOOLEAN, creds : {"none", "clear", "sealed", "masked"}, others : {"none", "clear"},
                  spam : Names, sane : BOOLEAN, rules : Names, hooks : Seq(Hook),
                  rest : {"absent", "default", "zero"}]
Places == {"idle", "snapshot", "merge", "load", "store", "save", "truncate", "fill", "rename"}
Purposes == {"none", "setup", "update", "rollback", "undo", "webhook", "clean", "reload"}
Targets == {"none", "temp", "file", "gone"}
Job == [at : Places, op : Purposes, cfg : Configuration, back : Nat, to : Targets]

\* The type invariant of Config.
ConfigTypeOK ==
  /\ {file, live} \cup temp \subseteq Configuration
  /\ version \in Nat
  /\ history \in [DOMAIN history -> Configuration] /\ DOMAIN history \subseteq Nat
  /\ mutex \in Requests \cup {Nobody}
  /\ watches \subseteq Nat
  /\ job \in [Actors -> Job]
  /\ {crossed, slipped} \subseteq BOOLEAN

\* Where the credentials are clear, sealed and masked, in what the jobs carry too.  An update and a look back work on
\* a configuration that is loaded.
InMemory(c) == c.whole /\ c.creds = "clear" /\ c.others = "clear"
OnDisk(c) == c.whole => c.others = "clear" /\ (c.creds = "sealed" \/ (c.creds = "clear" /\ c.rest = "absent"))
InHistory(c) == c.whole /\ c.creds = "masked" /\ c.others = "clear"
ToBeSaved(j) == IF j.op = "update" THEN j.cfg.whole => j.cfg.others = "clear" /\ j.cfg.creds \in {"clear", "sealed"}
                ELSE InMemory(j.cfg)
Carried(j) ==
  /\ j.at \in {"snapshot", "merge"} => j.op = "update" /\ OnDisk(j.cfg)
  /\ j.at = "truncate" => j.op = "clean" /\ OnDisk(j.cfg)
  /\ j.at = "fill" /\ j.op = "clean" => OnDisk(j.cfg)
  /\ j.at \in {"save", "rename"} => j.op # "clean"
  /\ j.at \in {"save", "fill", "rename"} /\ j.op # "clean" => ToBeSaved(j)
  /\ j.at = "store" => InMemory(j.cfg)
SecretsInv ==
  /\ (live.whole => InMemory(live)) /\ OnDisk(file) /\ \A c \in temp : OnDisk(c)
  /\ \A v \in DOMAIN history : InHistory(history[v])
  /\ watches # {} => live.whole
  /\ \A a \in Actors : Carried(job[a]) /\ (job[a].at = "snapshot" => live.whole)

\* Numbers are given in order, unless one could not be read or written.
NumbersInv == slipped \/ \A v \in DOMAIN history : v <= version

\* An update holds the mutex.  Unless somebody writes without it, what it has read is what the file holds, what it
\* saves differs from that in one section, and the temporary file is its own.
OneSection(c, f) == /\ \E s \in Sections : \A t \in Sections : t # s => c[t] = f[t]
                    /\ c.rest = Decoded(f).rest
Faithful(j, f, t) ==
  /\ j.at \in {"snapshot", "merge"} => j.cfg = f
  /\ j.at \in {"save", "fill", "rename"} => OneSection(j.cfg, f)
  /\ j.at = "fill" => j.to = "temp" /\ t = {Nothing}
  /\ j.at = "rename" => t = {Seal(j.cfg)}
UpdatesInv ==
  \A a \in Actors : job[a].op = "update" =>
    /\ mutex = a
    /\ \/ crossed
       \/ Faithful(job[a], file, temp) /\ \A b \in Actors \ {a} : job[b].at \notin {"fill", "rename"}

ConfigInv == ConfigTypeOK /\ SecretsInv /\ NumbersInv /\ UpdatesInv

\* One process at a time has moved the binary away, and has put a whole one aside.
Gap == {"create", "copy", "install", "restore", "return", "undo"}
UpdateInv ==
  /\ disk \in [Files -> Whole \cup {"none", "part"}]
  /\ step \in [Updaters -> Steps]
  /\ \A f \in {"bin", "old", "broken"} : disk[f] # "part"
  /\ \E f \in {"bin", "old", "broken"} : disk[f] \in Whole
  /\ \A u \in Updaters :
       /\ step[u] \in Gap => disk["bin"] = "none" /\ \A v \in Updaters : step[v] \in Gap => u = v
       /\ step[u] \in {"create", "copy", "install", "restore"} => disk["old"] \in Whole
       /\ step[u] \in {"return", "undo"} => disk["broken"] \in Whole
       /\ step[u] = "install" => disk["new"] = "v2"
AdminInv == ConfigInv /\ UpdateInv

-----------------------------------------------------------------------------
\* The binary

LEMMA UpdateInitial == UpdateInit => UpdateInv
BY DEF UpdateInit, UpdateInv, Files, Whole, Steps, Gap

\* A step of a process, whatever it does to the files: the facts about the others that it must leave true.
LEMMA UpdateStep == ASSUME UpdateInv, UpdateNext PROVE UpdateInv'
<1>0. PICK u \in Updaters : \/ Download(u) \/ BackUp(u) \/ Create(u) \/ Copy(u) \/ Install(u) \/ Restore(u)
                            \/ Ask(u) \/ Aside(u) \/ GoBack(u) \/ Undo(u) \/ Kill(u)
  BY DEF UpdateNext
<1> USE DEF UpdateInv, Files, Whole, Steps, Gap, To, Move, Rename, Missing
<1>1. CASE Download(u) BY <1>1 DEF Download
<1>2. CASE BackUp(u) BY <1>2 DEF BackUp
<1>3. CASE Create(u) BY <1>3 DEF Create
<1>4. CASE Copy(u) BY <1>4 DEF Copy
<1>5. CASE Install(u) BY <1>5 DEF Install
<1>6. CASE Restore(u) BY <1>6 DEF Restore
<1>7. CASE Ask(u) BY <1>7 DEF Ask
<1>8. CASE Aside(u) BY <1>8 DEF Aside
<1>9. CASE GoBack(u) BY <1>9 DEF GoBack
<1>10. CASE Undo(u) BY <1>10 DEF Undo
<1>11. CASE Kill(u) BY <1>11 DEF Kill
<1> QED BY <1>0, <1>1, <1>2, <1>3, <1>4, <1>5, <1>6, <1>7, <1>8, <1>9, <1>10, <1>11

LEMMA UpdateKept == ASSUME UpdateInv, UNCHANGED updateVars PROVE UpdateInv'
BY DEF UpdateInv, updateVars

-----------------------------------------------------------------------------
\* Configurations

LEMMA Sealing ==
  ASSUME NEW c \in Configuration
  PROVE  /\ Seal(c) \in Configuration /\ Seal(c).whole = c.whole /\ Seal(c).others = c.others /\ Seal(c).rest = c.rest
         /\ \A s \in Sections : Seal(c)[s] = c[s]
         /\ Seal(c).creds = IF c.creds = "clear" THEN "sealed" ELSE c.creds
BY DEF Configuration, Seal, Sections

LEMMA Opening ==
  ASSUME NEW c \in Configuration
  PROVE  /\ Open(c) \in Configuration /\ Open(c).whole = c.whole /\ Open(c).others = c.others
         /\ Open(c).creds = IF c.creds = "sealed" THEN "clear" ELSE c.creds
BY DEF Configuration, Open

LEMMA Decoding ==
  ASSUME NEW c \in Configuration
  PROVE  /\ Decoded(c) \in Configuration /\ Decoded(c).whole = c.whole /\ Decoded(c).others = c.others
         /\ Decoded(c).creds = c.creds /\ \A s \in Sections : Decoded(c)[s] = c[s]
         /\ Decoded(c).rest = IF c.rest = "absent" THEN "zero" ELSE c.rest
BY DEF Configuration, Decoded, Sections

LEMMA HookKeyed ==
  ASSUME NEW h \in Hook, NEW k \in Requests \cup {"setup", Mask} PROVE [h EXCEPT !.key = k] \in Hook
BY DEF Hook

\* As many webhooks as before
LEMMA HooksMade ==
  ASSUME NEW s \in Seq(Hook), NEW f, f = [i \in DOMAIN s |-> f[i]], \A i \in DOMAIN s : f[i] \in Hook
  PROVE  f \in Seq(Hook)
<1>1. PICK n \in Nat : s \in [1..n -> Hook] BY SeqDef
<1>2. f \in [1..n -> Hook] BY <1>1
<1> QED BY <1>1, <1>2, SeqDef

LEMMA Masking ==
  ASSUME NEW c \in Configuration
  PROVE  /\ MaskHooks(c) \in Configuration /\ MaskHooks(c).whole = c.whole
         /\ MaskHooks(c).creds = c.creds /\ MaskHooks(c).others = c.others
         /\ Masked(c) \in Configuration /\ Masked(c).whole = c.whole
         /\ Masked(c).creds = "masked" /\ Masked(c).others = c.others
<1> DEFINE h == [i \in DOMAIN c.hooks |-> [c.hooks[i] EXCEPT !.key = Mask]]
<1>1. c.hooks \in Seq(Hook) BY DEF Configuration
<1>2. \A i \in DOMAIN c.hooks : [c.hooks[i] EXCEPT !.key = Mask] \in Hook
  <2>1. \A i \in DOMAIN c.hooks : c.hooks[i] \in Hook BY <1>1
  <2> QED BY <2>1, HookKeyed
<1>3. h \in Seq(Hook) BY <1>1, <1>2, HooksMade
<1>4. MaskHooks(c) = [c EXCEPT !.hooks = h] BY DEF MaskHooks
<1> HIDE DEF h
<1> QED BY <1>3, <1>4 DEF Configuration, Masked

\* What a rollback restores is whole and has the credentials in memory.
LEMMA Unmasking ==
  ASSUME NEW c \in Configuration, live \in Configuration
  PROVE  /\ Unmask(c) \in Configuration /\ Unmask(c).whole = c.whole
         /\ Unmask(c).creds = live.creds /\ Unmask(c).others = c.others
<1> DEFINE k(i) == HookKey(c.hooks[i], live.hooks[i])
           h == [i \in DOMAIN c.hooks |-> [c.hooks[i] EXCEPT !.key = k(i)]]
<1>1. c.hooks \in Seq(Hook) /\ live.hooks \in Seq(Hook) BY DEF Configuration
<1>2. ASSUME Len(c.hooks) = Len(live.hooks) PROVE h \in Seq(Hook)
  <2>1. \A i \in DOMAIN c.hooks : c.hooks[i] \in Hook /\ live.hooks[i] \in Hook BY <1>1, <1>2
  <2>2. \A i \in DOMAIN c.hooks : k(i) \in Requests \cup {"setup", Mask} BY <2>1 DEF Hook, HookKey
  <2>3. \A i \in DOMAIN c.hooks : [c.hooks[i] EXCEPT !.key = k(i)] \in Hook BY <2>1, <2>2, HookKeyed
  <2> QED BY <1>1, <2>3, HooksMade
<1>3. UnmaskHooks(c) = IF Len(c.hooks) # Len(live.hooks) THEN c ELSE [c EXCEPT !.hooks = h] BY DEF UnmaskHooks
<1> HIDE DEF h
<1> QED BY <1>2, <1>3 DEF Configuration, Unmask

\* A request writes one section.
LEMMA Patching ==
  ASSUME NEW r \in Requests, NEW p \in Patches(r), NEW c \in Configuration
  PROVE  /\ Patched(p, c) \in Configuration /\ Patched(p, c).whole = c.whole
         /\ Patched(p, c).creds = c.creds /\ Patched(p, c).others = c.others /\ Patched(p, c).rest = c.rest
         /\ \E s \in Sections : \A t \in Sections : t # s => Patched(p, c)[t] = c[t]
<1>1. CASE \E ok \in BOOLEAN : p = [spam |-> r, sane |-> ok]
  BY <1>1 DEF Configuration, Patched, Sections, Names
<1>2. CASE p = [rules |-> r]
  BY <1>2 DEF Configuration, Patched, Sections, Names
<1>3. CASE p = [hooks |-> <<[of |-> r, key |-> r]>>]
  <2> DEFINE h == <<[of |-> r, key |-> r]>>
  <2>1. h \in Seq(Hook) BY DEF Hook
  <2>2. p = [hooks |-> h] BY <1>3
  <2> HIDE DEF h
  <2> QED BY <2>1, <2>2 DEF Configuration, Patched, Sections
<1> QED BY <1>1, <1>2, <1>3 DEF Patches

\* What an update saves: one section of the file is new, and what was absent is zero.
LEMMA Updating ==
  ASSUME NEW r \in Requests, NEW p \in Patches(r), NEW c \in Configuration
  PROVE  LET d == Decoded(Patched(p, c)) IN
         /\ d \in Configuration /\ OneSection(d, c)
         /\ d.whole = c.whole /\ d.creds = c.creds /\ d.others = c.others
<1> DEFINE b == Patched(p, c)
           d == Decoded(b)
<1>1. b \in Configuration /\ b.whole = c.whole /\ b.creds = c.creds /\ b.others = c.others /\ b.rest = c.rest
  BY Patching
<1>2. PICK s \in Sections : \A t \in Sections : t # s => b[t] = c[t] BY Patching
<1> HIDE DEF b
<1>3. /\ d \in Configuration /\ d.whole = b.whole /\ d.creds = b.creds /\ d.others = b.others
      /\ \A t \in Sections : d[t] = b[t]
      /\ d.rest = IF b.rest = "absent" THEN "zero" ELSE b.rest
  BY <1>1, Decoding
<1>4. Decoded(c).rest = IF c.rest = "absent" THEN "zero" ELSE c.rest BY Decoding
<1>5. OneSection(d, c)
  <2>1. \A t \in Sections : t # s => d[t] = c[t] BY <1>2, <1>3
  <2>2. d.rest = Decoded(c).rest BY <1>1, <1>3, <1>4
  <2> HIDE DEF d
  <2> QED BY <2>1, <2>2 DEF OneSection
<1> QED BY <1>1, <1>3, <1>5 DEF b

LEMMA BlankShapes == /\ Nothing \in Configuration /\ ~Nothing.whole
               /\ ByHand \in Configuration /\ OnDisk(ByHand)
               /\ Fresh \in Configuration /\ InMemory(Fresh)
               /\ Idle \in Job /\ Idle.at = "idle" /\ Idle.op = "none"
<1>1. <<>> \in Seq(Hook) /\ <<[of |-> "setup", key |-> "setup"]>> \in Seq(Hook) BY DEF Hook
<1>2. Nothing \in Configuration /\ ~Nothing.whole /\ Nothing.rest = "absent"
  BY <1>1 DEF Nothing, Configuration, Names
<1>3. ByHand \in Configuration /\ ByHand.whole /\ ByHand.creds = "clear" /\ ByHand.others = "clear" /\ ByHand.rest = "absent"
  <2> DEFINE h == <<[of |-> "setup", key |-> "setup"]>>
  <2>1. ByHand = [Nothing EXCEPT !.whole = TRUE, !.creds = "clear", !.others = "clear", !.hooks = h] BY DEF ByHand
  <2> HIDE DEF h
  <2>2. h \in Seq(Hook) BY <1>1 DEF h
  <2> QED BY <1>2, <2>1, <2>2 DEF Configuration
<1>4. Fresh \in Configuration /\ InMemory(Fresh) BY <1>3, Decoding DEF Fresh, InMemory
<1>5. Idle \in Job /\ Idle.at = "idle" /\ Idle.op = "none" BY <1>2 DEF Idle, Job, Places, Purposes, Targets
<1> QED BY <1>2, <1>3, <1>4, <1>5 DEF OnDisk

-----------------------------------------------------------------------------
\* Jobs

LEMMA ConfigInitial == ASSUME ConfigInit PROVE ConfigInv
<1>1. history \in [DOMAIN history -> Configuration] /\ DOMAIN history = {}
  <2>1. history = <<>> BY DEF ConfigInit
  <2>2. history \in [1..0 -> Configuration] BY <2>1, EmptySeq, LenProperties
  <2>3. 1..0 = {} OBVIOUS
  <2> QED BY <2>2, <2>3
<1>2. \A a \in Actors : job[a] = Idle BY DEF ConfigInit
<1>3. {file, live} \subseteq Configuration /\ OnDisk(file) /\ (live.whole => InMemory(live))
  <2>1. CASE file = Nothing /\ live = Nothing BY <2>1, BlankShapes DEF OnDisk
  <2>2. CASE file = ByHand /\ live = Open(ByHand)
    <3>1. ByHand.creds = "clear" /\ ByHand.others = "clear" BY DEF ByHand, Nothing
    <3> QED BY <2>2, <3>1, BlankShapes, Opening DEF InMemory
  <2> QED BY <2>1, <2>2 DEF ConfigInit
<1>4. ConfigTypeOK BY <1>1, <1>3, BlankShapes DEF ConfigInit, ConfigTypeOK
<1>5. SecretsInv BY <1>1, <1>2, <1>3, BlankShapes DEF ConfigInit, SecretsInv, Carried
<1> QED BY <1>1, <1>2, <1>4, <1>5, BlankShapes DEF ConfigInv, UpdatesInv, NumbersInv

LEMMA Actor == Nobody \notin Actors /\ \A r \in Requests : r \in Actors
BY DEF Actors, Nobody

\* What holds of the configuration in memory, of the files, of the snapshots and of what the jobs carry
LEMMA Facts ==
  ASSUME ConfigInv
  PROVE  /\ {file, live} \subseteq Configuration /\ temp \subseteq Configuration /\ version \in Nat /\ watches \subseteq Nat
         /\ crossed \in BOOLEAN /\ slipped \in BOOLEAN
         /\ history \in [DOMAIN history -> Configuration] /\ DOMAIN history \subseteq Nat
         /\ mutex \in Requests \cup {Nobody} /\ job \in [Actors -> Job]
         /\ (live.whole => InMemory(live)) /\ OnDisk(file) /\ \A c \in temp : OnDisk(c)
         /\ \A v \in DOMAIN history : InHistory(history[v])
         /\ watches # {} => live.whole
         /\ \A a \in Actors : Carried(job[a]) /\ (job[a].at = "snapshot" => live.whole)
         /\ slipped \/ \A v \in DOMAIN history : v <= version
         /\ \A a \in Actors : job[a].op = "update" =>
              /\ mutex = a
              /\ \/ crossed
                 \/ Faithful(job[a], file, temp) /\ \A b \in Actors \ {a} : job[b].at \notin {"fill", "rename"}
BY DEF ConfigInv, ConfigTypeOK, SecretsInv, UpdatesInv, NumbersInv

\* Snapshots that stay
Snapshots(h, v, s) ==
  /\ h \in [DOMAIN h -> Configuration] /\ DOMAIN h \subseteq Nat
  /\ \A n \in DOMAIN h : InHistory(h[n])
  /\ v \in Nat /\ s \in BOOLEAN /\ (s \/ \A n \in DOMAIN h : n <= v)

\* What a step of one actor leaves true of the others: it writes with the mutex, or it does not write, or it has
\* crossed whoever holds the mutex.
LEMMA Others ==
  ASSUME ConfigInv, NEW a \in Actors, NEW j \in Job,
         job' \in [Actors -> Job], job'[a] = j,
         \A b \in Actors \ {a} : job'[b].at = job[b].at /\ job'[b].op = job[b].op /\ job'[b].cfg = job[b].cfg,
         \/ /\ file' = file /\ temp' = temp /\ (crossed' = crossed \/ mutex = Nobody)
            /\ \A b \in Actors \ {a} : job'[b] = job[b]
            /\ j.at \in {"fill", "rename"} => job[a].at \in {"fill", "rename"}
         \/ /\ file' \in Configuration /\ OnDisk(file') /\ temp' \subseteq Configuration /\ \A c \in temp' : OnDisk(c)
            /\ crossed' = (crossed \/ mutex \notin {Nobody, a}),
         \/ mutex' = mutex
         \/ mutex' = Nobody /\ mutex = a
         \/ mutex' = a /\ mutex = Nobody /\ a \in Requests,
         crossed' \in BOOLEAN, live' \in Configuration, live'.whole => InMemory(live'), live.whole => live'.whole,
         Snapshots(history', version', slipped'),
         watches' \subseteq Nat, watches' # {} => live'.whole,
         Carried(j), j.at = "snapshot" => live'.whole,
         j.op = "update" =>
           /\ mutex' = a
           /\ \/ crossed'
              \/ Faithful(j, file', temp') /\ \A b \in Actors \ {a} : job[b].at \notin {"fill", "rename"}
  PROVE  ConfigInv'
<1>1. file' \in Configuration /\ OnDisk(file') /\ temp' \subseteq Configuration /\ \A c \in temp' : OnDisk(c) BY Facts
<1>2. mutex' \in Requests \cup {Nobody} BY Facts
<1>3. ConfigTypeOK' BY <1>1, <1>2 DEF ConfigTypeOK, Snapshots
<1>4. SecretsInv'
  <2>1. ASSUME NEW b \in Actors PROVE Carried(job'[b]) /\ (job'[b].at = "snapshot" => live'.whole)
    <3>1. CASE b = a BY <3>1
    <3>2. CASE b # a
      <4>1. Carried(job[b]) /\ (job[b].at = "snapshot" => live.whole) BY Facts
      <4>2. job'[b].at = job[b].at /\ job'[b].op = job[b].op /\ job'[b].cfg = job[b].cfg BY <3>2
      <4> QED BY <4>1, <4>2 DEF Carried, ToBeSaved
    <3> QED BY <3>1, <3>2
  <2>2. \A v \in DOMAIN history' : InHistory(history'[v]) BY DEF Snapshots
  <2> QED BY <1>1, <2>1, <2>2 DEF SecretsInv, Carried, OnDisk, InMemory, InHistory, ToBeSaved
<1>5. NumbersInv' BY DEF Snapshots, NumbersInv
<1>6. UpdatesInv'
  <2>1. ASSUME NEW b \in Actors, job'[b].op = "update"
        PROVE  mutex' = b /\ (\/ crossed'
                              \/ /\ Faithful(job'[b], file', temp')
                                 /\ \A c \in Actors \ {b} : job'[c].at \notin {"fill", "rename"})
    <3>1. CASE b = a BY <2>1, <3>1
    <3>2. CASE b # a
      <4>1. mutex = b BY <2>1, <3>2, Facts
      <4>2. b # Nobody /\ mutex' = b BY <3>2, <4>1, Actor
      <4>3. ASSUME ~crossed'
            PROVE  /\ Faithful(job'[b], file', temp')
                   /\ \A c \in Actors \ {b} : job'[c].at \notin {"fill", "rename"}
        <5>1. /\ file' = file /\ temp' = temp /\ ~crossed /\ job'[b] = job[b]
              /\ \A c \in Actors \ {a} : job'[c] = job[c]
              /\ j.at \in {"fill", "rename"} => job[a].at \in {"fill", "rename"}
          BY <3>2, <4>1, <4>2, <4>3
        <5>2. Faithful(job[b], file, temp) /\ \A c \in Actors \ {b} : job[c].at \notin {"fill", "rename"}
          BY <2>1, <5>1, Facts
        <5>3. Faithful(job'[b], file', temp') BY <5>1, <5>2
        <5>4. \A c \in Actors \ {b} : job'[c].at \notin {"fill", "rename"} BY <3>2, <5>1, <5>2
        <5> QED BY <5>3, <5>4
      <4> QED BY <4>2, <4>3
    <3> QED BY <3>1, <3>2
  <2> QED BY <2>1 DEF UpdatesInv, Faithful, OneSection, Nothing, Seal, Decoded
<1> QED BY <1>3, <1>4, <1>5, <1>6 DEF ConfigInv

\* The same for a step that writes nothing and leaves the database alone, and ends or goes on
LEMMA ReadsFacts ==
  ASSUME ConfigInv, NEW a \in Actors, NEW j \in Job, job' = [job EXCEPT ![a] = j],
         UNCHANGED <<file, temp, history, version, slipped, crossed>>,
         j.at \notin {"fill", "rename"},
         mutex' = mutex \/ (mutex' = Nobody /\ mutex = a),
         live' \in Configuration, live'.whole => InMemory(live'), live.whole => live'.whole,
         watches' \subseteq Nat, watches' # {} => live'.whole,
         Carried(j), j.at = "snapshot" => live'.whole,
         j.op = "update" =>
           /\ mutex' = a
           /\ \/ crossed
              \/ Faithful(j, file, temp) /\ \A b \in Actors \ {a} : job[b].at \notin {"fill", "rename"}
  PROVE  ConfigInv'
<1>1. /\ file' = file /\ temp' = temp /\ history' = history /\ version' = version /\ slipped' = slipped
      /\ crossed' = crossed
  OBVIOUS
<1>2. job' \in [Actors -> Job] /\ job'[a] = j /\ \A b \in Actors \ {a} : job'[b] = job[b] BY Facts
<1>3. Snapshots(history', version', slipped') BY <1>1, Facts DEF Snapshots
<1>4. crossed' \in BOOLEAN BY <1>1, Facts
<1>5. \A b \in Actors \ {a} : job'[b].at = job[b].at /\ job'[b].op = job[b].op /\ job'[b].cfg = job[b].cfg BY <1>2
<1> QED BY <1>1, <1>2, <1>3, <1>4, <1>5, Others

LEMMA IdleCarried == Carried(Idle)
BY BlankShapes DEF Carried

\* An answer, after which nobody writes more than before
LEMMA Answers ==
  ASSUME ConfigInv, NEW a \in Actors, Answer(a), UNCHANGED <<file, temp, history, version, slipped, crossed>>,
         live' \in Configuration, live'.whole => InMemory(live'), live.whole => live'.whole,
         watches' \subseteq Nat, watches' # {} => live'.whole
  PROVE  ConfigInv'
<1>1. job' = [job EXCEPT ![a] = Idle] /\ (mutex' = mutex \/ (mutex' = Nobody /\ mutex = a)) BY DEF Answer
<1> QED BY <1>1, BlankShapes, IdleCarried, ReadsFacts

LEMMA Goes ==
  ASSUME ConfigInv, NEW a \in Actors, NEW s \in Places, NEW c \in Configuration, Go(a, s, c)
  PROVE  \E j \in Job : /\ job' = [job EXCEPT ![a] = j]
                        /\ j.at = s /\ j.cfg = c /\ j.op = job[a].op /\ j.to = job[a].to
<1>1. job \in [Actors -> Job] BY Facts
<1> DEFINE j == [job[a] EXCEPT !.at = s, !.cfg = c]
<1>2. job[a] \in Job BY <1>1
<1>3. j \in Job /\ j.at = s /\ j.cfg = c /\ j.op = job[a].op /\ j.to = job[a].to BY <1>2 DEF Job
<1>4. job' = [job EXCEPT ![a] = j] BY <1>1 DEF Go
<1> HIDE DEF j
<1> QED BY <1>3, <1>4

LEMMA Begins ==
  ASSUME ConfigInv, NEW a \in Actors, NEW o \in Purposes, NEW s \in Places, NEW c \in Configuration, NEW b \in Nat,
         Begin(a, o, s, c, b)
  PROVE  \E j \in Job : job' = [job EXCEPT ![a] = j] /\ j.at = s /\ j.cfg = c /\ j.op = o
<1> DEFINE j == [at |-> s, op |-> o, cfg |-> c, back |-> b, to |-> "none"]
<1>1. j \in Job /\ j.at = s /\ j.cfg = c /\ j.op = o BY DEF Job, Targets
<1>2. job' = [job EXCEPT ![a] = j] BY DEF Begin
<1> HIDE DEF j
<1> QED BY <1>1, <1>2

\* A step that touches neither jobs nor files.
LEMMA Quiet ==
  ASSUME ConfigInv, UNCHANGED <<file, temp, history, version, mutex, job, crossed, slipped>>,
         live' \in Configuration, live'.whole => InMemory(live'), live.whole => live'.whole,
         watches' \subseteq watches
  PROVE  ConfigInv'
<1>1. /\ file' = file /\ temp' = temp /\ history' = history /\ version' = version /\ mutex' = mutex /\ job' = job
      /\ crossed' = crossed /\ slipped' = slipped
  OBVIOUS
<1>2. ConfigTypeOK' BY <1>1 DEF ConfigInv, ConfigTypeOK
<1>3. SecretsInv' BY <1>1 DEF ConfigInv, SecretsInv, Carried, InMemory, OnDisk, InHistory, ToBeSaved
<1>4. UpdatesInv' BY <1>1 DEF ConfigInv, UpdatesInv, Faithful, OneSection, Nothing, Seal, Decoded
<1>5. NumbersInv' BY <1>1 DEF ConfigInv, NumbersInv
<1> QED BY <1>2, <1>3, <1>4, <1>5 DEF ConfigInv

LEMMA ConfigKept == ASSUME ConfigInv, UNCHANGED configVars PROVE ConfigInv'
<1>1. /\ UNCHANGED <<file, temp, history, version, mutex, job, crossed, slipped>>
      /\ live' = live /\ watches' = watches
  BY DEF configVars
<1> QED BY <1>1, Facts, Quiet

LEMMA SetupStep == ASSUME ConfigInv, NEW r \in Requests, CompleteWizard(r) PROVE ConfigInv'
<1>1. PICK j \in Job : job' = [job EXCEPT ![r] = j] /\ j.at = "save" /\ j.cfg = Fresh /\ j.op = "setup"
  BY Actor, BlankShapes, Begins DEF CompleteWizard, Places, Purposes
<1>2. /\ UNCHANGED <<file, temp, history, version, slipped, crossed>>
      /\ live' = live /\ mutex' = mutex /\ watches' = watches
  BY DEF CompleteWizard, content
<1>3. Carried(j) BY <1>1, BlankShapes DEF Carried, ToBeSaved
<1> QED BY <1>1, <1>2, <1>3, Actor, Facts, ReadsFacts

LEMMA UpdateBegins == ASSUME ConfigInv, NEW r \in Requests, UpdateConfig(r) PROVE ConfigInv'
<1>0. PICK v \in Nat : Begin(r, "update", "snapshot", file, v) BY Facts DEF UpdateConfig
<1>1. PICK j \in Job : job' = [job EXCEPT ![r] = j] /\ j.at = "snapshot" /\ j.cfg = file /\ j.op = "update"
  BY <1>0, Actor, Facts, Begins DEF Places, Purposes
<1>2. /\ file' = file /\ temp' = temp /\ history' = history /\ version' = version /\ slipped' = slipped
      /\ live' = live /\ mutex' = r /\ mutex = Nobody
      /\ watches' = watches /\ crossed' = (\E a \in Actors : Writes(a)) /\ live.whole
  BY DEF UpdateConfig, Initialized
<1>3. Snapshots(history', version', slipped') BY <1>2, Facts DEF Snapshots
<1>4. Carried(j) BY <1>1, Facts DEF Carried
<1>5. crossed' \in BOOLEAN /\ (crossed' \/ \A b \in Actors \ {r} : job[b].at \notin {"fill", "rename"})
  BY <1>2 DEF Writes
<1>6. Faithful(j, file', temp') BY <1>1, <1>2 DEF Faithful
<1>7. job' \in [Actors -> Job] /\ job'[r] = j /\ \A b \in Actors \ {r} : job'[b] = job[b] BY <1>1, Actor, Facts
<1>8. \A b \in Actors \ {r} : job'[b].at = job[b].at /\ job'[b].op = job[b].op /\ job'[b].cfg = job[b].cfg BY <1>7
<1>9. live' \in Configuration /\ (live'.whole => InMemory(live')) /\ watches' \subseteq Nat BY <1>2, Facts
<1> QED BY <1>1, <1>2, <1>3, <1>4, <1>5, <1>6, <1>7, <1>8, <1>9, Actor, Others

-----------------------------------------------------------------------------
\* Snapshots

\* What is put has the highest number of all, unless something has slipped, and what is pruned has as many above it
\* as are kept.
LEMMA SnapshotTaken ==
  ASSUME ConfigInv, NEW r \in Requests, SaveConfigSnapshot(r)
  PROVE  /\ Snapshots(history', version', slipped')
         /\ slipped' \/ \A v \in DOMAIN history :
              \/ v \in DOMAIN history' /\ history'[v] = history[v]
              \/ Cardinality({w \in DOMAIN history \cup DOMAIN history' : w > v}) >= Keep
<1>0. /\ version \in Nat /\ history \in [DOMAIN history -> Configuration] /\ DOMAIN history \subseteq Nat
      /\ slipped \in BOOLEAN /\ (slipped \/ \A v \in DOMAIN history : v <= version)
      /\ \A v \in DOMAIN history : InHistory(history[v])
      /\ live \in Configuration /\ InMemory(live)
  <2>1. job[r].at = "snapshot" /\ r \in Actors BY Actor DEF SaveConfigSnapshot
  <2> QED BY <2>1, Facts
<1> DEFINE num(known) == NextVersion(IF known THEN version ELSE 0)
           with(known) == Recorded(history, num(known), Masked(live))
<1>a. PICK known, counted, put \in BOOLEAN : \E left \in SUBSET Old(with(known)) :
        /\ version' = (IF counted THEN num(known) ELSE version)
        /\ history' = (IF put THEN Newest(with(known), left) ELSE history)
        /\ slipped' = (slipped \/ ~known \/ ~counted)
  BY DEF SaveConfigSnapshot
<1>1. PICK left \in SUBSET Old(with(known)) :
        /\ version' = (IF counted THEN num(known) ELSE version)
        /\ history' = (IF put THEN Newest(with(known), left) ELSE history)
        /\ slipped' = (slipped \/ ~known \/ ~counted)
  BY <1>a
<1> DEFINE n == num(known)
           h == with(known)
           kept == (DOMAIN h \ Old(h)) \cup left
<1>2. n \in Nat /\ (known => n = version + 1) BY <1>0 DEF NextVersion
<1>3. /\ h = [v \in DOMAIN history \cup {n} |-> IF v = n THEN Masked(live) ELSE history[v]]
      /\ DOMAIN h = DOMAIN history \cup {n}
  BY DEF Recorded
<1>4. /\ history' = (IF put THEN [v \in kept |-> h[v]] ELSE history)
      /\ Old(h) \subseteq DOMAIN h /\ left \subseteq Old(h)
  BY <1>1 DEF Newest, Old
<1>5. kept \subseteq DOMAIN h BY <1>4
<1>6. Masked(live) \in Configuration /\ InHistory(Masked(live)) BY <1>0, Masking DEF InMemory, InHistory
<1>7. DOMAIN h \subseteq Nat /\ \A v \in DOMAIN h : h[v] \in Configuration /\ InHistory(h[v])
  <2> HIDE DEF n, h
  <2> QED BY <1>0, <1>2, <1>3, <1>6
<1> HIDE DEF n, h, kept
<1>8. Snapshots(history', version', slipped')
  <2>1. history' \in [DOMAIN history' -> Configuration] /\ DOMAIN history' \subseteq Nat
        /\ \A v \in DOMAIN history' : InHistory(history'[v])
    BY <1>0, <1>4, <1>5, <1>7
  <2>2. version' \in Nat /\ slipped' \in BOOLEAN BY <1>0, <1>1, <1>2 DEF n
  <2>3. ASSUME ~slipped', NEW v \in DOMAIN history' PROVE v <= version'
    <3>1. ~slipped /\ known /\ counted BY <1>1, <2>3
    <3>2. version' = version + 1 /\ n = version + 1 BY <1>1, <1>2, <3>1 DEF n
    <3>3. v \in DOMAIN history \cup {n} BY <1>3, <1>4, <1>5
    <3>4. DOMAIN history \subseteq Nat /\ \A w \in DOMAIN history : w <= version BY <1>0, <3>1
    <3> QED BY <1>0, <3>2, <3>3, <3>4
  <2> QED BY <2>1, <2>2, <2>3 DEF Snapshots
<1>9. ASSUME ~slipped', NEW v \in DOMAIN history
      PROVE  \/ v \in DOMAIN history' /\ history'[v] = history[v]
             \/ Cardinality({w \in DOMAIN history \cup DOMAIN history' : w > v}) >= Keep
  <2>1. n = version + 1 /\ \A w \in DOMAIN history : w <= version BY <1>0, <1>1, <1>2, <1>9
  <2>2. v # n /\ v \in DOMAIN h /\ h[v] = history[v] BY <1>0, <1>3, <2>1
  <2>3. CASE ~put BY <1>4, <2>3
  <2>4. CASE put /\ v \in kept BY <1>4, <2>2, <2>4
  <2>5. CASE put /\ v \notin kept
    <3>1. v \in Old(h) BY <2>2, <2>5 DEF kept
    <3>2. Cardinality({w \in DOMAIN h : w > v}) >= Keep BY <3>1 DEF Old
    <3>3. {w \in DOMAIN h : w > n} = {} BY <1>0, <1>3, <2>1
    <3>4. ~(Cardinality({w \in DOMAIN h : w > n}) >= Keep) BY <3>3, FS_EmptySet
    <3>5. n \in kept BY <1>3, <3>4 DEF kept, Old
    <3>6. DOMAIN history \cup DOMAIN history' = DOMAIN h BY <1>3, <1>4, <1>5, <2>5, <3>5
    <3> QED BY <3>2, <3>6
  <2> QED BY <2>3, <2>4, <2>5
<1> QED BY <1>8, <1>9

LEMMA SnapshotStep == ASSUME ConfigInv, NEW r \in Requests, SaveConfigSnapshot(r) PROVE ConfigInv'
<1>1. /\ r \in Actors /\ job[r].at = "snapshot" /\ job[r].cfg \in Configuration /\ live.whole
      /\ job[r].op = "update" /\ OnDisk(job[r].cfg)
  BY Actor, Facts DEF SaveConfigSnapshot, Job, Carried
<1>2. PICK j \in Job : job' = [job EXCEPT ![r] = j] /\ j.at = "merge" /\ j.cfg = job[r].cfg /\ j.op = "update"
  BY <1>1, Goes DEF SaveConfigSnapshot, Places
<1>3. live' \in Configuration /\ live'.whole /\ InMemory(live')
  BY <1>1, Facts, Masking DEF SaveConfigSnapshot, InMemory
<1>4. Snapshots(history', version', slipped') BY SnapshotTaken
<1>5. file' = file /\ temp' = temp /\ mutex' = mutex /\ watches' = watches /\ crossed' = crossed
  BY DEF SaveConfigSnapshot
<1>6. /\ mutex = r
      /\ \/ crossed
         \/ Faithful(job[r], file, temp) /\ \A b \in Actors \ {r} : job[b].at \notin {"fill", "rename"}
  BY <1>1, Facts
<1>7. Faithful(job[r], file, temp) => Faithful(j, file', temp') BY <1>1, <1>2, <1>5 DEF Faithful
<1>8. Carried(j) BY <1>1, <1>2 DEF Carried
<1>9. job' \in [Actors -> Job] /\ job'[r] = j /\ \A b \in Actors \ {r} : job'[b] = job[b] BY <1>1, <1>2, Facts
<1>10. \A b \in Actors \ {r} : job'[b].at = job[b].at /\ job'[b].op = job[b].op /\ job'[b].cfg = job[b].cfg BY <1>9
<1>11. crossed' \in BOOLEAN /\ watches' \subseteq Nat BY <1>5, Facts
<1> QED BY <1>1, <1>2, <1>3, <1>4, <1>5, <1>6, <1>7, <1>8, <1>9, <1>10, <1>11, Others

-----------------------------------------------------------------------------
\* Steps of updates, rollbacks and reloads

LEMMA MergeStep == ASSUME ConfigInv, NEW r \in Requests, Merge(r) PROVE ConfigInv'
<1>1. /\ job[r].at = "merge" /\ job[r].cfg \in Configuration /\ OnDisk(job[r].cfg) /\ job[r].op = "update"
      /\ r \in Actors
  BY Actor, Facts DEF Merge, Job, Carried
<1>2. /\ UNCHANGED <<file, temp, history, version, slipped, crossed>> /\ live' = live /\ watches' = watches
  BY DEF Merge, content
<1>3. ASSUME NEW p \in Patches(r), Go(r, "save", Decoded(Patched(p, job[r].cfg))), mutex' = mutex PROVE ConfigInv'
  <2> DEFINE d == Decoded(Patched(p, job[r].cfg))
  <2>1. /\ d \in Configuration /\ OneSection(d, job[r].cfg)
        /\ d.whole = job[r].cfg.whole /\ d.creds = job[r].cfg.creds /\ d.others = job[r].cfg.others
    BY <1>1, Updating
  <2>2. Go(r, "save", d) BY <1>3
  <2> HIDE DEF d
  <2>3. PICK j \in Job : job' = [job EXCEPT ![r] = j] /\ j.at = "save" /\ j.cfg = d /\ j.op = "update"
    BY <1>1, <2>1, <2>2, Goes DEF Places
  <2>4. Carried(j) BY <1>1, <2>1, <2>3 DEF Carried, ToBeSaved, OnDisk
  <2>5. /\ mutex = r
        /\ \/ crossed
           \/ Faithful(job[r], file, temp) /\ \A b \in Actors \ {r} : job[b].at \notin {"fill", "rename"}
    BY <1>1, Facts
  <2>6. Faithful(job[r], file, temp) => Faithful(j, file, temp)
    <3>1. ASSUME Faithful(job[r], file, temp) PROVE OneSection(j.cfg, file) BY <1>1, <2>1, <2>3, <3>1 DEF Faithful
    <3> QED BY <2>3, <3>1 DEF Faithful
  <2>7. mutex' = r BY <1>3, <2>5
  <2> QED BY <1>1, <1>2, <1>3, <2>3, <2>4, <2>5, <2>6, <2>7, Facts, ReadsFacts
<1>4. CASE Answer(r) BY <1>1, <1>2, <1>4, Facts, Answers
<1> QED BY <1>3, <1>4 DEF Merge

\* One section differs whatever is done to a configuration that is not being saved.
LEMMA LoadStep == ASSUME ConfigInv, NEW a \in Actors, Load(a) PROVE ConfigInv'
<1>1. /\ UNCHANGED <<file, temp, history, version, slipped, crossed>> /\ live' = live /\ watches' = watches
      /\ job[a].at = "load"
  BY DEF Load, content
<1>2. CASE Valid(file)
  <2>1. Open(file) \in Configuration /\ InMemory(Open(file))
    BY <1>2, Facts, Opening DEF Valid, OnDisk, InMemory
  <2>2. PICK j \in Job : job' = [job EXCEPT ![a] = j] /\ j.at = "store" /\ j.cfg = Open(file) /\ j.op = job[a].op
    BY <1>2, <2>1, Goes DEF Load, Places
  <2>3. mutex' = mutex BY <1>2 DEF Load
  <2>4. Carried(j) /\ Faithful(j, file, temp) BY <2>1, <2>2 DEF Carried, Faithful
  <2> QED BY <1>1, <2>2, <2>3, <2>4, Facts, ReadsFacts
<1>3. CASE ~Valid(file)
  <2>1. Answer(a) BY <1>3 DEF Load
  <2> QED BY <1>1, <2>1, Facts, Answers
<1> QED BY <1>2, <1>3

LEMMA StoreStep == ASSUME ConfigInv, NEW a \in Actors, Store(a) PROVE ConfigInv'
<1>1. UNCHANGED <<file, temp, history, version, slipped, crossed>> BY DEF Store
<1>2. live' \in Configuration /\ live'.whole /\ InMemory(live') BY Facts DEF Store, Job, Carried, InMemory
<1>3. watches' \subseteq Nat BY Facts DEF Store, Job
<1>4. CASE job[a].op = "undo"
  <2> DEFINE j == [job[a] EXCEPT !.op = "reload", !.at = "load", !.cfg = Nothing]
  <2>1. job[a] \in Job /\ job \in [Actors -> Job] BY Facts
  <2>2. j \in Job /\ j.at = "load" /\ j.op = "reload" BY <2>1, BlankShapes DEF Job, Places, Purposes
  <2>3. job' = [job EXCEPT ![a] = j] /\ mutex' = mutex BY <1>4, <2>1 DEF Store
  <2> HIDE DEF j
  <2>4. Carried(j) BY <2>2 DEF Carried
  <2> QED BY <1>1, <1>2, <1>3, <2>2, <2>3, <2>4, ReadsFacts
<1>5. CASE job[a].op # "undo"
  <2>1. Answer(a) BY <1>5 DEF Store
  <2> QED BY <1>1, <1>2, <1>3, <2>1, Answers
<1> QED BY <1>4, <1>5

-----------------------------------------------------------------------------
\* Saving

LEMMA SaveStep == ASSUME ConfigInv, NEW a \in Actors, OpenTemp(a) PROVE ConfigInv'
<1>1. /\ UNCHANGED <<file, history, version, slipped>> /\ live' = live /\ watches' = watches /\ job[a].at = "save"
  BY DEF OpenTemp
<1>2. CASE Answer(a) /\ UNCHANGED <<temp, crossed>> BY <1>1, <1>2, Facts, Answers
<1>3. CASE /\ temp' = {Nothing} /\ Crossing(a) /\ UNCHANGED mutex
           /\ job' = [job EXCEPT ![a].at = "fill", ![a].to = "temp"]
  <2> DEFINE j == [job[a] EXCEPT !.at = "fill", !.to = "temp"]
  <2>1. job[a] \in Job /\ job \in [Actors -> Job] /\ Carried(job[a]) BY Facts
  <2>2. j \in Job /\ j.at = "fill" /\ j.to = "temp" /\ j.op = job[a].op /\ j.cfg = job[a].cfg
    BY <2>1 DEF Job, Places, Targets
  <2>3. job' = [job EXCEPT ![a] = j] BY <1>3, <2>1
  <2> HIDE DEF j
  <2>4. job' \in [Actors -> Job] /\ job'[a] = j /\ \A b \in Actors \ {a} : job'[b] = job[b] BY <2>1, <2>2, <2>3
  <2>5. Carried(j) BY <1>1, <2>1, <2>2 DEF Carried, ToBeSaved
  <2>6. ASSUME j.op = "update"
        PROVE  /\ mutex' = a
               /\ \/ crossed'
                  \/ Faithful(j, file', temp') /\ \A b \in Actors \ {a} : job[b].at \notin {"fill", "rename"}
    <3>1. /\ mutex = a
          /\ \/ crossed
             \/ Faithful(job[a], file, temp) /\ \A b \in Actors \ {a} : job[b].at \notin {"fill", "rename"}
      BY <2>2, <2>6, Facts
    <3>2. Faithful(job[a], file, temp) => Faithful(j, file', temp') BY <1>1, <1>3, <2>2 DEF Faithful
    <3>3. crossed => crossed' BY <1>3 DEF Crossing
    <3> QED BY <1>3, <3>1, <3>2, <3>3
  <2>7. /\ file' \in Configuration /\ OnDisk(file') /\ temp' \subseteq Configuration /\ \A c \in temp' : OnDisk(c)
        /\ crossed' = (crossed \/ mutex \notin {Nobody, a}) /\ crossed' \in BOOLEAN
    BY <1>1, <1>3, Facts, BlankShapes DEF OnDisk, Crossing
  <2>8. Snapshots(history', version', slipped') BY <1>1, Facts DEF Snapshots
  <2>9. \A b \in Actors \ {a} : job'[b].at = job[b].at /\ job'[b].op = job[b].op /\ job'[b].cfg = job[b].cfg BY <2>4
  <2>10. live' \in Configuration /\ (live'.whole => InMemory(live')) /\ watches' \subseteq Nat
         /\ (live.whole => live'.whole) /\ (watches' # {} => live'.whole) /\ mutex' = mutex
    BY <1>1, <1>3, Facts
  <2>11. j.at # "snapshot" BY <2>2
  <2> QED BY <2>2, <2>4, <2>5, <2>6, <2>7, <2>8, <2>9, <2>10, <2>11, Others
<1> QED BY <1>2, <1>3 DEF OpenTemp

\* What is written is sealed.
LEMMA Written ==
  ASSUME ConfigInv, NEW a \in Actors, job[a].at \in {"fill", "rename"}
  PROVE  Content(a) \in Configuration /\ OnDisk(Content(a))
<1>1. job[a].cfg \in Configuration /\ Carried(job[a]) BY Facts DEF Job
<1>2. CASE job[a].op = "clean" BY <1>1, <1>2 DEF Content, Carried
<1>3. CASE job[a].op # "clean"
  <2>1. ToBeSaved(job[a]) BY <1>1, <1>3 DEF Carried
  <2>2. Seal(job[a].cfg) \in Configuration /\ OnDisk(Seal(job[a].cfg))
    BY <1>1, <2>1, Sealing DEF ToBeSaved, OnDisk, InMemory
  <2> QED BY <1>3, <2>2 DEF Content
<1> QED BY <1>2, <1>3

LEMMA FillTempStep == ASSUME ConfigInv, NEW a \in Actors, FillTemp(a) PROVE ConfigInv'
<1>1. /\ UNCHANGED <<history, version, slipped>> /\ live' = live /\ watches' = watches /\ job[a].at = "fill"
      /\ crossed' = (crossed \/ mutex \notin {Nobody, a})
  BY DEF FillTemp, Crossing
<1>2. PICK c \in {Content(a)} \cup (IF Mixed(a) THEN {Nothing} ELSE {}) :
        /\ temp' = IF job[a].to = "temp" THEN {c} ELSE temp
        /\ file' = IF job[a].to = "file" THEN c ELSE file
  BY DEF FillTemp
<1>3. c \in Configuration /\ OnDisk(c) BY <1>1, <1>2, Written, BlankShapes DEF OnDisk
<1>4. /\ file' \in Configuration /\ OnDisk(file') /\ temp' \subseteq Configuration /\ \A d \in temp' : OnDisk(d)
  BY <1>2, <1>3, Facts
<1>5. Snapshots(history', version', slipped') BY <1>1, Facts DEF Snapshots
<1>6. /\ live' \in Configuration /\ (live'.whole => InMemory(live')) /\ watches' \subseteq Nat
      /\ (live.whole => live'.whole) /\ (watches' # {} => live'.whole) /\ crossed' \in BOOLEAN
  BY <1>1, Facts
<1>7. job[a] \in Job /\ job \in [Actors -> Job] /\ Carried(job[a]) BY Facts
<1>8. CASE job[a].op = "clean"
  <2>1. job' = [job EXCEPT ![a] = Idle] /\ (mutex' = mutex \/ (mutex' = Nobody /\ mutex = a))
    BY <1>8 DEF FillTemp, Answer
  <2>2. job' \in [Actors -> Job] /\ job'[a] = Idle /\ \A b \in Actors \ {a} : job'[b] = job[b]
    BY <1>7, <2>1, BlankShapes
  <2>3. \A b \in Actors \ {a} : job'[b].at = job[b].at /\ job'[b].op = job[b].op /\ job'[b].cfg = job[b].cfg BY <2>2
  <2> QED BY <1>1, <1>4, <1>5, <1>6, <2>1, <2>2, <2>3, BlankShapes, IdleCarried, Others
<1>9. CASE job[a].op # "clean"
  <2> DEFINE j == [job[a] EXCEPT !.at = "rename", !.to = "none"]
  <2>1. j \in Job /\ j.at = "rename" /\ j.op = job[a].op /\ j.cfg = job[a].cfg BY <1>7 DEF Job, Places, Targets
  <2>2. job' = [job EXCEPT ![a] = j] /\ mutex' = mutex BY <1>7, <1>9 DEF FillTemp
  <2> HIDE DEF j
  <2>3. job' \in [Actors -> Job] /\ job'[a] = j /\ \A b \in Actors \ {a} : job'[b] = job[b] BY <1>7, <2>1, <2>2
  <2>4. Carried(j) BY <1>1, <1>7, <1>9, <2>1 DEF Carried, ToBeSaved
  <2>5. ASSUME j.op = "update"
        PROVE  /\ mutex' = a
               /\ \/ crossed'
                  \/ Faithful(j, file', temp') /\ \A b \in Actors \ {a} : job[b].at \notin {"fill", "rename"}
    <3>1. /\ mutex = a
          /\ \/ crossed
             \/ Faithful(job[a], file, temp) /\ \A b \in Actors \ {a} : job[b].at \notin {"fill", "rename"}
      BY <2>1, <2>5, Facts
    <3>2. ASSUME Faithful(job[a], file, temp), \A b \in Actors \ {a} : job[b].at \notin {"fill", "rename"}
          PROVE  Faithful(j, file', temp')
      <4>1. job[a].to = "temp" /\ temp = {Nothing} /\ OneSection(job[a].cfg, file) BY <1>1, <3>2 DEF Faithful
      <4>2. ~Mixed(a) BY <3>2, <4>1 DEF Mixed
      <4>3. c = Seal(job[a].cfg) BY <1>2, <1>9, <4>2 DEF Content
      <4>4. temp' = {Seal(j.cfg)} /\ file' = file BY <1>2, <2>1, <4>1, <4>3
      <4> QED BY <2>1, <4>1, <4>4 DEF Faithful
    <3> QED BY <1>1, <2>2, <3>1, <3>2
  <2>6. \A b \in Actors \ {a} : job'[b].at = job[b].at /\ job'[b].op = job[b].op /\ job'[b].cfg = job[b].cfg BY <2>3
  <2>7. j.at # "snapshot" BY <2>1
  <2> QED BY <1>1, <1>4, <1>5, <1>6, <2>1, <2>2, <2>3, <2>4, <2>5, <2>6, <2>7, Others
<1> QED BY <1>8, <1>9

\* Those who have the renamed or removed file open go on writing elsewhere.
LEMMA Leaves ==
  ASSUME ConfigInv, NEW a \in Actors, NEW j \in Job, NEW renamed \in BOOLEAN, LeaveTemp(a, j, renamed)
  PROVE  /\ job' \in [Actors -> Job] /\ job'[a] = j
         /\ \A b \in Actors \ {a} : job'[b].at = job[b].at /\ job'[b].op = job[b].op /\ job'[b].cfg = job[b].cfg
<1>1. job \in [Actors -> Job] BY Facts
<1>2. job' = [b \in Actors |-> IF b = a THEN j ELSE [job[b] EXCEPT !.to = Elsewhere(@, renamed)]] BY DEF LeaveTemp
<1>3. ASSUME NEW b \in Actors
      PROVE  LET k == [job[b] EXCEPT !.to = Elsewhere(@, renamed)] IN
             k \in Job /\ k.at = job[b].at /\ k.op = job[b].op /\ k.cfg = job[b].cfg
  <2>1. job[b] \in Job BY <1>1
  <2>2. Elsewhere(job[b].to, renamed) \in Targets BY <2>1 DEF Job, Targets, Elsewhere
  <2> DEFINE e == Elsewhere(job[b].to, renamed)
  <2> HIDE DEF e
  <2>3. e \in Targets BY <2>2 DEF e
  <2>4. [job[b] EXCEPT !.to = e] \in Job /\ [job[b] EXCEPT !.to = e].at = job[b].at
        /\ [job[b] EXCEPT !.to = e].op = job[b].op /\ [job[b] EXCEPT !.to = e].cfg = job[b].cfg
    BY <2>1, <2>3 DEF Job
  <2> QED BY <2>4 DEF e
<1> QED BY <1>2, <1>3

LEMMA RemoveStep == ASSUME ConfigInv, NEW a \in Actors, RemoveTemp(a) PROVE ConfigInv'
<1>1. /\ UNCHANGED <<file, history, version, slipped>> /\ live' = live /\ watches' = watches /\ temp' = {}
      /\ crossed' = (crossed \/ mutex \notin {Nobody, a})
      /\ (mutex' = mutex \/ (mutex' = Nobody /\ mutex = a))
  BY DEF RemoveTemp, Crossing
<1>2. /\ job' \in [Actors -> Job] /\ job'[a] = Idle
      /\ \A b \in Actors \ {a} : job'[b].at = job[b].at /\ job'[b].op = job[b].op /\ job'[b].cfg = job[b].cfg
  BY BlankShapes, Leaves DEF RemoveTemp
<1>3. Snapshots(history', version', slipped') BY <1>1, Facts DEF Snapshots
<1>4. /\ live' \in Configuration /\ (live'.whole => InMemory(live')) /\ watches' \subseteq Nat
      /\ (live.whole => live'.whole) /\ (watches' # {} => live'.whole) /\ crossed' \in BOOLEAN
      /\ file' \in Configuration /\ OnDisk(file')
  BY <1>1, Facts
<1> QED BY <1>1, <1>2, <1>3, <1>4, BlankShapes, IdleCarried, Others

LEMMA RenameStep == ASSUME ConfigInv, NEW a \in Actors, RenameTemp(a) PROVE ConfigInv'
<1>1. /\ UNCHANGED <<history, version, slipped>> /\ live' = live /\ watches' = watches /\ job[a].at = "rename"
  BY DEF RenameTemp
<1>2. CASE Answer(a) /\ UNCHANGED <<file, temp, crossed>> BY <1>1, <1>2, Facts, Answers
<1>3. CASE /\ file' \in temp /\ temp' = {} /\ LeaveTemp(a, Saved(a), TRUE) /\ Crossing(a) /\ UNCHANGED mutex
  <2>1. job[a] \in Job /\ Carried(job[a]) BY Facts
  <2> DEFINE j == Saved(a)
  <2>2. j \in Job /\ j.at \in {"idle", "load", "store"} /\ j.op \in {"none", job[a].op} /\ Carried(j)
    <3>1. CASE job[a].op = "webhook"
      <4>1. j = Idle BY <3>1 DEF Saved
      <4> QED BY <4>1, BlankShapes, IdleCarried
    <3>2. CASE job[a].op = "update"
      <4>1. j = [job[a] EXCEPT !.at = "load", !.cfg = Nothing] BY <3>2 DEF Saved
      <4> HIDE DEF j
      <4>2. j \in Job /\ j.at = "load" /\ j.op = job[a].op BY <2>1, <4>1, BlankShapes DEF Job, Places
      <4> QED BY <4>2 DEF Carried
    <3>3. CASE job[a].op \notin {"webhook", "update"}
      <4>1. j = [job[a] EXCEPT !.at = "store"] BY <3>3 DEF Saved
      <4> HIDE DEF j
      <4>2. j \in Job /\ j.at = "store" /\ j.op = job[a].op /\ j.cfg = job[a].cfg BY <2>1, <4>1 DEF Job, Places
      <4>3. InMemory(job[a].cfg) BY <1>1, <2>1, <3>3 DEF Carried, ToBeSaved
      <4> QED BY <4>2, <4>3 DEF Carried
    <3> QED BY <3>1, <3>2, <3>3
  <2> HIDE DEF j
  <2>3. LeaveTemp(a, j, TRUE) BY <1>3 DEF j
  <2>4. /\ job' \in [Actors -> Job] /\ job'[a] = j
        /\ \A b \in Actors \ {a} : job'[b].at = job[b].at /\ job'[b].op = job[b].op /\ job'[b].cfg = job[b].cfg
    BY <2>2, <2>3, Leaves
  <2>5. /\ file' \in Configuration /\ OnDisk(file') /\ temp' = {} /\ mutex' = mutex
        /\ crossed' = (crossed \/ mutex \notin {Nobody, a}) /\ crossed' \in BOOLEAN
    BY <1>3, Facts DEF Crossing
  <2>6. Snapshots(history', version', slipped') BY <1>1, Facts DEF Snapshots
  <2>7. /\ live' \in Configuration /\ (live'.whole => InMemory(live')) /\ watches' \subseteq Nat
        /\ (live.whole => live'.whole) /\ (watches' # {} => live'.whole)
    BY <1>1, Facts
  <2>8. j.op = "update" =>
          /\ mutex' = a
          /\ \/ crossed'
             \/ Faithful(j, file', temp') /\ \A b \in Actors \ {a} : job[b].at \notin {"fill", "rename"}
    <3>1. j.op = "update" => job[a].op = "update" BY <2>2
    <3>2. Faithful(j, file', temp') BY <2>2 DEF Faithful
    <3> QED BY <2>5, <3>1, <3>2, Facts
  <2>9. j.at # "snapshot" BY <2>2
  <2> QED BY <2>2, <2>4, <2>5, <2>6, <2>7, <2>8, <2>9, Others
<1> QED BY <1>2, <1>3 DEF RenameTemp

-----------------------------------------------------------------------------
\* Rollbacks, webhooks, the spam section, reloads and restarts

LEMMA ReturnBegins ==
  ASSUME ConfigInv, NEW a \in Actors, NEW o \in Purposes, NEW v, Return(a, o, v), live.whole
  PROVE  \E j \in Job : job' = [job EXCEPT ![a] = j] /\ j.at = "save" /\ j.op = o /\ InMemory(j.cfg)
<1>1. history[v] \in Configuration /\ InHistory(history[v]) /\ live \in Configuration /\ live.creds = "clear"
  BY Facts DEF Return, InMemory
<1>2. Unmask(history[v]) \in Configuration /\ InMemory(Unmask(history[v]))
  BY <1>1, Unmasking DEF InHistory, InMemory
<1>3. Begin(a, o, "save", Unmask(history[v]), 0) BY DEF Return
<1> QED BY <1>2, <1>3, Begins DEF Places

LEMMA RollbackStep == ASSUME ConfigInv, NEW r \in Requests, NEW v, RollbackConfig(r, v) PROVE ConfigInv'
<1>1. PICK j \in Job : job' = [job EXCEPT ![r] = j] /\ j.at = "save" /\ j.op = "rollback" /\ InMemory(j.cfg)
  BY Actor, ReturnBegins DEF RollbackConfig, Initialized, Purposes
<1>2. /\ UNCHANGED <<file, temp, history, version, slipped, crossed>>
      /\ live' = live /\ mutex' = mutex /\ watches' = watches
  BY DEF RollbackConfig, content
<1>3. Carried(j) BY <1>1 DEF Carried, ToBeSaved
<1> QED BY <1>1, <1>2, <1>3, Actor, Facts, ReadsFacts

LEMMA LookBackStep == ASSUME ConfigInv, LookBack PROVE ConfigInv'
<1>1. /\ UNCHANGED <<file, temp, history, version, slipped, crossed>> /\ live' = live /\ mutex' = mutex
      /\ watches' \subseteq watches /\ watches # {} /\ "watch" \in Actors
  BY DEF LookBack, content, Actors
<1>2. live.whole /\ watches' \subseteq Nat BY <1>1, Facts
<1>3. ASSUME NEW v, Return("watch", "undo", v) PROVE ConfigInv'
  <2>1. PICK j \in Job : job' = [job EXCEPT !["watch"] = j] /\ j.at = "save" /\ j.op = "undo" /\ InMemory(j.cfg)
    BY <1>1, <1>2, <1>3, ReturnBegins DEF Purposes
  <2>2. Carried(j) BY <2>1 DEF Carried, ToBeSaved
  <2> QED BY <1>1, <1>2, <2>1, <2>2, Facts, ReadsFacts
<1>4. ASSUME job' = job PROVE ConfigInv' BY <1>1, <1>2, <1>4, Facts, Quiet
<1> QED BY <1>3, <1>4 DEF LookBack

LEMMA HooksStep ==
  ASSUME ConfigInv, NEW r \in Requests, NEW hooks \in Seq(Hook), ChangeHooks(r, hooks) PROVE ConfigInv'
<1> DEFINE c == [live EXCEPT !.hooks = hooks]
<1>1. live \in Configuration /\ InMemory(live) BY Facts DEF ChangeHooks, Initialized
<1>2. c \in Configuration /\ InMemory(c) BY <1>1 DEF Configuration, InMemory
<1>3. live' = c /\ Begin(r, "webhook", "save", c, 0) BY DEF ChangeHooks
<1> HIDE DEF c
<1>4. PICK j \in Job : job' = [job EXCEPT ![r] = j] /\ j.at = "save" /\ j.cfg = c /\ j.op = "webhook"
  BY <1>2, <1>3, Actor, Begins DEF Places, Purposes
<1>5. /\ UNCHANGED <<file, temp, history, version, slipped, crossed>> /\ mutex' = mutex /\ watches' = watches
  BY DEF ChangeHooks
<1>6. Carried(j) BY <1>2, <1>4 DEF Carried, ToBeSaved
<1>7. live'.whole BY <1>2, <1>3 DEF InMemory
<1> QED BY <1>2, <1>3, <1>4, <1>5, <1>6, <1>7, Actor, Facts, ReadsFacts

LEMMA WebhooksStep == ASSUME ConfigInv, NEW r \in Requests, CreateWebhook(r) \/ DeleteWebhook(r) PROVE ConfigInv'
<1>1. live.hooks \in Seq(Hook) BY Facts DEF Configuration
<1>2. CASE CreateWebhook(r)
  <2> DEFINE h == [of |-> r, key |-> r]
  <2>1. h \in Hook BY DEF Hook
  <2>2. ChangeHooks(r, Append(live.hooks, h)) BY <1>2 DEF CreateWebhook
  <2> HIDE DEF h
  <2>3. Append(live.hooks, h) \in Seq(Hook) BY <1>1, <2>1
  <2> QED BY <2>2, <2>3, HooksStep
<1>3. CASE DeleteWebhook(r)
  <2>1. PICK i \in DOMAIN live.hooks : ChangeHooks(r, RemoveAt(live.hooks, i)) BY <1>3 DEF DeleteWebhook
  <2>2. i \in 1..Len(live.hooks) /\ Len(live.hooks) \in Nat BY <1>1, <2>1
  <2>3. SubSeq(live.hooks, 1, i - 1) \in Seq(Hook) /\ SubSeq(live.hooks, i + 1, Len(live.hooks)) \in Seq(Hook)
    BY <1>1, <2>2
  <2>4. RemoveAt(live.hooks, i) \in Seq(Hook) BY <2>3, ConcatProperties DEF RemoveAt
  <2> QED BY <2>1, <2>4, HooksStep
<1> QED BY <1>2, <1>3

LEMMA MemoryStep ==
  ASSUME ConfigInv, NEW r \in Requests, UpdateLabelRules(r) \/ GetConfig(r) PROVE ConfigInv'
<1>1. live \in Configuration /\ InMemory(live) BY Facts DEF UpdateLabelRules, GetConfig, Initialized
<1>2. [live EXCEPT !.rules = r] \in Configuration /\ InMemory([live EXCEPT !.rules = r])
  BY <1>1 DEF Configuration, Names, InMemory
<1>3. MaskHooks(live) \in Configuration /\ InMemory(MaskHooks(live)) BY <1>1, Masking DEF InMemory
<1>4. live' = [live EXCEPT !.rules = r] \/ live' = MaskHooks(live) BY DEF UpdateLabelRules, GetConfig
<1>5. live' \in Configuration /\ InMemory(live') BY <1>2, <1>3, <1>4
<1>6. live'.whole BY <1>5 DEF InMemory
<1>7. UNCHANGED <<file, temp, history, version, mutex, job, crossed, slipped>> /\ watches' = watches
  BY DEF UpdateLabelRules, GetConfig
<1> QED BY <1>5, <1>6, <1>7, Quiet

LEMMA CleanStep == ASSUME ConfigInv, PersistSpamClean \/ Truncate PROVE ConfigInv'
<1>0. "clean" \in Actors BY DEF Actors
<1>1. /\ UNCHANGED <<temp, history, version, slipped>> /\ live' = live /\ watches' = watches /\ mutex' = mutex
  BY DEF PersistSpamClean, Truncate, content
<1>2. CASE PersistSpamClean
  <2> DEFINE c == IF file.spam = "none" THEN file ELSE [file EXCEPT !.sane = FALSE]
  <2>1. c \in Configuration /\ OnDisk(c) BY Facts DEF Configuration, OnDisk
  <2>2. Begin("clean", "clean", "truncate", c, 0) BY <1>2 DEF PersistSpamClean
  <2> HIDE DEF c
  <2>3. PICK j \in Job : job' = [job EXCEPT !["clean"] = j] /\ j.at = "truncate" /\ j.cfg = c /\ j.op = "clean"
    BY <1>0, <2>1, <2>2, Begins DEF Places, Purposes
  <2>4. file' = file /\ crossed' = crossed BY <1>2 DEF PersistSpamClean, content
  <2>5. Carried(j) BY <2>1, <2>3 DEF Carried
  <2> QED BY <1>0, <1>1, <2>3, <2>4, <2>5, Facts, ReadsFacts
<1>3. CASE Truncate
  <2> DEFINE j == [job["clean"] EXCEPT !.at = "fill", !.to = "file"]
  <2>1. job["clean"] \in Job /\ job \in [Actors -> Job] /\ Carried(job["clean"]) /\ job["clean"].at = "truncate"
    BY <1>0, <1>3, Facts DEF Truncate
  <2>2. j \in Job /\ j.at = "fill" /\ j.to = "file" /\ j.op = "clean" /\ j.cfg = job["clean"].cfg
    BY <2>1 DEF Job, Places, Targets, Carried
  <2>3. job' = [job EXCEPT !["clean"] = j] BY <1>0, <1>3, <2>1 DEF Truncate
  <2> HIDE DEF j
  <2>4. job' \in [Actors -> Job] /\ job'["clean"] = j /\ \A b \in Actors \ {"clean"} : job'[b] = job[b]
    BY <1>0, <2>1, <2>2, <2>3
  <2>5. Carried(j) BY <2>1, <2>2 DEF Carried
  <2>6. /\ file' = Nothing /\ crossed' = (crossed \/ mutex \notin {Nobody, "clean"})
    BY <1>3 DEF Truncate, Crossing
  <2>7. /\ file' \in Configuration /\ OnDisk(file') /\ temp' \subseteq Configuration /\ \A c \in temp' : OnDisk(c)
        /\ crossed' \in BOOLEAN
    BY <1>1, <2>6, Facts, BlankShapes DEF OnDisk
  <2>8. Snapshots(history', version', slipped') BY <1>1, Facts DEF Snapshots
  <2>9. \A b \in Actors \ {"clean"} : job'[b].at = job[b].at /\ job'[b].op = job[b].op /\ job'[b].cfg = job[b].cfg
    BY <2>4
  <2>10. /\ live' \in Configuration /\ (live'.whole => InMemory(live')) /\ watches' \subseteq Nat
         /\ (live.whole => live'.whole) /\ (watches' # {} => live'.whole)
    BY <1>1, Facts
  <2>11. j.at # "snapshot" /\ j.op # "update" BY <2>2
  <2> QED BY <1>0, <1>1, <2>2, <2>4, <2>5, <2>6, <2>7, <2>8, <2>9, <2>10, <2>11, Others
<1> QED BY <1>2, <1>3

LEMMA ReloadStep == ASSUME ConfigInv, Reload PROVE ConfigInv'
<1>0. "hup" \in Actors BY DEF Actors
<1>1. /\ UNCHANGED <<file, temp, history, version, slipped, crossed>> /\ live' = live /\ mutex' = mutex
      /\ watches' = watches
  BY DEF Reload, content
<1>2. PICK j \in Job : job' = [job EXCEPT !["hup"] = j] /\ j.at = "load" /\ j.op = "reload"
  BY <1>0, BlankShapes, Begins DEF Reload, Places, Purposes
<1>3. Carried(j) BY <1>2 DEF Carried
<1> QED BY <1>0, <1>1, <1>2, <1>3, Facts, ReadsFacts

\* After a restart nothing of what was begun goes on, and what is loaded is what the file holds.
LEMMA RestartStep == ASSUME ConfigInv, Restart PROVE ConfigInv'
<1>1. /\ file' = file /\ temp' = temp /\ history' = history /\ version' = version /\ slipped' = slipped
      /\ mutex' = Nobody /\ watches' = {} /\ crossed' = FALSE /\ job' = [a \in Actors |-> Idle]
  BY DEF Restart
<1>2. live' \in Configuration /\ (live'.whole => InMemory(live'))
  <2>1. CASE Valid(file)
    <3>1. Open(file) \in Configuration /\ InMemory(Open(file))
      BY <2>1, Facts, Opening DEF Valid, OnDisk, InMemory
    <3> QED BY <2>1, <3>1 DEF Restart
  <2>2. CASE ~Valid(file) BY <2>2, BlankShapes DEF Restart
  <2> QED BY <2>1, <2>2
<1>3. job' \in [Actors -> Job] /\ \A a \in Actors : job'[a] = Idle BY <1>1, BlankShapes
<1>4. ConfigTypeOK' BY <1>1, <1>2, <1>3 DEF ConfigInv, ConfigTypeOK
<1>5. \A a \in Actors : Carried(job'[a]) /\ job'[a].at # "snapshot" BY <1>3, IdleCarried, BlankShapes
<1>6. SecretsInv' BY <1>1, <1>2, <1>5, Facts DEF SecretsInv, Carried, InMemory, OnDisk, InHistory, ToBeSaved
<1>7. UpdatesInv' BY <1>3, BlankShapes DEF UpdatesInv
<1>8. NumbersInv' BY <1>1 DEF ConfigInv, NumbersInv
<1> QED BY <1>4, <1>6, <1>7, <1>8 DEF ConfigInv

LEMMA ConfigStep == ASSUME ConfigInv, ConfigNext PROVE ConfigInv'
BY SetupStep, UpdateBegins, SnapshotStep, MergeStep, WebhooksStep, MemoryStep, RollbackStep, LoadStep, StoreStep,
   SaveStep, FillTempStep, RemoveStep, RenameStep, LookBackStep, CleanStep, ReloadStep, RestartStep DEF ConfigNext

-----------------------------------------------------------------------------
\* Theorems

LEMMA AdminStep == ASSUME AdminInv, [AdminNext]_<<configVars, updateVars>> PROVE AdminInv'
<1>1. CASE AdminNext
  BY <1>1, ConfigStep, ConfigKept, UpdateStep, UpdateKept DEF AdminInv, AdminNext
<1>2. CASE UNCHANGED <<configVars, updateVars>>
  <2>1. UNCHANGED configVars /\ UNCHANGED updateVars BY <1>2
  <2> QED BY <2>1, ConfigKept, UpdateKept DEF AdminInv
<1> QED BY <1>1, <1>2

LEMMA AdminHolds == Spec => []AdminInv
<1>1. AdminInit => AdminInv BY ConfigInitial, UpdateInitial DEF AdminInit, AdminInv
<1> QED BY <1>1, AdminStep, PTL DEF Spec

\* Files, configurations, snapshots and jobs have their shape.
THEOREM ConfigTypeCorrect == Spec => []ConfigTypeOK
<1>1. AdminInv => ConfigTypeOK BY DEF AdminInv, ConfigInv
<1> QED BY <1>1, AdminHolds, PTL

\* The credentials that are sealed and masked are never in a file that the daemon has made in clear, in a snapshot at
\* all, or replaced in memory by the mask, and the others are never masked, however many updates, rollbacks, webhooks,
\* reloads and restarts are under way, whoever writes into whose temporary file and whatever call of the database
\* fails: a rollback takes them from memory, which it needs loaded, and a look back is forgotten with the process.
THEOREM SealedHolds == Spec => []Sealed
<1>1. AdminInv => Sealed
  BY DEF AdminInv, ConfigInv, SecretsInv, InMemory, OnDisk, InHistory, Sealed
<1> QED BY <1>1, AdminHolds, PTL

\* A step that is not the administrators' leaves the configuration alone.
LEMMA ConfigMoves ==
  ASSUME [AdminNext]_<<configVars, updateVars>> PROVE ConfigNext \/ UNCHANGED configVars
BY DEF AdminNext

\* Only the snapshot of an update changes the snapshots.
LEMMA SnapshotsKept ==
  ASSUME ConfigNext PROVE history' = history \/ \E r \in Requests : SaveConfigSnapshot(r)
BY DEF ConfigNext, CompleteWizard, UpdateConfig, Merge, CreateWebhook, DeleteWebhook, ChangeHooks, UpdateLabelRules,
       GetConfig, RollbackConfig, Load, Store, OpenTemp, FillTemp, RemoveTemp, RenameTemp, LookBack, PersistSpamClean,
       Truncate, Reload, Restart, content

\* As long as the number could be read and written, none is given twice, and what is pruned is older than as many as
\* are kept, also when some of what was to be pruned before could not be deleted or a snapshot could not be put.
THEOREM SnapshotsStandHolds == Spec => SnapshotsStand
<1>1. ASSUME AdminInv, [AdminNext]_<<configVars, updateVars>>
      PROVE  slipped' \/ \A v \in DOMAIN history :
               \/ v \in DOMAIN history' /\ history'[v] = history[v]
               \/ Cardinality({w \in DOMAIN history \cup DOMAIN history' : w > v}) >= Keep
  <2>0. ConfigInv /\ (history' = history \/ \E r \in Requests : SaveConfigSnapshot(r))
    BY <1>1, ConfigMoves, SnapshotsKept DEF AdminInv, configVars
  <2>1. CASE history' = history BY <2>1
  <2>2. CASE \E r \in Requests : SaveConfigSnapshot(r) BY <2>0, <2>2, SnapshotTaken
  <2> QED BY <2>0, <2>1, <2>2
<1>2. AdminInv /\ [AdminNext]_<<configVars, updateVars>> =>
        [slipped' \/ \A v \in DOMAIN history :
           \/ v \in DOMAIN history' /\ history'[v] = history[v]
           \/ Cardinality({w \in DOMAIN history \cup DOMAIN history' : w > v}) >= Keep]_configVars
  BY <1>1
<1> QED BY <1>2, AdminHolds, PTL DEF Spec, SnapshotsStand

\* The file is written by these.
LEMMA FileWritten ==
  ASSUME ConfigNext, file' # file
  PROVE  \E a \in Actors : Crossing(a) /\ (\/ RenameTemp(a) /\ file' \in temp
                                           \/ FillTemp(a) /\ job[a].to = "file"
                                           \/ a = "clean" /\ Truncate)
<1>1. ASSUME NEW a \in Actors, FillTemp(a) PROVE Crossing(a) /\ job[a].to = "file" BY <1>1 DEF FillTemp
<1>2. ASSUME NEW a \in Actors, RenameTemp(a) PROVE Crossing(a) /\ file' \in temp BY <1>2 DEF RenameTemp
<1>3. ASSUME Truncate PROVE "clean" \in Actors /\ Crossing("clean") BY <1>3 DEF Truncate, Actors
<1>4. ASSUME \/ \E r \in Requests : \/ CompleteWizard(r) \/ UpdateConfig(r) \/ SaveConfigSnapshot(r) \/ Merge(r)
                                    \/ CreateWebhook(r) \/ DeleteWebhook(r) \/ UpdateLabelRules(r) \/ GetConfig(r)
                                    \/ \E v \in DOMAIN history : RollbackConfig(r, v)
             \/ \E a \in Actors : Load(a) \/ Store(a) \/ OpenTemp(a) \/ RemoveTemp(a)
             \/ LookBack \/ PersistSpamClean \/ Reload \/ Restart
      PROVE  FALSE
  BY <1>4 DEF CompleteWizard, UpdateConfig, SaveConfigSnapshot, Merge, CreateWebhook, DeleteWebhook, ChangeHooks,
              UpdateLabelRules, GetConfig, RollbackConfig, Load, Store, OpenTemp, RemoveTemp, LookBack,
              PersistSpamClean, Reload, Restart, content
<1> QED BY <1>1, <1>2, <1>3, <1>4 DEF ConfigNext

\* An update changes the one section that was sent, and makes zero what was absent: the file is the one it has read
\* and the temporary file is its own, unless somebody has written either without the mutex meanwhile.
THEOREM UpdatesAddUpHolds == Spec => UpdatesAddUp
<1>1. ASSUME AdminInv, [AdminNext]_<<configVars, updateVars>>,
             NEW r \in Requests, job[r].op = "update", file' # file, ~crossed'
      PROVE  Cardinality({s \in Sections : file'[s] # file[s]}) <= 1 /\ file'.rest = Decoded(file).rest
  <2>0. ConfigInv /\ ConfigNext BY <1>1, ConfigMoves DEF AdminInv, configVars
  <2>1. r \in Actors /\ mutex = r /\ r # Nobody
        /\ (crossed \/ (Faithful(job[r], file, temp) /\ \A b \in Actors \ {r} : job[b].at \notin {"fill", "rename"}))
    BY <1>1, <2>0, Actor, Facts
  <2>2. PICK a \in Actors : Crossing(a) /\ (\/ RenameTemp(a) /\ file' \in temp
                                            \/ FillTemp(a) /\ job[a].to = "file"
                                            \/ a = "clean" /\ Truncate)
    BY <1>1, <2>0, FileWritten
  <2>3. a = r /\ Faithful(job[r], file, temp) BY <1>1, <2>1, <2>2 DEF Crossing
  <2>4. Carried(job[r]) /\ job[r] \in Job BY <2>0, <2>1, Facts
  <2>5. RenameTemp(r) /\ file' \in temp
    <3>1. ~(FillTemp(r) /\ job[r].to = "file") BY <2>3 DEF Faithful, FillTemp
    <3>2. ~(r = "clean" /\ Truncate) BY <1>1, <2>4 DEF Carried, Truncate
    <3> QED BY <2>2, <2>3, <3>1, <3>2
  <2>6. OneSection(job[r].cfg, file) /\ file' = Seal(job[r].cfg) BY <2>3, <2>5 DEF Faithful, RenameTemp
  <2>7. PICK s \in Sections : \A t \in Sections : t # s => job[r].cfg[t] = file[t] BY <2>6 DEF OneSection
  <2>8. job[r].cfg \in Configuration BY <2>4 DEF Job
  <2>9. (\A t \in Sections : file'[t] = job[r].cfg[t]) /\ file'.rest = job[r].cfg.rest BY <2>6, <2>8, Sealing
  <2>10. {t \in Sections : file'[t] # file[t]} \subseteq {s} BY <2>7, <2>9
  <2>11. IsFiniteSet({s}) /\ Cardinality({s}) = 1 BY FS_Singleton
  <2>12. Cardinality({t \in Sections : file'[t] # file[t]}) <= 1 BY <2>10, <2>11, FS_Subset
  <2> QED BY <2>6, <2>9, <2>12 DEF OneSection
<1>2. AdminInv /\ [AdminNext]_<<configVars, updateVars>> =>
        [\A r \in Requests : job[r].op = "update" /\ file' # file /\ Writes(r) /\ ~crossed' =>
           /\ Cardinality({s \in Sections : file'[s] # file[s]}) <= 1
           /\ file'.rest = Decoded(file).rest]_configVars
  BY <1>1
<1> QED BY <1>2, AdminHolds, PTL DEF Spec, UpdatesAddUp

\* Whatever fails or is killed, a whole binary is there to start or to put back: only one process at a time is between
\* the rename that takes the binary away and the one that puts one in its place.
THEOREM RecoverableHolds == Spec => []Recoverable
<1>1. AdminInv => Recoverable BY DEF AdminInv, UpdateInv, Recoverable
<1> QED BY <1>1, AdminHolds, PTL
=============================================================================
