------------------------------- MODULE Records ------------------------------
(***************************************************************************)
(* Handlers of accounts and of collaboration, running at once over one     *)
(* database, with the background deletion of idle sessions, errors of the  *)
(* database, and crashes, which lose what is kept in memory.               *)
(***************************************************************************)
EXTENDS Accounts, Collaboration, Integers, SequencesExt

CONSTANTS
  Users,     \* goroutines of requests and chores
  Ops,       \* Ops[d][a]: the handlers goroutine a may run, with driver d
  Sweeper,   \* the goroutine that deletes idle sessions
  Keys,      \* keys of records; 1 is the user's in table "users"
  Origins,   \* keys in every table but the empty ones, keys of idle sessions, and the bound
             \* of errors and crashes
  Budget     \* bound: handlers of each user

Tables == AccountTables \cup TeamTables \cup RecordTables

\* The tables of indexes, which hold nothing but keys, and those they are of
Index == [byuser |-> "sessions", prindex |-> "prs", linksbypr |-> "links",
          dependents |-> "deps", logindex |-> "logs"]

\* At the start there is an index with each table that has one, and nothing in the cache.
ASSUME RecordsAssumption ==
  /\ Sweeper \notin Users /\ IsFiniteSet(Keys) /\ Keys \subseteq Nat \ {0} /\ 1 \in Keys
  /\ Budget \in Nat
  /\ \A d \in Drivers : \A a \in Users :
       Ops[d][a] \subseteq SessionOps(d) \cup CredentialOps(d) \cup AdminOps(d) \cup TeamOps(d) \cup RecordOps(d)
  /\ \A s \in Origins :
       /\ s.keys \subseteq Keys /\ s.idle \subseteq s.keys /\ s.faults \in Nat
       /\ "spacecache" \in s.empty
       /\ \A i \in DOMAIN Index : i \in s.empty <=> Index[i] \in s.empty

VARIABLES
  driver,  \* of the database
  db,      \* db[t]: the records of table t, each with those whose changes it contains
  used,    \* keys used up
  idle,    \* sessions without activity for longer than is allowed
  run,     \* run[a]: what goroutine a is doing
  budget,  \* budget[a]: handlers left to user a
  faults,  \* errors and crashes left
  erred,   \* tables there was an error of
  sent,    \* digests sent
  resets,  \* resets[k]: passwords set with token k, see TokenUsedOnce
  stale    \* keys of spaces in memory, listed before they changed

data    == <<db, used, idle>>
ghosts  == <<sent, resets, stale>>
vars    == <<driver, data, run, budget, faults, erred, ghosts>>

Goroutines == Users \cup {Sweeper}

\* Tables in memory
Memory == {"states", "prints", "spacecache"}

\* copy is what the handler has read, touched the tables others have changed meanwhile, of
\* those the properties ask about.
Asked == {"sessions", "byuser", "keys", "oidclinks", "tokens", "spaces", "digests"}
NoCopy  == [tk \in {} |-> {}]
AtRest == [todo |-> <<>>, key |-> 0, fresh |-> 0, copy |-> NoCopy, touched |-> {}]
Active(a) == run[a].todo # <<>>
OneRuns == Cardinality({a \in Goroutines : Active(a)}) <= 1
Begun(todo, k) == [AtRest EXCEPT !.todo = todo, !.key = k]

-----------------------------------------------------------------------------
Now(a) == Head(run[a].todo)
At(a, ops) == Active(a) /\ Now(a).op \in ops

\* The record a step is about
KeyOf(r, s) == IF s.t = "users" THEN 1
               ELSE IF s.op = "new" THEN r.fresh
               ELSE IF s.key # 0 THEN s.key
               ELSE r.key
Key(a) == KeyOf(run[a], Now(a))
Has(t, k) == k \in DOMAIN db[t]
Over(g, f) == [x \in DOMAIN g \cup DOMAIN f |-> IF x \in DOMAIN g THEN g[x] ELSE f[x]]
Set(f, x, v) == Over([y \in {x} |-> v], f)
With(t, k, c) == [db EXCEPT ![t] = Set(@, k, c)]
Without(t, S) == [db EXCEPT ![t] = [k \in DOMAIN @ \ S |-> @[k]]]
InCopy(a, t) == {k \in Keys : <<t, k>> \in DOMAIN run[a].copy}
Known(a, t, k) == IF <<t, k>> \in DOMAIN run[a].copy THEN run[a].copy[<<t, k>>] ELSE {}

\* A step done, and the steps of a loop or a branch put before the rest
Done(a) == [run[a] EXCEPT !.todo = Tail(@)]
Bind(k, body) == [i \in DOMAIN body |-> [body[i] EXCEPT !.key = IF @ = 0 THEN k ELSE @]]
Laps(S, body) ==
  LET order == SetToSeq(S)
      laps[n \in 0..Cardinality(S)] == IF n = 0 THEN <<>> ELSE laps[n - 1] \o Bind(order[n], body)
  IN laps[Cardinality(S)]
Before(a, steps) == [run[a] EXCEPT !.todo = steps \o Tail(@)]

\* A step undone: the handler ends, goes on, or leaves the lap, or the loop, it is in.
Leave(s, keys) ==
  LET n == CHOOSE m \in 2..Len(s) + 1 :
             /\ \A i \in 2..m - 1 : s[i].key \in keys
             /\ m \in DOMAIN s => s[m].key \notin keys
  IN SubSeq(s, n, Len(s))
Undone(a) ==
  [run[a] EXCEPT !.todo = CASE Now(a).failed = "end"  -> <<>>
                            [] Now(a).failed = "on"   -> Tail(@)
                            [] Now(a).failed = "next" -> Leave(@, {Now(a).key})
                            [] Now(a).failed = "out"  -> Leave(@, Keys)]

Or(r)          == IF r.todo = <<>> THEN AtRest ELSE r
Proceeds(a, r) == run' = [run EXCEPT ![a] = Or(r)]
Touches(a, r, ts) ==
  run' = [b \in Goroutines |-> IF b = a THEN Or(r)
                               ELSE IF Active(b) THEN [run[b] EXCEPT !.touched = @ \cup (ts \cap Asked)]
                               ELSE AtRest]

-----------------------------------------------------------------------------
\* Bounds: two handlers run at once, and only if one of them may still change a table the
\* other uses; for those that share none, one after the other is as good.
Uses(todo)   == UNION {{todo[i].t} \cup {s.t : s \in ToSet(todo[i].body)} : i \in DOMAIN todo}
Reading      == {"get", "free", "any", "each", "own", "idlers", "unless", "again"}
Changes(todo) ==
  UNION {{s.t : s \in {x \in {todo[i]} \cup ToSet(todo[i].body) : x.op \notin Reading}} : i \in DOMAIN todo}
Running == {run[b].todo : b \in {c \in Goroutines : Active(c)}}
Meets(todo, uses, changes) == uses = {} \/ Uses(todo) \cap changes # {} \/ Changes(todo) \cap uses # {}

\* A key that is being made is not known to others yet.
Command(a) ==
  /\ ~Active(a) /\ budget[a] > 0 /\ budget' = [budget EXCEPT ![a] = @ - 1]
  /\ OneRuns
  /\ LET uses == UNION {Uses(todo) : todo \in Running}
         changes == UNION {Changes(todo) : todo \in Running} IN
       \E op \in Ops[driver][a] :
         /\ Meets(op, uses, changes)
         /\ \E k \in used \ {run[b].fresh : b \in Goroutines} : Proceeds(a, Begun(op, k))
  /\ UNCHANGED <<driver, data, faults, erred, ghosts>>

Sweep ==
  /\ ~Active(Sweeper) /\ \E k \in idle : Has("sessions", k)
  /\ OneRuns
  /\ LET steps == DeleteInactiveSessions(driver) IN
       /\ Meets(steps, UNION {Uses(todo) : todo \in Running}, UNION {Changes(todo) : todo \in Running})
       /\ Proceeds(Sweeper, Begun(steps, 0))
  /\ UNCHANGED <<driver, data, budget, faults, erred, ghosts>>

FreshStep(a) ==
  /\ At(a, {"fresh"})
  /\ IF Keys \subseteq used THEN Proceeds(a, AtRest) /\ UNCHANGED used
     ELSE LET k == CHOOSE x \in Keys \ used : TRUE IN
          /\ Proceeds(a, [Done(a) EXCEPT !.fresh = k]) /\ used' = used \cup {k}
  /\ UNCHANGED <<driver, db, idle, budget, faults, erred, ghosts>>

ReadStep(a) ==
  /\ At(a, {"get", "free", "any"})
  /\ LET t == Now(a).t   k == Key(a) IN
       Proceeds(a, IF Now(a).op = "free" THEN IF Has(t, k) THEN AtRest ELSE Done(a)
                   ELSE IF Now(a).op = "any" THEN IF InCopy(a, t) = {} THEN AtRest ELSE Done(a)
                   ELSE IF Has(t, k) THEN [Done(a) EXCEPT !.copy = Set(@, <<t, k>>, db[t][k])]
                   ELSE [Undone(a) EXCEPT !.copy = Set(@, <<t, k>>, {})])
  /\ UNCHANGED <<driver, data, budget, faults, erred, ghosts>>

TakeStep(a) ==
  /\ At(a, {"take"})
  /\ LET t == Now(a).t   k == Key(a) IN
       IF Has(t, k) THEN Touches(a, Done(a), {t}) /\ db' = Without(t, {k})
       ELSE Proceeds(a, Undone(a)) /\ UNCHANGED db
  /\ UNCHANGED <<driver, used, idle, budget, faults, erred, ghosts>>

\* Listing, and the laps of the loop
Listed(a) ==
  LET t == Now(a).t   all == DOMAIN db[t] \cap DOMAIN db[Now(a).via] IN
  CASE Now(a).op = "each"   -> all
    [] Now(a).op = "own"    -> all \cap {Key(a)}
    [] Now(a).op = "idlers" -> all \cap idle

EachStep(a) ==
  /\ At(a, {"each", "own", "idlers"})
  /\ LET t == Now(a).t   S == Listed(a) IN
       Proceeds(a, [Before(a, Laps(S, Now(a).body)) EXCEPT
                      !.copy = Over([tk \in {t} \X S |-> db[t][tk[2]]], @)])
  /\ UNCHANGED <<driver, data, budget, faults, erred, ghosts>>

UnlessStep(a) ==
  /\ At(a, {"unless", "again"})
  /\ Proceeds(a, IF Now(a).op = "again" THEN Before(a, Laps(InCopy(a, Now(a).t), Now(a).body))
                 ELSE IF Has(Now(a).t, Key(a)) THEN Done(a)
                 ELSE Before(a, Bind(Now(a).key, Now(a).body)))
  /\ UNCHANGED <<driver, data, budget, faults, erred, ghosts>>

\* A write; a password set after a token was read counts, unless another touched the token.
WriteStep(a) ==
  /\ At(a, {"put", "blank", "new"})
  /\ LET t == Now(a).t   k == Key(a)   i == Now(a).via
         old == IF Now(a).op = "put" THEN Known(a, t, k) ELSE {}
         tokens == InCopy(a, "tokens") IN
       /\ db' = IF i = t THEN With(t, k, old \cup {a})
                ELSE [With(t, k, old \cup {a}) EXCEPT ![i] = Set(@, k, {a})]
       /\ Touches(a, Done(a), {t, i})
       /\ idle' = IF t = "sessions" THEN idle \ {k} ELSE idle
       /\ resets' = IF t = "users" /\ "tokens" \notin run[a].touched
                    THEN [x \in Keys |-> resets[x] + (IF x \in tokens THEN 1 ELSE 0)] ELSE resets
  /\ UNCHANGED <<driver, used, budget, faults, erred, sent, stale>>

TouchStep(a) ==
  /\ At(a, {"touch"})
  /\ LET t == Now(a).t   k == Key(a) IN
       /\ db' = IF Has(t, k) THEN With(t, k, db[t][k] \cup {a}) ELSE db
       /\ Touches(a, Done(a), {t})
       /\ idle' = IF t = "sessions" THEN idle \ {k} ELSE idle
  /\ UNCHANGED <<driver, used, budget, faults, erred, ghosts>>

DelStep(a) ==
  /\ At(a, {"del", "purge", "purgeidle", "forget"})
  /\ LET t == Now(a).t
         S == CASE Now(a).op = "del" -> {Key(a)} [] Now(a).op = "purgeidle" -> idle [] OTHER -> Keys IN
       /\ db' = Without(t, S)
       /\ Touches(a, Done(a), {t})
       /\ stale' = IF t = "spacecache" THEN {} ELSE stale
  /\ UNCHANGED <<driver, used, idle, budget, faults, erred, sent, resets>>

FillStep(a) ==
  /\ At(a, {"fill"})
  /\ LET t == Now(a).t   u == Now(a).via
         S == InCopy(a, u) IN
       /\ db' = [db EXCEPT ![t] = Over([k \in S |-> run[a].copy[<<u, k>>]], @)]
       /\ Touches(a, Done(a), {t})
       /\ stale' = IF u \in run[a].touched THEN stale \cup S ELSE stale
  /\ UNCHANGED <<driver, used, idle, budget, faults, erred, sent, resets>>

SendStep(a) ==
  /\ At(a, {"send"})
  /\ Proceeds(a, Done(a))
  /\ sent' = sent \cup InCopy(a, Now(a).t)
  /\ UNCHANGED <<driver, data, budget, faults, erred, resets, stale>>

\* An error of the database counts as a change of the table for the handler itself.
\* Bound: errors and crashes come while one handler runs.
Fails(a) ==
  /\ Active(a) /\ OneRuns /\ faults > 0 /\ faults' = faults - 1
  /\ Now(a).op \notin {"fresh", "any", "unless", "again", "fill", "forget", "send", "take"}
  /\ Now(a).t \notin Memory
  /\ Proceeds(a, [Undone(a) EXCEPT !.touched = @ \cup ({Now(a).t} \cap Asked)])
  /\ erred' = erred \cup {Now(a).t}
  /\ UNCHANGED <<driver, data, budget, ghosts>>

Crash ==
  /\ OneRuns /\ faults > 0 /\ faults' = faults - 1
  /\ run' = [a \in Goroutines |-> AtRest]
  /\ db' = [t \in Tables |-> IF t \in Memory THEN NoCopy ELSE db[t]]
  /\ stale' = {}
  /\ UNCHANGED <<driver, used, idle, budget, erred, sent, resets>>

Works(a) ==
  \/ FreshStep(a) \/ ReadStep(a) \/ TakeStep(a) \/ EachStep(a) \/ UnlessStep(a) \/ WriteStep(a)
  \/ TouchStep(a) \/ DelStep(a) \/ FillStep(a) \/ SendStep(a)

-----------------------------------------------------------------------------
Init ==
  /\ driver \in Drivers
  /\ \E s \in Origins :
       /\ db = [t \in Tables |->
                  [k \in IF t = "users" THEN {1}
                         ELSE IF t \in s.empty \/ (t = "byuser" /\ driver = "mongo") THEN {} ELSE s.keys |-> {}]]
       /\ used = s.keys /\ idle = s.idle /\ faults = s.faults
  /\ run = [a \in Goroutines |-> AtRest]
  /\ budget = [a \in Users |-> Budget]
  /\ erred = {}
  /\ sent = {} /\ resets = [k \in Keys |-> 0] /\ stale = {}

Next == \/ \E a \in Users : Command(a)
        \/ Sweep \/ Crash
        \/ \E a \in Goroutines : Works(a) \/ Fails(a)

\* Some goroutine that can run does, and the ticker of the sweeper comes again.
Fairness == WF_vars(\E a \in Goroutines : Works(a)) /\ WF_vars(Sweep)

RecordsSpec == Init /\ [][Next]_vars /\ Fairness

-----------------------------------------------------------------------------
\* A change of a record is lost only to a writer that had read the record before the
\* change was made, was kept from reading it by an error, or writes it whole on purpose.
LostOnlyToRaces ==
  [][\A t \in Tables \ (Memory \cup DOMAIN Index) : \A k \in DOMAIN db[t] \cap DOMAIN db'[t] :
       \A c \in db[t][k] \ db'[t][k] :
         \E a \in Goroutines :
           /\ At(a, {"put", "blank"}) /\ run'[a].todo # run[a].todo
           /\ Now(a).op = "put" /\ t \notin erred => <<t, k>> \in DOMAIN run[a].copy]_vars

\* What an index lists is there, whatever ran at once and wherever a crash came, unless an
\* entry could not be deleted; and with bbolt every pull request is in the indexes.
IndexesPoint ==
  /\ \A i \in DOMAIN Index \ erred : DOMAIN db[i] \subseteq DOMAIN db[Index[i]]
  /\ driver = "bbolt" => DOMAIN db["prs"] = DOMAIN db["prindex"]

\* A user who is deleted leaves no session that counts as the user's, no API key and no
\* OIDC link, but those another handler changed meanwhile, or an error kept.
Cascade ==
  [][\A a \in Goroutines :
       At(a, {"del"}) /\ Now(a).t = "users" /\ run'[a] = AtRest /\ faults' = faults =>
         /\ DOMAIN db'[UserIndex(driver)] = {} \/ {"sessions", "byuser"} \cap (run[a].touched \cup erred) # {}
         /\ \A t \in {"keys", "oidclinks"} : DOMAIN db'[t] = {} \/ t \in run[a].touched]_vars

\* A reset token sets a password once, but for resets that overlap.
TokenUsedOnce == \A k \in Keys : resets[k] <= 1

\* Spaces in memory are those of the database, unless they were listed before a change
\* that came before they were kept, or a handler is about to forget them.
CacheFresh ==
  \A k \in DOMAIN db["spacecache"] \ stale :
    \/ Has("spaces", k) /\ db["spaces"][k] = db["spacecache"][k]
    \/ \E a \in Goroutines : \E i \in DOMAIN run[a].todo : run[a].todo[i].op = "forget"

\* A digest is deleted unsent only if it came after the others were listed for sending.
DigestsSent ==
  [][\A k \in DOMAIN db["digests"] \ DOMAIN db'["digests"] :
       k \in sent \/ \E a \in Goroutines : Active(a) /\ "digests" \in run[a].touched]_vars

\* A session left idle is in the end deleted or used again.
IdleSessionsEnd ==
  \A k \in Keys : k \in idle /\ Has("sessions", k) ~> ~(k \in idle /\ Has("sessions", k))
=============================================================================
