------------------------- MODULE RecordsInvariants --------------------------
(****************************************************************************)
(* What holds of Records in every state: which steps a handler may still    *)
(* have before it and in which order, with which keys, and what the tables  *)
(* hold meanwhile.  RecordsProofs and StateProofs prove it, for every set   *)
(* of goroutines and keys, every choice of handlers and every bound.        *)
(****************************************************************************)
EXTENDS Records

-----------------------------------------------------------------------------
\* Shapes of steps

Keys0 == Keys \cup {0}
OpNames == {"get", "free", "any", "take", "put", "blank", "fresh", "new", "touch", "del", "each", "own",
            "idlers", "again", "purge", "purgeidle", "unless", "fill", "forget", "send"}
Modes == {"end", "on", "next", "out"}
Loops == {"each", "own", "idlers"}
Branches == Loops \cup {"unless", "again"}

\* Tables in which records get new keys, and records written over what was read of them
Made == {"sessions", "byuser", "keys", "tokens", "passkeys", "ceremonies", "states", "prints", "stacks",
         "deployments", "digests", "logs", "logindex"}
Rewrites(s) == s.op = "put" /\ s.t \notin Memory \cup DOMAIN Index

UserWrite(s)  == s.op \in {"put", "blank"} /\ s.t = "users"
TokenRead(s)  == s.op = "get" /\ s.t = "tokens"
TokenDel(s)   == s.op = "del" /\ s.t = "tokens"
SpaceWrite(s) == s.op \in {"put", "blank", "del"} /\ s.t = "spaces"
NewMember(s)  == s.op = "blank" /\ s.t = "members" /\ s.failed = "on"
Forgets(s)    == s.op = "forget" /\ s.t = "spacecache"
SessionDel(s) == s.op = "del" /\ s.t = "sessions"
PrefsRead(s)  == s.op = "get" /\ s.t = "prefs"
DigestList(s) == s.op = "each" /\ s.t = "digests" /\ s.via = "digests" /\ s.body = <<>>
DigestLoop(s) == s.t = "digests" /\ (s.op = "purge" \/ (s.op = "each" /\ s.body # <<>>))
DigestDel(s)  == s.op = "del" /\ s.t = "digests"
UserDel(s)    == s.op = "del" /\ s.t = "users"

PlainShape(s) ==
  /\ s.op # "fresh" => s.t \in Tables /\ s.via \in Tables
  /\ s.op \in {"put", "blank", "new"} => s.via = s.t \/ (s.op = "put" /\ s.t = "prs" /\ s.via = "prindex")
  /\ s.op \notin Branches => s.body = <<>>
  /\ s.op = "new" => s.t \in Made
  /\ s.op \in {"blank", "fill"} => s.t \notin Made
  /\ s.op = "take" => s.failed = "end"
  /\ s.op \in {"free", "any"} => s.failed = "on"
  /\ s.op \in {"any", "again"} => s.t = "deps"
  /\ s.op = "take" => s.t = "states"
  /\ s.op = "fill" => s.t = "spacecache" /\ s.via = "spaces"
  /\ s.op = "forget" => s.t \in {"spacecache", "prints"}
  /\ s.op = "touch" => s.t = "sessions"
  /\ s.op = "purgeidle" => s.t = "sessions"
  /\ s.op = "idlers" => s.t = "sessions"
  /\ s.op = "send" => s.t = "digests"
IndexShape(d, s) ==
  /\ s.t = "byuser" => d = "bbolt" /\ s.op \in {"new", "del"}
  /\ s.t = "sessions" => \/ s.op \in {"get", "new", "del", "put", "touch", "each", "idlers"}
                         \/ d = "mongo" /\ s.op \in {"purge", "purgeidle"}
  /\ s.t = "prs" => s.op \in {"get", "put", "each"} /\ (d = "bbolt" /\ s.op = "put" => s.via = "prindex")
  /\ s.t = "prindex" => s.op \in {"unless", "get", "put"}
  /\ s.t \in {"links", "linksbypr", "dependents"} => s.op = "blank"
  /\ s.t = "deps" => s.op \in {"blank", "each", "any", "again"}
  /\ s.t \in {"logs", "logindex"} => s.op = "new"
OtherShape(s) ==
  /\ s.t = "users" => s.op \in {"get", "free", "put", "blank", "del"}
  /\ s.t = "tokens" => s.op \in {"get", "new", "del"} /\ (s.op # "new" => s.failed = "end")
  /\ s.t = "spaces" => s.op \in {"get", "put", "blank", "del", "each"} /\ (s.op # "each" => s.failed = "end")
  /\ s.t = "spacecache" => s.op \in {"unless", "fill", "forget"}
  /\ s.t = "digests" => s.op \in {"new", "each", "del", "purge", "send"} /\ (s.op = "del" => s.failed = "out")
  /\ s.t = "prefs" => s.op \in {"blank", "get"} /\ (s.op = "get" => s.failed = "end")
  /\ s.t = "oidclinks" => s.op \in {"get", "free", "put", "blank", "del", "each"} /\ (s.op = "get" => s.failed = "end")
  /\ s.t = "states" => s.op \in {"new", "take"}
  /\ s.t \in {"keys", "passkeys", "stacks"} => s.op \notin {"fill", "forget"}
  /\ s.t = "prints" => s.op \in {"new", "get", "del", "forget"}

\* What e may do for each of its records
Inner(d, e, s) ==
  /\ s.key = 0
  /\ s.op \in {"get", "put", "blank", "fresh", "new", "del", "each", "unless", "fill"}
  /\ s.t \notin {"users", "tokens", "states", "prefs"}
  /\ s.t = "spaces" => s.op = "each"
  /\ ~NewMember(s)
  /\ s.t = "oidclinks" => s.op = "del"
  /\ s.t = "digests" => s.op = "del"
  /\ Rewrites(s) => s.t = e.t /\ e.op \in Loops
  /\ s.op = "del" => s.t = e.t \/ (e.t = "sessions" /\ s.t = "byuser")
  /\ SessionDel(s) /\ d = "bbolt" => e.op \in Loops /\ (e.via = "byuser" \/ e.op = "idlers")
  /\ s.op = "del" => e.op \in Loops
Shape(d, s) ==
  /\ PlainShape(s) /\ IndexShape(d, s) /\ OtherShape(s)
  /\ \A m \in DOMAIN s.body : Inner(d, s, s.body[m])

NeedsBefore(d, s) ==
  \/ s.op \in {"new", "take", "send"}
  \/ s.op = "put" /\ s.t = "prindex"
  \/ s.op = "blank" /\ s.t \in {"linksbypr", "dependents"}
  \/ d = "bbolt" /\ SessionDel(s)
  \/ PrefsRead(s) \/ DigestLoop(s)
Gives(d, p, s) ==
  /\ s.op # "take"
  /\ s.op = "new" => \/ p.op = "fresh" /\ s.t \notin {"byuser", "logindex"}
                     \/ /\ p.op = "new" /\ p.failed = "end"
                        /\ <<p.t, s.t>> \in {<<"sessions", "byuser">>, <<"logs", "logindex">>}
  /\ s.op = "put" /\ s.t = "prindex" => p.t = "prs" /\ p.op \in {"get", "put"} /\ p.failed = "end"
  /\ s.t = "linksbypr" => p.t = "links" /\ p.op = "blank" /\ p.failed = "end"
  /\ s.t = "dependents" => p.t = "deps" /\ p.op = "blank" /\ p.failed = "end"
  /\ d = "bbolt" /\ SessionDel(s) => p.op = "del" /\ p.t = "byuser"
  /\ s.op = "send" => PrefsRead(p)
  /\ PrefsRead(s) => DigestList(p) /\ p.failed = "end"
  /\ DigestLoop(s) => p.op = "send"
NeedsAfter(s) == TokenRead(s) \/ SpaceWrite(s) \/ NewMember(s)
Takes(p, s) ==
  /\ TokenRead(p) => TokenDel(s)
  /\ SpaceWrite(p) => Forgets(s) \/ NewMember(s)
  /\ NewMember(p) => Forgets(s)
Link(d, p, s) ==
  /\ NeedsBefore(d, s) => p.key = s.key /\ Gives(d, p, s)
  /\ NeedsAfter(p) => p.key = s.key /\ Takes(p, s)
Chain(d, s) ==
  /\ \A i \in 2..Len(s) : Link(d, s[i - 1], s[i])
  /\ s # <<>> => ~NeedsAfter(s[Len(s)])

Raw(B) == [op : OpNames, t : Tables \cup {"none"}, via : Tables \cup {"none"}, failed : Modes, body : B, key : Keys0]
StepsOf(d, B) == {s \in Raw(B) : Shape(d, s)}
Programs(d, B) == {s \in Seq(StepsOf(d, B)) : Chain(d, s) /\ (s # <<>> => ~NeedsBefore(d, s[1]))}
Bodies1(d) == Programs(d, {<<>>})
Bodies2(d) == Programs(d, Bodies1(d))
AnyStep(d) == StepsOf(d, Bodies2(d))
Todos(d) == {s \in Seq(AnyStep(d)) : Chain(d, s)}

-----------------------------------------------------------------------------
\* Handlers

TopShape(s) == s.key = 0 /\ ~DigestDel(s)
Covered(s) ==
  \A i \in DOMAIN s : Rewrites(s[i]) => \E j \in 1..i - 1 : s[j].op = "get" /\ s[j].t = s[i].t
TokenOnce(s) ==
  (\E i \in DOMAIN s : TokenRead(s[i])) => \A i, j \in DOMAIN s : UserWrite(s[i]) /\ UserWrite(s[j]) => i = j
ForgetLast(s) == \A i \in DOMAIN s : Forgets(s[i]) => i = Len(s)

EachDels(s, t) == s.op = "each" /\ s.t = t /\ s.via = t /\ Len(s.body) = 1
                  /\ s.body[1].op = "del" /\ s.body[1].t = t /\ s.body[1].failed = "on"
SessionDels(d, s) ==
  IF d = "mongo" THEN s.op = "purge" /\ s.t = "sessions"
  ELSE s.op = "each" /\ s.t = "sessions" /\ s.via = "byuser" /\ s.body = BboltDeleteSession("out")
\* A loop deletes the sessions, or the keys or links.
Clears(d, s) == s.op = "each" => SessionDels(d, s) \/ EachDels(s, "keys") \/ EachDels(s, "oidclinks")
CascadeStep(s) ==
  /\ s.op \in {"each", "del", "get", "purge"} /\ s.failed \in {"end", "on", "out"}
  /\ s.failed = "out" => s.t \in {"sessions", "byuser"}
  /\ s.op = "get" => s.t = "sessions"
Cascading(s) ==
  /\ CascadeStep(s)
  /\ \A m \in DOMAIN s.body : LET b == s.body[m] IN
       CascadeStep(b) /\ b.op \in {"del", "get"} /\ (b.op = "get" => s.t = "sessions")
Cascades(d, s) ==
  (\E i \in DOMAIN s : UserDel(s[i])) =>
    /\ \A i \in DOMAIN s : Cascading(s[i]) /\ Clears(d, s[i]) /\ s[i].op # "get"
    /\ \A t \in {"keys", "oidclinks"} : \E i \in DOMAIN s : EachDels(s[i], t)
    /\ \E i \in DOMAIN s : SessionDels(d, s[i])

Startable(d, s) ==
  /\ s \in Todos(d) /\ (s # <<>> /\ s[1].op # "take" => ~NeedsBefore(d, s[1]))
  /\ \A i \in DOMAIN s : TopShape(s[i])
  /\ Covered(s) /\ TokenOnce(s) /\ ForgetLast(s) /\ Cascades(d, s)

Handlers(d) == SessionOps(d) \cup CredentialOps(d) \cup AdminOps(d) \cup TeamOps(d) \cup RecordOps(d)

-----------------------------------------------------------------------------
\* Types and keys

IsRun(d, r) ==
  /\ r = [todo |-> r.todo, key |-> r.key, fresh |-> r.fresh, copy |-> r.copy, touched |-> r.touched]
  /\ r.todo \in Todos(d) /\ r.key \in Keys0 /\ r.fresh \in Keys0
  /\ DOMAIN r.copy \subseteq Tables \X Keys0 /\ r.touched \subseteq Asked
TypeInv ==
  /\ driver \in Drivers
  /\ db = [t \in Tables |-> db[t]] /\ \A t \in Tables : DOMAIN db[t] \subseteq Keys0
  /\ run = [a \in Goroutines |-> run[a]] /\ \A a \in Goroutines : IsRun(driver, run[a])
  /\ \A a \in Goroutines : ~Active(a) => run[a] = AtRest
  /\ used \subseteq Keys /\ idle \subseteq used
  /\ faults \in Nat
KeyInv ==
  /\ \A t \in Tables \ {"users"} : DOMAIN db[t] \subseteq used \cup {0}
  /\ \A a \in Goroutines : LET r == run[a] IN
       /\ r.key \in used \cup {0} /\ r.fresh \in used \cup {0}
       /\ \A i \in DOMAIN r.todo : r.todo[i].key \in used \cup {0}
       /\ \A x \in DOMAIN r.copy : x[1] # "users" => x[2] \in used \cup {0}
       /\ r.fresh # 0 => /\ r.fresh \notin idle
                         /\ \A b \in Goroutines : run[b].key # r.fresh /\ (b # a => run[b].fresh # r.fresh)

Pending(r, t) ==
  \/ Len(r.todo) >= 1 /\ r.todo[1].op = "new" /\ r.todo[1].t = t
  \/ Len(r.todo) >= 2 /\ r.todo[1].op = "new" /\ r.todo[2].op = "new" /\ r.todo[2].t = t
Clashes(s, t) == (s.op = "put" /\ s.t = t) \/ (t = "byuser" /\ SessionDel(s))
PendInv ==
  \A b \in Goroutines : \A t \in Made : Pending(run[b], t) =>
    /\ run[b].fresh # 0 /\ run[b].fresh \notin DOMAIN db[t]
    /\ \A a \in Goroutines : \A i \in DOMAIN run[a].todo :
         Clashes(run[a].todo[i], t) => KeyOf(run[a], run[a].todo[i]) # run[b].fresh

ZeroInv ==
  /\ \A t \in Tables : 0 \notin DOMAIN db[t]
  /\ \A a \in Goroutines : run[a].key = 0 =>
       \A i \in DOMAIN run[a].todo : run[a].todo[i].key = 0 => run[a].todo[i].op \in {"idlers", "purgeidle"}

-----------------------------------------------------------------------------
\* The properties

IndexInv ==
  /\ \A i \in DOMAIN Index \ erred : DOMAIN db[i] \subseteq DOMAIN db[Index[i]]
  /\ driver = "bbolt" => DOMAIN db["prs"] = DOMAIN db["prindex"]
  /\ driver = "mongo" => DOMAIN db["byuser"] = {}
  /\ \A a \in Goroutines : Active(a) => LET s == Now(a) IN
       /\ s.op = "new" /\ s.t = "byuser" => run[a].fresh \in DOMAIN db["sessions"]
       /\ s.op = "new" /\ s.t = "logindex" => run[a].fresh \in DOMAIN db["logs"]
       /\ s.op = "put" /\ s.t = "prindex" => Key(a) \in DOMAIN db["prs"]
       /\ s.t = "linksbypr" => Key(a) \in DOMAIN db["links"]
       /\ s.t = "dependents" => Key(a) \in DOMAIN db["deps"]
       /\ driver = "bbolt" /\ SessionDel(s) => Key(a) \notin DOMAIN db["byuser"] \/ "byuser" \in erred

HoldsToken(a, k) == <<"tokens", k>> \in DOMAIN run[a].copy /\ "tokens" \notin run[a].touched
TokenInv ==
  /\ resets \in [Keys -> 0..1]
  /\ \A a \in Goroutines : \A k \in Keys : HoldsToken(a, k) =>
       \/ TokenDel(Now(a)) /\ Key(a) = k
       \/ k \notin DOMAIN db["tokens"]
  /\ \A k \in Keys : resets[k] = 1 =>
       /\ k \in used /\ k \notin DOMAIN db["tokens"]
       /\ \A a \in Goroutines : HoldsToken(a, k) => \A i \in DOMAIN run[a].todo : ~UserWrite(run[a].todo[i])
  /\ \A k \in Keys \ DOMAIN db["tokens"] : \A a, b \in Goroutines : HoldsToken(a, k) /\ HoldsToken(b, k) => a = b
  /\ \A a \in Goroutines : LET s == run[a].todo IN
       (\E k \in Keys : <<"tokens", k>> \in DOMAIN run[a].copy) \/ (\E i \in DOMAIN s : TokenRead(s[i])) =>
         \A i, j \in DOMAIN s : UserWrite(s[i]) /\ UserWrite(s[j]) => i = j
  /\ \A b \in Goroutines : Pending(run[b], "tokens") =>
       /\ resets[run[b].fresh] = 0
       /\ \A a \in Goroutines : <<"tokens", run[b].fresh>> \notin DOMAIN run[a].copy

Settling(a) == Active(a) /\ (Forgets(Now(a)) \/ NewMember(Now(a)))
Kept(k, v) == Has("spaces", k) /\ db["spaces"][k] = v
CacheInv ==
  /\ \A k \in DOMAIN db["spacecache"] \ stale :
       Kept(k, db["spacecache"][k]) \/ \E a \in Goroutines : Settling(a)
  /\ \A a \in Goroutines : Active(a) /\ "spaces" \notin run[a].touched =>
       \A k \in Keys : <<"spaces", k>> \in DOMAIN run[a].copy =>
         Settling(a) \/ Kept(k, run[a].copy[<<"spaces", k>>])
  /\ \A a \in Goroutines : ForgetLast(run[a].todo)

Unmoved(a) == Active(a) /\ "digests" \notin run[a].touched
DigestInv ==
  /\ \A a \in Goroutines : \A j \in DOMAIN run[a].todo : \A i \in 1..j - 1 :
       DigestDel(run[a].todo[j]) => ~(run[a].todo[i].op = "new" /\ run[a].todo[i].t = "digests")
  /\ \A a \in Goroutines : Unmoved(a) =>
       /\ Now(a).op = "send" \/ PrefsRead(Now(a)) =>
            \A k \in DOMAIN db["digests"] : <<"digests", k>> \in DOMAIN run[a].copy
       /\ DigestLoop(Now(a)) \/ (\E i \in DOMAIN run[a].todo : DigestDel(run[a].todo[i])) =>
            DOMAIN db["digests"] \subseteq sent

CoverInv ==
  \A a \in Goroutines : LET r == run[a] IN \A i \in DOMAIN r.todo : LET s == r.todo[i] IN
    Rewrites(s) => \/ \E j \in 1..i - 1 : /\ r.todo[j].op = "get" /\ r.todo[j].t = s.t
                                          /\ \A m \in j..i : r.todo[m].key = s.key
                   \/ <<s.t, KeyOf(r, s)>> \in DOMAIN r.copy
                   \/ s.t \in erred

Deleting(a) == \E i \in DOMAIN run[a].todo : UserDel(run[a].todo[i])
StepsClear(r) ==
  \A i \in DOMAIN r.todo : /\ Cascading(r.todo[i]) /\ Clears(driver, r.todo[i])
                           /\ r.todo[i].op \in {"each", "purge"} => r.todo[i].key = 0
                           /\ r.todo[i].op = "get" => r.todo[i].key # 0
LoopsFirst(r) ==
  \A j \in DOMAIN r.todo : \A i \in 1..j - 1 :
    r.todo[i].op = "each" \/ (r.todo[i].failed = "out" /\ r.todo[j].t \in {"keys", "oidclinks"}) => r.todo[j].key = 0
Deletes(r, t) ==
  \A k \in DOMAIN db[t] : \E i \in DOMAIN r.todo : r.todo[i].op = "del" /\ r.todo[i].t = t /\ KeyOf(r, r.todo[i]) = k
Swept(r, t) == t \in r.touched \/ (\E i \in DOMAIN r.todo : EachDels(r.todo[i], t)) \/ Deletes(r, t)
Missed(r) == {"sessions", "byuser"} \cap (r.touched \cup erred) # {}
Sought(r, i) ==
  r.todo[i].op = "get" /\ r.todo[i].t = "sessions" =>
    /\ KeyOf(r, r.todo[i]) \in DOMAIN db["sessions"]
    /\ \A j \in 1..i - 1 : SessionDel(r.todo[j]) => KeyOf(r, r.todo[j]) # KeyOf(r, r.todo[i])
Ended(r) ==
  \/ Missed(r)
  \/ \E i \in DOMAIN r.todo : SessionDels(driver, r.todo[i])
  \/ driver = "mongo" /\ DOMAIN db["sessions"] = {}
  \/ driver = "bbolt" /\ Deletes(r, "byuser") /\ \A i \in DOMAIN r.todo : Sought(r, i)
Falling(r) == StepsClear(r) /\ LoopsFirst(r) /\ (\A t \in {"keys", "oidclinks"} : Swept(r, t)) /\ Ended(r)
CascadeInv == \A a \in Goroutines : Deleting(a) => Falling(run[a])
=============================================================================
