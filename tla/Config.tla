------------------------------- MODULE Config -------------------------------
(***************************************************************************)
(* The configuration of the daemon: the file, the copy in memory that      *)
(* everything reads, and the numbered snapshots in the database.  Updates  *)
(* take configReloadMu; rollbacks, webhooks, label rules, reloads on       *)
(* SIGHUP and the cleaning of the spam section do not.  An update is       *)
(* followed after a minute by a look at the database and the notifiers,    *)
(* which may roll back.  The daemon sets itself up when it cannot load a   *)
(* file.  All who save write one temporary file and rename it.             *)
(* ASIKA_MASTER_KEY is taken to be set.                                    *)
(***************************************************************************)
EXTENDS Integers, Sequences, SequencesExt, FiniteSets, FiniteSetsExt, TLC

CONSTANTS
  Requests,   \* of administrators
  Keep,       \* snapshots kept: 20
  Acts,       \* bound: what is begun
  Stops,      \* bound: ends of the process
  Slips       \* bound: calls of the database that fail

VARIABLES
  file, live,   \* configurations: on disk, and config.Current()
  temp,         \* what the temporary file holds, if there is one
  history,      \* snapshots by version
  version,      \* the last number given
  rules,        \* label_rules in the database, which GetLabelRules prefers
  mutex,        \* who holds configReloadMu, or Nobody
  watches,      \* versions to go back to, of the updates not yet looked at
  job,          \* job[a]: what a request or a goroutine is doing
  acts, stops, slips,
  \* History: the file or the temporary file was written without the mutex while it was held;
  \* the number of snapshots could not be read or written
  crossed, slipped

configVars == <<file, live, temp, history, version, rules, mutex, watches, job, acts, stops, slips, crossed, slipped>>
content == <<file, live, temp, history, version, rules, slips, slipped>>

Nobody == "nobody"
ASSUME ConfigAssumption == Keep \in Nat \ {0} /\ {Acts, Stops, Slips} \subseteq Nat /\ Nobody \notin Requests

Mask == "***"
Actors == Requests \cup {"watch", "clean", "hup"}

\* A configuration.  A section holds who wrote it; a webhook's key is the one it was made with,
\* or Mask; the credentials are those that are sealed and masked (creds) and the others, which
\* are not: of LDAP and OIDC, of hooks, of the AI summary, Feishu's verification token.  The
\* rest is what Load has defaults for.  Nothing is one that is not loaded, or a file that is
\* empty, torn or missing.
Nothing == [whole |-> FALSE, creds |-> "none", others |-> "none", spam |-> "none", sane |-> TRUE,
            rules |-> "none", hooks |-> <<>>, rest |-> "absent"]
ByHand == [Nothing EXCEPT !.whole = TRUE, !.creds = "clear", !.others = "clear",
                          !.hooks = <<[of |-> "setup", key |-> "setup"]>>]
\* Read into a struct without defaults, and written with every field
Decoded(c) == [c EXCEPT !.rest = IF @ = "absent" THEN "zero" ELSE @]
Fresh == Decoded(ByHand)
Sections == {"spam", "rules", "hooks"}

Valid(c) == c.whole /\ c.sane
Seal(c) == [c EXCEPT !.creds = IF @ = "clear" THEN "sealed" ELSE @]
Open(c) == [c EXCEPT !.creds = IF @ = "sealed" THEN "clear" ELSE @, !.rest = IF @ = "absent" THEN "default" ELSE @]
MaskHooks(c) == [c EXCEPT !.hooks = [i \in DOMAIN @ |-> [@[i] EXCEPT !.key = Mask]]]
Masked(c) == [MaskHooks(c) EXCEPT !.creds = "masked"]

Idle == [at |-> "idle", op |-> "none", cfg |-> Nothing, back |-> 0, to |-> "none"]
Busy(a) == job[a] # Idle
Initialized == live.whole
Go(a, at, c) == job' = [job EXCEPT ![a].at = at, ![a].cfg = c]
Answer(a) == /\ job' = [job EXCEPT ![a] = Idle]
             /\ mutex' = IF mutex = a THEN Nobody ELSE mutex
Act == acts < Acts /\ acts' = acts + 1
Begin(a, op, at, c, back) == /\ ~Busy(a) /\ Act
                             /\ job' = [job EXCEPT ![a] = [at |-> at, op |-> op, cfg |-> c, back |-> back, to |-> "none"]]

Writes(a) == job[a].at \in {"fill", "rename"}
Crossing(a) == crossed' = (crossed \/ mutex \notin {Nobody, a})

\* Calls of the database, which may fail
Slip(fails) == IF fails THEN slips < Slips /\ slips' = slips + 1 ELSE UNCHANGED slips

-----------------------------------------------------------------------------
\* CompleteWizard, open as long as no configuration is loaded
CompleteWizard(r) ==
  /\ ~Initialized /\ Begin(r, "setup", "save", Fresh, 0)
  /\ UNCHANGED <<content, mutex, watches, stops, crossed>>

\* Variants, which the properties tell from the code
NextVersionCounted(v) == Cardinality(DOMAIN history) + 1
UpdateConfigLoose(r) ==
  /\ Initialized /\ mutex' = mutex
  /\ Begin(r, "update", "snapshot", file, version)
  /\ crossed' = FALSE
  /\ UNCHANGED <<content, watches, stops>>

\* UpdateConfig reads the file and the version it would go back to: none if it cannot be read.
UpdateConfig(r) ==
  /\ Initialized /\ mutex = Nobody /\ mutex' = r
  /\ \E known \in BOOLEAN :
       Slip(~known) /\ Begin(r, "update", "snapshot", file, IF known THEN version ELSE 0)
  /\ crossed' = (\E a \in Actors : Writes(a))
  /\ UNCHANGED <<file, live, temp, history, version, rules, watches, stops, slipped>>

NextVersion(v) == v + 1

\* pruneConfigSnapshots: what cannot be listed or deleted is left.
Old(h) == {v \in DOMAIN h : Cardinality({w \in DOMAIN h : w > v}) >= Keep}
Newest(h, left) == [v \in (DOMAIN h \ Old(h)) \cup left |-> h[v]]

Recorded(h, n, c) == [v \in DOMAIN h \cup {n} |-> IF v = n THEN c ELSE h[v]]

\* SaveConfigSnapshot masks a copy that shares its webhooks with the one in memory.  A number that
\* cannot be read is taken for 0, one that cannot be written is used all the same.
SaveConfigSnapshot(r) ==
  /\ job[r].at = "snapshot"
  /\ live' = MaskHooks(live)
  /\ \E known, counted, put \in BOOLEAN :
       LET n == NextVersion(IF known THEN version ELSE 0)   h == Recorded(history, n, Masked(live)) IN
       \E left \in SUBSET Old(h) :
         /\ version' = (IF counted THEN n ELSE version)
         /\ history' = (IF put THEN Newest(h, left) ELSE history)
         /\ Slip(~known \/ ~counted \/ ~put \/ left # {})
         /\ slipped' = (slipped \/ ~known \/ ~counted)
  /\ Go(r, "merge", job[r].cfg)
  /\ UNCHANGED <<file, temp, rules, mutex, watches, acts, stops, crossed>>

\* What a request may put into the sections that can be changed without a restart
Patches(r) == {[spam |-> r, sane |-> ok] : ok \in BOOLEAN} \cup
              {[rules |-> r], [hooks |-> <<[of |-> r, key |-> r]>>]}

Patched(p, c) == [s \in DOMAIN c |-> IF s \in DOMAIN p THEN p[s] ELSE c[s]]

\* It may be refused (hookpath).  What is not sent and not in the file loses its default.
Merge(r) ==
  /\ job[r].at = "merge"
  /\ \/ \E p \in Patches(r) : Go(r, "save", Decoded(Patched(p, job[r].cfg))) /\ UNCHANGED mutex
     \/ Answer(r)
  /\ UNCHANGED <<content, watches, acts, stops, crossed>>

\* Load, which checks a file that is already in place
Load(a) ==
  /\ job[a].at = "load"
  /\ IF Valid(file) THEN Go(a, "store", Open(file)) /\ UNCHANGED mutex ELSE Answer(a)
  /\ UNCHANGED <<content, watches, acts, stops, crossed>>

\* Store, and what follows it
Store(a) ==
  /\ job[a].at = "store"
  /\ live' = job[a].cfg
  /\ IF job[a].op = "undo" THEN job' = [job EXCEPT ![a].op = "reload", ![a].at = "load", ![a].cfg = Nothing]
                                /\ UNCHANGED mutex
     ELSE Answer(a)
  /\ watches' = IF job[a].op = "update" THEN watches \cup {job[a].back} ELSE watches
  /\ UNCHANGED <<file, temp, history, version, rules, acts, stops, slips, crossed, slipped>>

-----------------------------------------------------------------------------
\* SaveToFile: the temporary file is opened and cut off, filled, and renamed.  Its name is the
\* same for all, and who has it open when another renames or removes it writes on: to the
\* configuration itself, or to a file that has no name.
OpenTemp(a) ==
  /\ job[a].at = "save"
  /\ \/ temp' = {Nothing} /\ Crossing(a) /\ UNCHANGED mutex
        /\ job' = [job EXCEPT ![a].at = "fill", ![a].to = "temp"]
     \/ Answer(a) /\ UNCHANGED <<temp, crossed>>
  /\ UNCHANGED <<file, live, history, version, rules, watches, acts, stops, slips, slipped>>

Elsewhere(to, renamed) == IF to = "temp" THEN (IF renamed THEN "file" ELSE "gone")
                          ELSE IF to = "file" /\ renamed THEN "gone" ELSE to
LeaveTemp(a, j, renamed) ==
  job' = [b \in Actors |-> IF b = a THEN j ELSE [job[b] EXCEPT !.to = Elsewhere(@, renamed)]]

Content(a) == IF job[a].op = "clean" THEN job[a].cfg ELSE Seal(job[a].cfg)
\* Another has written there, or is writing too.
Mixed(a) == \/ job[a].to = "temp" /\ temp # {Nothing}
            \/ job[a].to = "file" /\ file # Nothing
            \/ \E b \in Actors \ {a} : job[b].at = "fill" /\ job[b].to = job[a].to

FillTemp(a) ==
  /\ job[a].at = "fill" /\ Crossing(a)
  /\ \E c \in {Content(a)} \cup (IF Mixed(a) THEN {Nothing} ELSE {}) :
       /\ temp' = IF job[a].to = "temp" THEN {c} ELSE temp
       /\ file' = IF job[a].to = "file" THEN c ELSE file
  /\ IF job[a].op = "clean" THEN Answer(a)
     ELSE job' = [job EXCEPT ![a].at = "rename", ![a].to = "none"] /\ UNCHANGED mutex
  /\ UNCHANGED <<live, history, version, rules, watches, acts, stops, slips, slipped>>

\* It cannot be filled: removed.
RemoveTemp(a) ==
  /\ job[a].at = "fill" /\ job[a].op # "clean" /\ Crossing(a)
  /\ temp' = {} /\ LeaveTemp(a, Idle, FALSE) /\ mutex' = (IF mutex = a THEN Nobody ELSE mutex)
  /\ UNCHANGED <<file, live, history, version, rules, watches, acts, stops, slips, slipped>>

Saved(a) == CASE job[a].op = "webhook" -> Idle
              [] job[a].op = "update" -> [job[a] EXCEPT !.at = "load", !.cfg = Nothing]
              [] OTHER -> [job[a] EXCEPT !.at = "store"]

RenameTemp(a) ==
  /\ job[a].at = "rename"
  /\ \/ temp # {} /\ file' \in temp /\ temp' = {} /\ LeaveTemp(a, Saved(a), TRUE) /\ Crossing(a) /\ UNCHANGED mutex
     \/ temp = {} /\ Answer(a) /\ UNCHANGED <<file, temp, crossed>>
  /\ UNCHANGED <<live, history, version, rules, watches, acts, stops, slips, slipped>>

-----------------------------------------------------------------------------
\* A snapshot with what is masked in it taken from memory; webhooks by place, if there are as many
HookKey(h, now) == IF h.key = Mask THEN now.key ELSE h.key
UnmaskHooks(c) ==
  IF Len(c.hooks) # Len(live.hooks) THEN c
  ELSE [c EXCEPT !.hooks = [i \in DOMAIN c.hooks |->
                              [c.hooks[i] EXCEPT !.key = HookKey(c.hooks[i], live.hooks[i])]]]
Unmask(c) == [UnmaskHooks(c) EXCEPT !.creds = live.creds]

Return(a, op, v) ==
  /\ v \in DOMAIN history
  /\ Begin(a, op, "save", Unmask(history[v]), 0)

\* RollbackConfig, on request
RollbackConfig(r, v) == Initialized /\ Return(r, "rollback", v) /\ UNCHANGED <<content, mutex, watches, stops, crossed>>

\* startAutoRollbackWatch, after its minute: all is well, or there is no such version, or back to it
LookBack ==
  /\ ~Busy("watch")
  /\ \E v \in watches :
       /\ watches' = watches \ {v}
       /\ Return("watch", "undo", v) \/ UNCHANGED <<job, acts>>
  /\ UNCHANGED <<content, mutex, stops, crossed>>

\* CreateWebhook and DeleteWebhook change the copy in memory, and save that.
ChangeHooks(r, hooks) ==
  /\ Initialized
  /\ live' = [live EXCEPT !.hooks = hooks]
  /\ Begin(r, "webhook", "save", [live EXCEPT !.hooks = hooks], 0)
  /\ UNCHANGED <<file, temp, history, version, rules, mutex, watches, stops, slips, crossed, slipped>>
CreateWebhook(r) == Len(live.hooks) < 2 /\ ChangeHooks(r, Append(live.hooks, [of |-> r, key |-> r]))
DeleteWebhook(r) == \E i \in DOMAIN live.hooks : ChangeHooks(r, RemoveAt(live.hooks, i))

\* UpdateLabelRules keeps them in the database and in memory, not in the file.
UpdateLabelRules(r) ==
  /\ Initialized /\ ~Busy(r) /\ Act
  /\ rules' = r /\ live' = [live EXCEPT !.rules = r]
  /\ UNCHANGED <<file, temp, history, version, mutex, watches, job, stops, slips, crossed, slipped>>

\* GetConfig masks a copy that shares its webhooks with the one in memory.
GetConfig(r) ==
  /\ Initialized /\ ~Busy(r) /\ Act
  /\ live' = MaskHooks(live)
  /\ UNCHANGED <<file, temp, history, version, rules, mutex, watches, job, stops, slips, crossed, slipped>>

\* persistSpamClean, which empties the triggers that validate wants; it writes in place.
PersistSpamClean ==
  /\ Initialized
  /\ Begin("clean", "clean", "truncate", IF file.spam = "none" THEN file ELSE [file EXCEPT !.sane = FALSE], 0)
  /\ UNCHANGED <<content, mutex, watches, stops, crossed>>
Truncate ==
  /\ job["clean"].at = "truncate" /\ Crossing("clean")
  /\ file' = Nothing /\ job' = [job EXCEPT !["clean"].at = "fill", !["clean"].to = "file"]
  /\ UNCHANGED <<live, temp, history, version, rules, mutex, watches, acts, stops, slips, slipped>>

\* SIGHUP
Reload ==
  /\ Initialized /\ Begin("hup", "reload", "load", Nothing, 0)
  /\ UNCHANGED <<content, mutex, watches, stops, crossed>>

\* The process ends at any point, and starts: without a file it can load, it waits to be set up.
Restart ==
  /\ Initialized /\ stops < Stops /\ stops' = stops + 1
  /\ live' = IF Valid(file) THEN Open(file) ELSE Nothing
  /\ job' = [a \in Actors |-> Idle] /\ mutex' = Nobody /\ watches' = {} /\ crossed' = FALSE
  /\ UNCHANGED <<file, temp, history, version, rules, acts, slips, slipped>>

ConfigInit ==
  /\ \/ file = Nothing /\ live = Nothing
     \/ file = ByHand /\ live = Open(ByHand)
  /\ temp = {} /\ history = <<>> /\ version = 0 /\ rules = "none"
  /\ mutex = Nobody /\ watches = {} /\ job = [a \in Actors |-> Idle]
  /\ acts = 0 /\ stops = 0 /\ slips = 0 /\ crossed = FALSE /\ slipped = FALSE

ConfigNext ==
  \/ \E r \in Requests : \/ CompleteWizard(r) \/ UpdateConfig(r) \/ SaveConfigSnapshot(r) \/ Merge(r)
                         \/ CreateWebhook(r) \/ DeleteWebhook(r) \/ UpdateLabelRules(r) \/ GetConfig(r)
                         \/ \E v \in DOMAIN history : RollbackConfig(r, v)
  \/ \E a \in Actors : Load(a) \/ Store(a) \/ OpenTemp(a) \/ FillTemp(a) \/ RemoveTemp(a) \/ RenameTemp(a)
  \/ LookBack \/ PersistSpamClean \/ Truncate \/ Reload \/ Restart

-----------------------------------------------------------------------------
\* The credentials that are sealed and masked are clear in memory, sealed in every file the daemon
\* has made (one made by hand holds defaults that are absent) and masked in every snapshot, and no
\* other is ever masked, whatever updates, rollbacks, reloads and restarts come between: a rollback
\* that forgets one makes the mask the credential.
Sealed ==
  /\ live.whole => live.creds = "clear" /\ live.others = "clear"
  /\ file.whole => (file.creds = "sealed" \/ file.rest = "absent") /\ file.others = "clear"
  /\ \A v \in DOMAIN history : history[v].creds = "masked" /\ history[v].others = "clear"

\* What an update makes of the file differs from the file it replaces in the one section that was
\* sent, and in the keys that were absent, which are zero: of two updates at once neither undoes
\* the other, unless somebody wrote the file, or the temporary file, without the mutex.
UpdatesAddUp ==
  [][\A r \in Requests : job[r].op = "update" /\ file' # file /\ Writes(r) /\ ~crossed' =>
       /\ Cardinality({s \in Sections : file'[s] # file[s]}) <= 1
       /\ file'.rest = Decoded(file).rest]_configVars

\* A snapshot is what it was when it was taken until there are as many newer ones as are kept: no
\* number is given twice, after pruning, failures and restarts too, so that a rollback goes where
\* it was meant to; unless the number could once not be read or written.
SnapshotsStand ==
  [][slipped' \/ \A v \in DOMAIN history :
       \/ v \in DOMAIN history' /\ history'[v] = history[v]
       \/ Cardinality({w \in DOMAIN history \cup DOMAIN history' : w > v}) >= Keep]_configVars
=============================================================================
