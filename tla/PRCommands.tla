----------------------------- MODULE PRCommands -----------------------------
(***************************************************************************)
(* Every front end and every background worker that acts on pull requests, *)
(* running at once: each takes its steps on its own copy of the record     *)
(* while the others change record, platform and queue.  The commands are   *)
(* those of RestCommands, ChatCommands and Housekeeping.                   *)
(***************************************************************************)
EXTENDS ChatCommands, Housekeeping, FiniteSets

CONSTANTS PRs, NoPR,          \* pull requests of one repo group, on one platform
          Users,              \* goroutines of users' commands and chores
          Poller,             \* the goroutine of the poller
          Singles,            \* Singles[a]: the commands for one PR that goroutine a may run
          Batches,            \* Batches[a]: those for several
          RequiredApprovals,  \* of the rule for automatic merges
          Starts,             \* records and platform states at the start
          Budget              \* bound: commands of each of the Users

AnyRecord == [state : States, approved : BOOLEAN, votes : Nat, draft : BOOLEAN, spam : BOOLEAN, conflict : BOOLEAN]
AnyRemote == [state : States \ {"spam"}, conflict : BOOLEAN]

\* What record r says of a PR has happened, if n approvals were given on the platform, which has
\* done what is in d, and somebody has asked to take it for spam or to queue it, or not.
Grounds(r, n, d, wanted) ==
  /\ r.approved => n > 0
  /\ r.votes <= n
  /\ r.state = "closed" => d # {}
  /\ r.state = "merged" => "merge" \in d
  /\ r.state = "spam" \/ r.spam => wanted

\* A record in state r agrees with a platform in state m, to which spam is a closed PR.
Matches(r, m) == IF r = "spam" THEN m = "closed" ELSE r = m

ASSUME CommandsAssumption ==
  /\ NoPR \notin PRs /\ Poller \notin Users
  /\ RequiredApprovals \in Nat /\ Budget \in Nat
  /\ \A a \in Users : Singles[a] \subseteq RestCommands \cup ChatCommands \cup Chores
                    /\ Batches[a] \subseteq RestBatches \cup ChatBatches
  /\ \A s \in Starts :
       /\ s.record \in [PRs -> AnyRecord] /\ s.remote \in [PRs -> AnyRemote] /\ s.queue \subseteq PRs
       /\ s.did \in [PRs -> SUBSET {"close", "merge"}] /\ s.approvals \in [PRs -> Nat]
       /\ \A p \in PRs : /\ Grounds(s.record[p], s.approvals[p], s.did[p], s.record[p].spam)
                         /\ s.remote[p].state = "closed" => s.did[p] # {}
                         /\ s.remote[p].state = "merged" => "merge" \in s.did[p]
                         /\ Matches(s.record[p].state, s.remote[p].state)

VARIABLES
  record,    \* record[p]: the PR record of p under its key
  remote,    \* remote[p]: p on the platform
  queue,     \* the PRs with an item in the merge queue
  strays,    \* the PRs with a record under the key of no repo group or platform
  strikes,   \* the spam count of the author of all PRs
  run,       \* run[a]: what goroutine a is doing
  budget,    \* budget[a]: commands left to goroutine a
  did,       \* did[p]: whether the platform closed and merged p
  approvals, \* approvals[p]: how many of them were approvals
  asked,     \* PRs somebody asked to queue or to mark as spam
  excused    \* PRs whose record may differ from the platform: see Alone

state   == <<record, remote, queue, strays, strikes>>
history == <<did, approvals, asked, excused>>
vars    == <<state, run, budget, history>>

Actors == Users \cup {Poller}

NoRecord == [state |-> "none", approved |-> FALSE, votes |-> 0, draft |-> FALSE,
             spam |-> FALSE, conflict |-> FALSE]
Opened   == [NoRecord EXCEPT !.state = "open"]

Idle == [pr |-> NoPR, todo |-> <<>>, cmd |-> <<>>, left |-> <<>>,
         copy |-> NoRecord, count |-> 0]
Busy(a) == run[a].pr # NoPR

-----------------------------------------------------------------------------
\* The next step, the next PR of the batch, or the end.
NextPR(r) ==
  IF r.left = <<>> THEN Idle
  ELSE [Idle EXCEPT !.pr = Head(r.left), !.todo = r.cmd, !.left = Tail(r.left),
                    !.cmd = IF Len(r.left) = 1 THEN <<>> ELSE r.cmd]
Onward(r) == IF Len(r.todo) > 1 THEN [r EXCEPT !.todo = Tail(r.todo)] ELSE NextPR(r)

Start(cmd, ps) == NextPR([Idle EXCEPT !.cmd = cmd, !.left = ps])

At(a, op) == Busy(a) /\ Head(run[a].todo).op = op
Goes(a)   == run' = [run EXCEPT ![a] = Onward(run[a])]
Takes(a, c) == run' = [run EXCEPT ![a] = Onward([run[a] EXCEPT !.copy = c])]
Quits(a)  == run' = [run EXCEPT ![a] = NextPR(run[a])]

\* A PR two goroutines work on at once, or on which a call failed, or on which a command
\* ran that is known to leave the record behind, is excused.
Others(a, p) == \E b \in Actors \ {a} : run[b].pr = p \/ \E i \in DOMAIN run[b].left : run[b].left[i] = p
Excuse(S) == excused' = excused \cup S

\* Commands that change the platform and not the record.
Silent == {RestReopen, RestBatchApprove, RestBatchMerge, AutoMerge, AutoClose,
           CommentApprove, CommentClose, CommentReopen, CommentMerge}

\* Commands of users who ask for the queue, or for a PR to be taken for spam.
Asking == {MarkReadyEnqueue, ScheduleMerge, CommentQueue, RestSpam, TelegramSpam,
           ButtonSpam, CommentSpam, SpamScan, OnSpam}

-----------------------------------------------------------------------------
Begins(a, cmd, ps) ==
  /\ ~Busy(a)
  /\ run' = [run EXCEPT ![a] = Start(cmd, ps)]
  /\ LET S == {ps[i] : i \in DOMAIN ps} IN
       /\ Excuse(IF cmd \in Silent THEN S ELSE {p \in S : Others(a, p)})
       /\ asked' = IF cmd \in Asking THEN asked \cup S ELSE asked
  /\ UNCHANGED <<state, did, approvals>>

Command(a) ==
  /\ budget[a] > 0 /\ budget' = [budget EXCEPT ![a] = @ - 1]
  /\ \E p \in PRs :
       /\ remote[p].state # "none"
       /\ \/ \E cmd \in Singles[a] : Begins(a, cmd, <<p>>)
          \/ \E cmd \in Batches[a], q \in PRs \ {p} : Begins(a, cmd, <<p, q>>)

Polls(p) == /\ remote[p].state # "none" /\ Begins(Poller, Poll, <<p>>)
            /\ UNCHANGED budget

-----------------------------------------------------------------------------
ReadStep(a) ==
  /\ At(a, "read")
  /\ LET r == record[run[a].pr] IN
       IF r.state \in Head(run[a].todo).in THEN Takes(a, r) ELSE Quits(a)
  /\ UNCHANGED <<state, budget, history>>

\* The platform knows neither drafts of MarkDraft nor votes.  An event of the poller may
\* have approval and flag of the record, one of a webhook has not.
Listed(p, kept) ==
  [NoRecord EXCEPT !.state = remote[p].state, !.conflict = remote[p].conflict,
                   !.approved = kept /\ record[p].approved,
                   !.spam = kept /\ record[p].spam]

ListStep(a) ==
  /\ At(a, "list")
  /\ LET p == run[a].pr IN
       IF remote[p].state \notin Head(run[a].todo).in THEN Quits(a)
       ELSE \E kept \in (IF a = Poller THEN {FALSE} ELSE BOOLEAN) : Takes(a, Listed(p, kept))
  /\ UNCHANGED <<state, budget, history>>

KeepStepWhateverState(a) ==
  /\ At(a, "keep")
  /\ LET r == record[run[a].pr] IN
       \/ Takes(a, [run[a].copy EXCEPT !.approved = r.approved, !.spam = r.spam])
       \/ r.state # "none" /\ Quits(a)
  /\ UNCHANGED <<state, budget, history>>

KeepStep(a) ==
  /\ At(a, "keep")
  /\ LET r == record[run[a].pr] IN
       \/ Takes(a, [run[a].copy EXCEPT !.approved = r.approved, !.spam = r.spam])
       \/ r.state = run[a].copy.state /\ Quits(a)
  /\ UNCHANGED <<state, budget, history>>

\* Where the platform accepts a call, and the state after it.
Accepts(c) == CASE c = "close"  -> {"open", "closed"}
                [] c = "reopen" -> {"closed"}
                [] c = "merge"  -> {"open"}
                [] c = "revert" -> {"merged"}
                [] OTHER        -> {"open", "closed", "merged"}
After(c, r) == CASE c = "close"  -> [r EXCEPT !.state = "closed"]
                 [] c = "reopen" -> [r EXCEPT !.state = "open"]
                 [] c = "merge"  -> [r EXCEPT !.state = "merged"]
                 [] c = "rebase" -> [r EXCEPT !.conflict = FALSE]
                 [] OTHER        -> r

CallStep(a) ==
  /\ At(a, "call") \/ At(a, "try")
  /\ LET p == run[a].pr   c == Head(run[a].todo).what IN
       /\ remote[p].state \in Accepts(c) /\ c # "revert"
       /\ remote' = [remote EXCEPT ![p] = After(c, @)]
       /\ did' = [did EXCEPT ![p] = @ \cup ({c} \cap {"close", "merge"})]
       /\ approvals' = [approvals EXCEPT ![p] = IF c = "approve" THEN @ + 1 ELSE @]
       /\ Takes(a, IF c = "rebase" THEN [run[a].copy EXCEPT !.conflict = FALSE] ELSE run[a].copy)
  /\ UNCHANGED <<record, queue, strays, strikes, budget, asked, excused>>

\* RevertPR opens a new PR, which the rest of the command is about.
RevertStep(a) ==
  /\ At(a, "call") /\ Head(run[a].todo).what = "revert"
  /\ remote[run[a].pr].state \in Accepts("revert")
  /\ \E q \in PRs :
       /\ remote[q].state = "none"
       /\ remote' = [remote EXCEPT ![q].state = "open"]
       /\ run' = [run EXCEPT ![a] = Onward([run[a] EXCEPT !.pr = q, !.copy = Opened])]
       /\ asked' = asked \cup {q}
       /\ Excuse({p \in {q} : Others(a, p)})
  /\ UNCHANGED <<record, queue, strays, strikes, budget, did, approvals>>

CallFails(a) ==
  /\ \/ At(a, "call") /\ Quits(a)
     \/ At(a, "try") /\ Goes(a)
  /\ Excuse({run[a].pr})
  /\ UNCHANGED <<state, budget, did, approvals, asked>>

\* GitHub answers that a merged PR is closed.
Answers(s) == IF s = "merged" THEN {"merged", "closed"} ELSE {s}

RefreshStep(a) ==
  /\ At(a, "refresh")
  /\ LET p == run[a].pr   c == run[a].copy   fallback == Head(run[a].todo).what IN
       \/ \E s \in Answers(remote[p].state) :
            Takes(a, IF fallback = "merged" THEN [c EXCEPT !.state = s]
                     ELSE [c EXCEPT !.state = s, !.draft = FALSE, !.conflict = remote[p].conflict])
       \/ Takes(a, IF fallback = "merged" THEN [c EXCEPT !.state = fallback] ELSE c)
  /\ UNCHANGED <<state, budget, history>>

SaveStep(a) ==
  /\ At(a, "save")
  /\ LET r == Changed(Head(run[a].todo).what, run[a].copy) IN
       /\ record' = [record EXCEPT ![run[a].pr] = r]
       /\ Takes(a, r)
  /\ UNCHANGED <<remote, queue, strays, strikes, budget, history>>

MisfileStep(a) ==
  /\ At(a, "misfile") /\ Goes(a)
  /\ strays' = strays \cup {run[a].pr}
  /\ UNCHANGED <<record, remote, queue, strikes, budget, history>>

Holds(a, test) ==
  LET c == run[a].copy   p == run[a].pr IN
  CASE test = "draft"      -> c.draft
    [] test = "notdraft"   -> ~c.draft
    [] test = "notspam"    -> ~c.spam
    [] test = "conflict"   -> c.conflict
    [] test = "noconflict" -> ~c.conflict
    [] test = "queued"     -> p \in queue
    [] test = "enough"     -> record[p].votes >= RequiredApprovals

OnlyStep(a) ==
  /\ At(a, "only")
  /\ IF Holds(a, Head(run[a].todo).what) THEN Goes(a) ELSE Quits(a)
  /\ UNCHANGED <<state, budget, history>>

\* AddToQueue turns drafts away, and every PR that is not open.
Queueable(r) == r.state = "open" /\ ~r.draft

QueueStep(a) ==
  /\ \/ /\ At(a, "enqueue")
        /\ queue' = IF Queueable(run[a].copy) THEN queue \cup {run[a].pr} ELSE queue
     \/ At(a, "dequeue") /\ queue' = queue \ {run[a].pr}
  /\ Goes(a)
  /\ UNCHANGED <<record, remote, strays, strikes, budget, history>>

ReadCountStep(a) ==
  /\ At(a, "readcount")
  /\ run' = [run EXCEPT ![a] = Onward([run[a] EXCEPT !.count = strikes])]
  /\ UNCHANGED <<state, budget, history>>

Counted(n) == n + 1
WriteCountStep(a) ==
  /\ At(a, "writecount") /\ Goes(a)
  /\ strikes' = Counted(run[a].count)
  /\ UNCHANGED <<record, remote, queue, strays, budget, history>>

Works(a) ==
  \/ ReadStep(a) \/ ListStep(a) \/ KeepStep(a) \/ CallStep(a) \/ RevertStep(a) \/ CallFails(a)
  \/ RefreshStep(a) \/ SaveStep(a) \/ MisfileStep(a) \/ OnlyStep(a) \/ QueueStep(a)
  \/ ReadCountStep(a) \/ WriteCountStep(a)

-----------------------------------------------------------------------------
Init ==
  /\ \E s \in Starts :
       /\ record = s.record /\ remote = s.remote /\ queue = s.queue
       /\ did = s.did /\ approvals = s.approvals
       /\ asked = s.queue \cup {p \in PRs : s.record[p].spam}
  /\ strays = {} /\ strikes = 0 /\ excused = {}
  /\ run = [a \in Actors |-> Idle]
  /\ budget = [a \in Users |-> Budget]

Next == \/ \E a \in Users : Command(a)
        \/ \E p \in PRs : Polls(p)
        \/ \E a \in Actors : Works(a)

\* Goroutines run on, and the ticker of the poller comes again: every poll lists every PR.
Fairness == /\ \A a \in Actors : WF_vars(Works(a))
            /\ \A p \in PRs : SF_vars(Polls(p))

Spec == Init /\ [][Next]_vars /\ Fairness

-----------------------------------------------------------------------------
\* What a record says of a PR has happened: it is approved, closed or merged only after
\* the platform has carried that out, has not more votes than approvals, is spam only if
\* somebody asked for it, and is queued only if it was approved or the queue was asked for.
ClaimsHaveGrounds ==
  \A p \in PRs : /\ Grounds(record[p], approvals[p], did[p], p \in asked)
                 /\ p \in queue => p \in asked \/ approvals[p] > 0

Agrees(p) == Matches(record[p].state, remote[p].state)

\* A command that has a PR for itself and no call of which fails leaves record and
\* platform in agreement, but for the commands known not to (Silent), and for a merged
\* PR that GitHub called closed.
Alone ==
  \A p \in PRs :
    p \notin excused \cup strays /\ (\A a \in Actors : ~Busy(a)) =>
      Agrees(p) \/ record[p].state \in Answers(remote[p].state)

\* Whatever commands and failures left behind, the poller puts the records right.
RecordsConverge == <>[](\A p \in PRs : Agrees(p))
=============================================================================
