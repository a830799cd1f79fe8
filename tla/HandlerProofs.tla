--------------------------- MODULE HandlerProofs ----------------------------
(****************************************************************************)
(* Proofs about what handles requests and events.  First PRCommands, for    *)
(* any pull requests, goroutines and choice of commands: ClaimsHaveGrounds  *)
(* holds because whatever a goroutine is still to claim has happened, or one*)
(* of its steps before that makes it happen (UnderWay); Alone holds because *)
(* every command, but those known to leave the record behind, has an        *)
(* outline: what it knows of record, copy and platform before each of its   *)
(* steps, and that both are near wherever it may end.                       *)
(* Then WorkerPool by itself, for every finite set of goroutines and every  *)
(* set of configurations, and EventConsumer over it, for every set of PRs,  *)
(* any number of events and Stops, and every pool.                          *)
(****************************************************************************)
EXTENDS PRCommands, EventConsumer, FiniteSetTheorems, SequenceTheorems, TLAPS

-----------------------------------------------------------------------------
\* Steps and commands

Nothing == ""
Changes == {"approved", "voted", "closed", "merged", "open", "spam", "draft", "ready", "event"}
Requests == {"approve", "close", "reopen", "merge", "rebase", "cherry-pick", "revert"}
Tests == {"draft", "notdraft", "notspam", "conflict", "noconflict", "queued", "enough"}
StepSet == [op : {"save"}, what : Changes, in : SUBSET States] \cup [op : {"call", "try"}, what : Requests, in : SUBSET States]
           \cup [op : {"only"}, what : Tests, in : SUBSET States] \cup [op : {"refresh"}, what : {Nothing, "merged"}, in : SUBSET States]
           \cup [op : {"read", "list", "keep", "enqueue", "dequeue", "misfile", "readcount", "writecount"}, what : {Nothing},
                in : SUBSET States]

Calls(x, c) == x.op = "call" /\ x.what = c
Saves(x, change) == x.op = "save" /\ x.what = change

\* Steps after which the platform has closed, or merged, the pull request.
Closes(x) == Calls(x, "close") \/ Calls(x, "merge") \/ (x.op = "list" /\ x.in \subseteq {"closed"})
Merges(x) == Calls(x, "merge") \/ (x.op = "list" /\ x.in \subseteq {"merged"})
SaysMerged(x) == Saves(x, "merged") \/ (x.op = "refresh" /\ x.what = "merged")

\* The steps s with the copy c are under way for a pull request with n approvals, to which the platform has done what is
\* in d, and which somebody wanted queued or taken for spam, or not: whatever a step is to claim has happened, or a step
\* before it makes it happen.
Approving(s, n) == \A i \in DOMAIN s : Saves(s[i], "approved") => n > 0 \/ \E h \in 1..(i - 1) : Calls(s[h], "approve")
Voting(s, c, n) == \A i \in DOMAIN s : Saves(s[i], "voted") => IF i = 1 THEN c.votes < n ELSE Calls(s[i - 1], "approve")
Closing(s, d)   == \A i \in DOMAIN s : Saves(s[i], "closed") => d # {} \/ \E h \in 1..(i - 1) : Closes(s[h])
Merging(s, d)   == \A i \in DOMAIN s : SaysMerged(s[i]) => "merge" \in d \/ \E h \in 1..(i - 1) : Merges(s[h])
Spamming(s, k)  == \A i \in DOMAIN s : Saves(s[i], "spam") => k
Queueing(s, n, k) == \A i \in DOMAIN s : s[i].op = "enqueue" =>
                       k \/ n > 0 \/ \E h \in 1..(i - 1) : Calls(s[h], "approve") \/ Calls(s[h], "revert")
Reverting(s) == \A h, i \in DOMAIN s : h < i /\ Calls(s[h], "revert") =>
                  s[i].op \in {"misfile", "enqueue"} \/ Saves(s[i], "open") \/ Saves(s[i], "event")

UnderWay(s, c, n, d, k) ==
  /\ Grounds(c, n, d, k) /\ Approving(s, n) /\ Voting(s, c, n) /\ Closing(s, d) /\ Merging(s, d) /\ Spamming(s, k)
  /\ Queueing(s, n, k) /\ Reverting(s)

\* Steps that claim no more than that somebody wanted something, and those that claim nothing.
Mild == {x \in StepSet : /\ x.op = "save" => x.what \notin {"approved", "voted", "closed", "merged"}
                         /\ x.op = "refresh" => x.what # "merged"
                         /\ x.op = "call" => x.what # "revert"}
Quiet == {x \in Mild : x.op # "enqueue" /\ ~Saves(x, "spam")}

\* The empty copy a command begins with claims nothing.
LEMMA NothingClaimed == NoRecord \in AnyRecord /\ \A n \in Nat : \A d, k : Grounds(NoRecord, n, d, k)
BY DEF NoRecord, AnyRecord, States, Grounds

\* A command of mild steps is under way for whoever asked for the queue or for spam, and one of quiet steps for anybody.
LEMMA MildUnderWay ==
  ASSUME NEW s \in Seq(Mild), NEW k \in BOOLEAN, k \/ s \in Seq(Quiet)
  PROVE  UnderWay(s, NoRecord, 0, {}, k)
<1>1. \A i \in DOMAIN s : s[i] \in Mild
  BY ElementOfSeq, LenProperties
<1>2. k \/ \A i \in DOMAIN s : s[i] \in Quiet
  BY ElementOfSeq, LenProperties
<1>3. \A i \in DOMAIN s : ~Saves(s[i], "approved") /\ ~Saves(s[i], "voted") /\ ~Saves(s[i], "closed") /\ ~SaysMerged(s[i])
                          /\ ~Calls(s[i], "revert")
  BY <1>1 DEF Mild, Saves, SaysMerged, Calls
<1>4. k \/ \A i \in DOMAIN s : ~Saves(s[i], "spam") /\ s[i].op # "enqueue"
  BY <1>2 DEF Quiet
<1>5. Grounds(NoRecord, 0, {}, k)
  BY DEF NoRecord, Grounds
<1> QED
  BY <1>3, <1>4, <1>5 DEF UnderWay, Approving, Voting, Closing, Merging, Spamming, Queueing, Reverting

\* Where the steps commands are made of belong.
LEMMA StepsAre ==
  /\ \A S \in SUBSET States : Read(S) \in Quiet /\ List(S) \in Quiet
  /\ \A c \in Requests \ {"revert"} : Call(c) \in Quiet /\ Try(c) \in Quiet
  /\ \A c \in {"open", "draft", "ready", "event"} : Save(c) \in Quiet
  /\ \A t \in Tests : Only(t) \in Quiet
  /\ {Keep, Refresh, Dequeue, Misfile, ReadCount, WriteCount} \subseteq Quiet
  /\ Save("spam") \in Mild /\ Enqueue \in Mild /\ Quiet \subseteq Mild
  /\ Call("revert") \in StepSet /\ Outcome \in StepSet /\ Mild \subseteq StepSet
  /\ \A c \in {"approved", "voted", "closed", "merged"} : Save(c) \in StepSet
<1>1. \A S \in SUBSET States : Read(S) \in Quiet /\ List(S) \in Quiet
  BY DEF Quiet, Mild, StepSet, Nothing, Saves, Step, Read, List
<1>2. \A c \in Requests \ {"revert"} : Call(c) \in Quiet /\ Try(c) \in Quiet
  BY DEF Quiet, Mild, StepSet, Nothing, Saves, Step, Call, Try
<1>3. \A c \in {"open", "draft", "ready", "event"} : Save(c) \in Quiet
  BY DEF Quiet, Mild, StepSet, Nothing, Saves, Step, Save, Changes
<1>4. \A t \in Tests : Only(t) \in Quiet
  BY DEF Quiet, Mild, StepSet, Nothing, Saves, Step, Only
<1>5. Keep \in Quiet /\ Refresh \in Quiet /\ Dequeue \in Quiet
  BY DEF Quiet, Mild, StepSet, Nothing, Saves, Step, Keep, Refresh, Dequeue
<1>6. Misfile \in Quiet /\ ReadCount \in Quiet /\ WriteCount \in Quiet
  BY DEF Quiet, Mild, StepSet, Nothing, Saves, Step, Misfile, ReadCount, WriteCount
<1>7. Save("spam") \in Mild /\ Enqueue \in Mild
  BY DEF Mild, StepSet, Nothing, Step, Save, Enqueue, Changes
<1>8. Quiet \subseteq Mild /\ Mild \subseteq StepSet
  BY DEF Quiet, Mild
<1>9. Call("revert") \in StepSet /\ Outcome \in StepSet
  BY DEF StepSet, Nothing, Step, Call, Outcome, Requests
<1>10. \A c \in {"approved", "voted", "closed", "merged"} : Save(c) \in StepSet
  BY DEF StepSet, Nothing, Step, Save, Changes
<1> QED
  BY <1>1, <1>2, <1>3, <1>4, <1>5, <1>6, <1>7, <1>8, <1>9, <1>10, Zenon

LEMMA StatesAre == AnyState \subseteq States /\ NotMerged \subseteq States /\ AnyState \ {"merged"} \subseteq States
                   /\ {"open"} \subseteq States /\ {"closed"} \subseteq States /\ {"merged"} \subseteq States
                   /\ {"open", "spam"} \subseteq States /\ {"closed", "spam"} \subseteq States
BY DEF AnyState, NotMerged, States

LEMMA QuietMore == Seq(Quiet) \subseteq Seq(Mild) /\ Seq(Mild) \subseteq Seq(StepSet)
<1>1. Quiet \subseteq Mild /\ Mild \subseteq StepSet
  BY StepsAre
<1> QED
  BY <1>1

\* The commands that claim nothing.
LEMMA QuietCommands ==
  /\ {RestReopen, RestBatchApprove, RestBatchMerge, RestBatchRebase, RestRebase, RestRebaseQueue, RestCherryPick,
      MarkReady, MarkDraft, RemoveFromQueue, ClearQueue, ForwardedRebase, ButtonClose, SlackCherryPick, CommentApprove,
      CommentClose, CommentReopen, CommentMerge, OnOpened, OnReopened, OnLabeled, OnChangesRequested, AutoMerge, AutoClose,
      AutoRebase, Poll}
       \subseteq Seq(Quiet) \ {<<>>}
  /\ \A S \in SUBSET States : Reopen(S) \in Seq(Quiet) \ {<<>>}
<1> DEFINE Q == Quiet
<1>1. /\ \A S \in SUBSET States : Read(S) \in Q /\ List(S) \in Q
      /\ \A c \in {"approve", "close", "reopen", "merge", "rebase", "cherry-pick"} : Call(c) \in Q /\ Try(c) \in Q
      /\ \A c \in {"open", "draft", "ready", "event"} : Save(c) \in Q
      /\ \A t \in {"draft", "notdraft", "notspam", "conflict", "noconflict", "queued", "enough"} : Only(t) \in Q
      /\ {Keep, Refresh, Dequeue, Misfile, ReadCount, WriteCount} \subseteq Q
  BY StepsAre DEF Requests, Tests
<1> HIDE DEF Q
<1>2. {RestReopen, RestBatchApprove, RestBatchMerge, RestBatchRebase} \subseteq Seq(Q) \ {<<>>}
  BY <1>1, StatesAre DEF RestReopen, RestBatchApprove, RestBatchMerge, RestBatchRebase
<1>3. {RestRebase, RestCherryPick, MarkReady, MarkDraft, RemoveFromQueue, ClearQueue, ButtonClose} \subseteq Seq(Q) \ {<<>>}
  BY <1>1, StatesAre DEF RestRebase, RestCherryPick, MarkReady, MarkDraft, RemoveFromQueue, ClearQueue, ButtonClose
<1>4. {CommentApprove, CommentClose, CommentReopen, CommentMerge, OnOpened, OnReopened, OnLabeled, OnChangesRequested}
         \subseteq Seq(Q) \ {<<>>}
  BY <1>1, StatesAre DEF CommentApprove, CommentClose, CommentReopen, CommentMerge, OnOpened, OnReopened, OnLabeled,
                         OnChangesRequested
<1>5. {AutoMerge, AutoClose, AutoRebase, Poll} \subseteq Seq(Q) \ {<<>>}
  BY <1>1, StatesAre DEF AutoMerge, AutoClose, AutoRebase, Poll
<1>6. ASSUME NEW x \in Q, NEW s \in Seq(Q) PROVE <<x>> \o s \in Seq(Q) \ {<<>>}
  <2>1. <<x>> \in Seq(Q) /\ Len(<<x>>) = 1
    OBVIOUS
  <2>2. <<x>> \o s \in Seq(Q) /\ Len(<<x>> \o s) = 1 + Len(s) /\ Len(s) \in Nat
    BY <2>1, ConcatProperties, LenProperties
  <2>3. Len(<<x>> \o s) # 0
    BY <2>2
  <2> QED
    BY <2>2, <2>3, EmptySeq
<1>7. {RestRebaseQueue, ForwardedRebase, SlackCherryPick} \subseteq Seq(Q) \ {<<>>}
  BY <1>1, <1>3, <1>6, StatesAre DEF RestRebaseQueue, ForwardedRebase, SlackCherryPick
<1>8. \A S \in SUBSET States : Reopen(S) \in Seq(Q) \ {<<>>}
  BY <1>1 DEF Reopen
<1> QED
  BY <1>2, <1>3, <1>4, <1>5, <1>7, <1>8 DEF Q

\* A command that queues or marks as spam is one that somebody gave to that end.
LEMMA AskingCommands == Asking \subseteq Seq(Mild) \ {<<>>}
<1> DEFINE M == Mild
<1>1. /\ \A S \in SUBSET States : Read(S) \in M /\ List(S) \in M
      /\ Try("close") \in M /\ Call("close") \in M /\ Save("spam") \in M /\ Save("ready") \in M /\ Only("draft") \in M
      /\ Only("notspam") \in M /\ {Dequeue, ReadCount, WriteCount, Enqueue} \subseteq M
  BY StepsAre DEF Requests, Tests
<1> HIDE DEF M
<1>2. /\ <<Read(AnyState), Call("close"), Dequeue, Save("spam")>> \in Seq(M)
      /\ \A S \in SUBSET States : <<Read(S), Save("spam")>> \in Seq(M)
      /\ Count \in Seq(M) /\ <<Try("close")>> \in Seq(M) /\ MarkReady \in Seq(M) /\ <<Enqueue>> \in Seq(M)
      /\ <<Read(AnyState), Only("notspam")>> \in Seq(M) /\ HandleSpam \in Seq(M)
      /\ <<List(AnyState), Save("spam")>> \in Seq(M)
  BY <1>1, StatesAre DEF Count, MarkReady, HandleSpam
<1>3. /\ Len(<<Read(AnyState), Call("close"), Dequeue, Save("spam")>>) = 4
      /\ \A S : Len(<<Read(S), Save("spam")>>) = 2
      /\ Len(MarkReady) = 3 /\ Len(<<Read(AnyState), Only("notspam")>>) = 2
      /\ Len(<<List(AnyState), Save("spam")>>) = 2
  BY DEF MarkReady
<1>4. ASSUME NEW s \in Seq(M), NEW t \in Seq(M), Len(s) > 0 PROVE s \o t \in Seq(M) \ {<<>>} /\ Len(s \o t) > 0
  <2>1. s \o t \in Seq(M) /\ Len(s \o t) = Len(s) + Len(t) /\ Len(t) \in Nat
    BY ConcatProperties, LenProperties
  <2>2. Len(s \o t) # 0
    BY <2>1, <1>4
  <2> QED
    BY <2>1, <2>2, <1>4, EmptySeq
<1>5. RestSpam \in Seq(M) \ {<<>>} /\ MarkReadyEnqueue \in Seq(M) \ {<<>>}
  BY <1>2, <1>3, <1>4 DEF RestSpam, MarkReadyEnqueue
<1>6. SpamScan \in Seq(M) \ {<<>>} /\ OnSpam \in Seq(M) \ {<<>>}
  BY <1>2, <1>3, <1>4 DEF SpamScan, OnSpam
<1>7. ASSUME NEW S \in SUBSET States PROVE Spam(S) \in Seq(M) \ {<<>>}
  <2> DEFINE s == <<Read(S), Save("spam")>>
  <2>1. s \in Seq(M) /\ Len(s) > 0 /\ Count \in Seq(M) /\ <<Try("close")>> \in Seq(M)
    BY <1>2, <1>3
  <2> HIDE DEF s
  <2>2. s \o Count \in Seq(M) /\ Len(s \o Count) > 0
    BY <2>1, <1>4
  <2>3. (s \o Count) \o <<Try("close")>> \in Seq(M) \ {<<>>}
    BY <2>1, <2>2, <1>4
  <2> QED
    BY <2>3 DEF s, Spam
<1>8. {ScheduleMerge, CommentQueue, CommentSpam} \subseteq Seq(M) \ {<<>>}
  BY <1>1, StatesAre DEF ScheduleMerge, CommentQueue, CommentSpam
<1>9. TelegramSpam \in Seq(M) \ {<<>>} /\ ButtonSpam \in Seq(M) \ {<<>>}
  BY <1>7, StatesAre DEF TelegramSpam, ButtonSpam
<1> QED
  BY <1>5, <1>6, <1>8, <1>9 DEF M, Asking

\* Those that claim an approval, a close or a merge bring it about first; what a revert opens is queued.
LEMMA ApproveUnderWay ==
  ASSUME NEW S \in SUBSET States, NEW c \in {"approved", "voted"}
  PROVE  Approve(S, c) \in Seq(StepSet) \ {<<>>} /\ UnderWay(Approve(S, c), NoRecord, 0, {}, FALSE)
<1> DEFINE s == Approve(S, c)
<1>1. Read(S) \in StepSet /\ Call("approve") \in StepSet /\ Save(c) \in StepSet /\ Enqueue \in StepSet
  BY StepsAre DEF Requests
<1>2. s \in Seq(StepSet) /\ s # <<>>
  BY <1>1 DEF Approve
<1>3. DOMAIN s = 1..4 /\ s[1] = Read(S) /\ s[2] = Call("approve") /\ s[3] = Save(c) /\ s[4] = Enqueue
  BY DEF Approve
<1> HIDE DEF s
<1>4. /\ Read(S).op = "read" /\ Call("approve").op = "call" /\ Save(c).op = "save" /\ Enqueue.op = "enqueue"
      /\ Call("approve").what = "approve" /\ Save(c).what = c
  BY DEF Step, Read, Call, Save, Enqueue
<1>. /\ s[1].op = "read" /\ s[2].op = "call" /\ s[3].op = "save" /\ s[4].op = "enqueue"
     /\ s[2].what = "approve" /\ s[3].what = c
  BY <1>3, <1>4
<1>5. \A i \in DOMAIN s : i = 1 \/ i = 2 \/ i = 3 \/ i = 4
  BY <1>3
<1>6. Approving(s, 0) /\ Voting(s, NoRecord, 0)
  BY <1>5 DEF Approving, Voting, Saves, Calls
<1>7. Closing(s, {}) /\ Merging(s, {}) /\ Spamming(s, FALSE)
  BY <1>5 DEF Closing, Merging, Spamming, SaysMerged, Saves, Calls
<1>8. Queueing(s, 0, FALSE) /\ Reverting(s)
  BY <1>5 DEF Queueing, Reverting, Saves, Calls
<1>9. Grounds(NoRecord, 0, {}, FALSE)
  BY NothingClaimed
<1> QED
  BY <1>2, <1>6, <1>7, <1>8, <1>9 DEF UnderWay, s

\* The commands that claim something, one by one: what makes each of their claims happen is a step before it.
LEMMA RestApproveUnderWay ==
  RestApprove \in Seq(StepSet) \ {<<>>} /\ UnderWay(RestApprove, NoRecord, 0, {}, FALSE)
<1> DEFINE s == RestApprove
<1>1. /\ Read(AnyState) \in StepSet /\ Call("approve") \in StepSet /\ Refresh \in StepSet
      /\ Save("approved") \in StepSet /\ Enqueue \in StepSet
  BY StepsAre, StatesAre DEF Requests, Tests
<1>2. s \in Seq(StepSet) /\ s # <<>>
  BY <1>1 DEF RestApprove
<1>0. DOMAIN s = 1..5
  BY DEF RestApprove
<1>3. /\ s[1] = Read(AnyState) /\ s[2] = Call("approve") /\ s[3] = Refresh /\ s[4] = Save("approved")
      /\ s[5] = Enqueue
  BY DEF RestApprove
<1> HIDE DEF s
<1>4. /\ Read(AnyState).op = "read" /\ Call("approve").op = "call" /\ Refresh.op = "refresh"
      /\ Save("approved").op = "save" /\ Enqueue.op = "enqueue" /\ Call("approve").what = "approve"
      /\ Refresh.what # "merged" /\ Save("approved").what = "approved"
  BY DEF Step, Read, Call, Refresh, Save, Enqueue
<1>. /\ s[1].op = "read" /\ s[2].op = "call" /\ s[3].op = "refresh" /\ s[4].op = "save" /\ s[5].op = "enqueue"
     /\ s[2].what = "approve" /\ s[3].what # "merged" /\ s[4].what = "approved"
  BY <1>3, <1>4
<1>5. \A i \in DOMAIN s : i = 1 \/ i = 2 \/ i = 3 \/ i = 4 \/ i = 5
  BY <1>0
<1>6. Approving(s, 0) /\ Voting(s, NoRecord, 0) /\ Spamming(s, FALSE)
  BY <1>5 DEF Approving, Voting, Spamming, Saves, Calls, NoRecord
<1>c. Closing(s, {})
  BY <1>5 DEF Closing, Saves
<1>f. Merging(s, {})
  BY <1>5 DEF Merging, SaysMerged, Saves
<1>8. Queueing(s, 0, FALSE) /\ Reverting(s)
  BY <1>5 DEF Queueing, Reverting, Saves, Calls
<1>9. Grounds(NoRecord, 0, {}, FALSE)
  BY NothingClaimed
<1> QED
  BY <1>2, <1>6, <1>c, <1>f, <1>8, <1>9 DEF UnderWay, s

LEMMA BatchApproveUnderWay ==
  DiscordBatchApprove \in Seq(StepSet) \ {<<>>} /\ UnderWay(DiscordBatchApprove, NoRecord, 0, {}, FALSE)
<1> DEFINE s == DiscordBatchApprove
<1>1. Read(AnyState) \in StepSet /\ Call("approve") \in StepSet /\ Save("voted") \in StepSet
  BY StepsAre, StatesAre DEF Requests, Tests
<1>2. s \in Seq(StepSet) /\ s # <<>>
  BY <1>1 DEF DiscordBatchApprove
<1>0. DOMAIN s = 1..3
  BY DEF DiscordBatchApprove
<1>3. s[1] = Read(AnyState) /\ s[2] = Call("approve") /\ s[3] = Save("voted")
  BY DEF DiscordBatchApprove
<1> HIDE DEF s
<1>4. /\ Read(AnyState).op = "read" /\ Call("approve").op = "call" /\ Save("voted").op = "save"
      /\ Call("approve").what = "approve" /\ Save("voted").what = "voted"
  BY DEF Step, Read, Call, Save
<1>. s[1].op = "read" /\ s[2].op = "call" /\ s[3].op = "save" /\ s[2].what = "approve" /\ s[3].what = "voted"
  BY <1>3, <1>4
<1>5. \A i \in DOMAIN s : i = 1 \/ i = 2 \/ i = 3
  BY <1>0
<1>6. Approving(s, 0) /\ Voting(s, NoRecord, 0) /\ Spamming(s, FALSE)
  BY <1>5 DEF Approving, Voting, Spamming, Saves, Calls, NoRecord
<1>c. Closing(s, {})
  BY <1>5 DEF Closing, Saves
<1>f. Merging(s, {})
  BY <1>5 DEF Merging, SaysMerged, Saves
<1>8. Queueing(s, 0, FALSE) /\ Reverting(s)
  BY <1>5 DEF Queueing, Reverting, Saves, Calls
<1>9. Grounds(NoRecord, 0, {}, FALSE)
  BY NothingClaimed
<1> QED
  BY <1>2, <1>6, <1>c, <1>f, <1>8, <1>9 DEF UnderWay, s

LEMMA CloseUnderWay ==
  ASSUME NEW S \in SUBSET States
  PROVE  Close(S) \in Seq(StepSet) \ {<<>>} /\ UnderWay(Close(S), NoRecord, 0, {}, FALSE)
<1> DEFINE s == Close(S)
<1>1. Read(S) \in StepSet /\ Call("close") \in StepSet /\ Save("closed") \in StepSet
  BY StepsAre, StatesAre DEF Requests, Tests
<1>2. s \in Seq(StepSet) /\ s # <<>>
  BY <1>1 DEF Close
<1>0. DOMAIN s = 1..3
  BY DEF Close
<1>3. s[1] = Read(S) /\ s[2] = Call("close") /\ s[3] = Save("closed")
  BY DEF Close
<1> HIDE DEF s
<1>4. /\ Read(S).op = "read" /\ Call("close").op = "call" /\ Save("closed").op = "save"
      /\ Call("close").what = "close" /\ Save("closed").what = "closed"
  BY DEF Step, Read, Call, Save
<1>. s[1].op = "read" /\ s[2].op = "call" /\ s[3].op = "save" /\ s[2].what = "close" /\ s[3].what = "closed"
  BY <1>3, <1>4
<1>5. \A i \in DOMAIN s : i = 1 \/ i = 2 \/ i = 3
  BY <1>0
<1>6. Approving(s, 0) /\ Voting(s, NoRecord, 0) /\ Spamming(s, FALSE)
  BY <1>5 DEF Approving, Voting, Spamming, Saves, Calls, NoRecord
<1>a. Closes(s[2])
  BY DEF Closes, Calls
<1>b. \A i \in DOMAIN s : Saves(s[i], "closed") => i = 3
  BY <1>5 DEF Saves
<1>c. Closing(s, {})
  BY <1>a, <1>b DEF Closing
<1>f. Merging(s, {})
  BY <1>5 DEF Merging, SaysMerged, Saves
<1>8. Queueing(s, 0, FALSE) /\ Reverting(s)
  BY <1>5 DEF Queueing, Reverting, Saves, Calls
<1>9. Grounds(NoRecord, 0, {}, FALSE)
  BY NothingClaimed
<1> QED
  BY <1>2, <1>6, <1>c, <1>f, <1>8, <1>9 DEF UnderWay, s

LEMMA RestCloseUnderWay ==
  RestClose \in Seq(StepSet) \ {<<>>} /\ UnderWay(RestClose, NoRecord, 0, {}, FALSE)
<1> DEFINE s == RestClose
<1>1. /\ Read(AnyState) \in StepSet /\ Call("close") \in StepSet /\ Save("closed") \in StepSet
      /\ Dequeue \in StepSet
  BY StepsAre, StatesAre DEF Requests, Tests
<1>2. s \in Seq(StepSet) /\ s # <<>>
  BY <1>1 DEF RestClose
<1>0. DOMAIN s = 1..4
  BY DEF RestClose
<1>3. s[1] = Read(AnyState) /\ s[2] = Call("close") /\ s[3] = Save("closed") /\ s[4] = Dequeue
  BY DEF RestClose
<1> HIDE DEF s
<1>4. /\ Read(AnyState).op = "read" /\ Call("close").op = "call" /\ Save("closed").op = "save"
      /\ Dequeue.op = "dequeue" /\ Call("close").what = "close" /\ Save("closed").what = "closed"
  BY DEF Step, Read, Call, Save, Dequeue
<1>. /\ s[1].op = "read" /\ s[2].op = "call" /\ s[3].op = "save" /\ s[4].op = "dequeue" /\ s[2].what = "close"
     /\ s[3].what = "closed"
  BY <1>3, <1>4
<1>5. \A i \in DOMAIN s : i = 1 \/ i = 2 \/ i = 3 \/ i = 4
  BY <1>0
<1>6. Approving(s, 0) /\ Voting(s, NoRecord, 0) /\ Spamming(s, FALSE)
  BY <1>5 DEF Approving, Voting, Spamming, Saves, Calls, NoRecord
<1>a. Closes(s[2])
  BY DEF Closes, Calls
<1>b. \A i \in DOMAIN s : Saves(s[i], "closed") => i = 3
  BY <1>5 DEF Saves
<1>c. Closing(s, {})
  BY <1>a, <1>b DEF Closing
<1>f. Merging(s, {})
  BY <1>5 DEF Merging, SaysMerged, Saves
<1>8. Queueing(s, 0, FALSE) /\ Reverting(s)
  BY <1>5 DEF Queueing, Reverting, Saves, Calls
<1>9. Grounds(NoRecord, 0, {}, FALSE)
  BY NothingClaimed
<1> QED
  BY <1>2, <1>6, <1>c, <1>f, <1>8, <1>9 DEF UnderWay, s

LEMMA BatchCloseUnderWay ==
  RestBatchClose \in Seq(StepSet) \ {<<>>} /\ UnderWay(RestBatchClose, NoRecord, 0, {}, FALSE)
<1> DEFINE s == RestBatchClose
<1>1. Call("close") \in StepSet /\ Read(AnyState) \in StepSet /\ Save("closed") \in StepSet
  BY StepsAre, StatesAre DEF Requests, Tests
<1>2. s \in Seq(StepSet) /\ s # <<>>
  BY <1>1 DEF RestBatchClose
<1>0. DOMAIN s = 1..3
  BY DEF RestBatchClose
<1>3. s[1] = Call("close") /\ s[2] = Read(AnyState) /\ s[3] = Save("closed")
  BY DEF RestBatchClose
<1> HIDE DEF s
<1>4. /\ Call("close").op = "call" /\ Read(AnyState).op = "read" /\ Save("closed").op = "save"
      /\ Call("close").what = "close" /\ Save("closed").what = "closed"
  BY DEF Step, Call, Read, Save
<1>. s[1].op = "call" /\ s[2].op = "read" /\ s[3].op = "save" /\ s[1].what = "close" /\ s[3].what = "closed"
  BY <1>3, <1>4
<1>5. \A i \in DOMAIN s : i = 1 \/ i = 2 \/ i = 3
  BY <1>0
<1>6. Approving(s, 0) /\ Voting(s, NoRecord, 0) /\ Spamming(s, FALSE)
  BY <1>5 DEF Approving, Voting, Spamming, Saves, Calls, NoRecord
<1>a. Closes(s[1])
  BY DEF Closes, Calls
<1>b. \A i \in DOMAIN s : Saves(s[i], "closed") => i = 3
  BY <1>5 DEF Saves
<1>c. Closing(s, {})
  BY <1>a, <1>b DEF Closing
<1>f. Merging(s, {})
  BY <1>5 DEF Merging, SaysMerged, Saves
<1>8. Queueing(s, 0, FALSE) /\ Reverting(s)
  BY <1>5 DEF Queueing, Reverting, Saves, Calls
<1>9. Grounds(NoRecord, 0, {}, FALSE)
  BY NothingClaimed
<1> QED
  BY <1>2, <1>6, <1>c, <1>f, <1>8, <1>9 DEF UnderWay, s

LEMMA RestRevertUnderWay ==
  RestRevert \in Seq(StepSet) \ {<<>>} /\ UnderWay(RestRevert, NoRecord, 0, {}, FALSE)
<1> DEFINE s == RestRevert
<1>1. /\ Read({"merged"}) \in StepSet /\ Call("revert") \in StepSet /\ Save("open") \in StepSet
      /\ Enqueue \in StepSet
  BY StepsAre, StatesAre DEF Requests, Tests
<1>2. s \in Seq(StepSet) /\ s # <<>>
  BY <1>1 DEF RestRevert
<1>0. DOMAIN s = 1..4
  BY DEF RestRevert
<1>3. s[1] = Read({"merged"}) /\ s[2] = Call("revert") /\ s[3] = Save("open") /\ s[4] = Enqueue
  BY DEF RestRevert
<1> HIDE DEF s
<1>4. /\ Read({"merged"}).op = "read" /\ Call("revert").op = "call" /\ Save("open").op = "save"
      /\ Enqueue.op = "enqueue" /\ Call("revert").what = "revert" /\ Save("open").what = "open"
  BY DEF Step, Read, Call, Save, Enqueue
<1>. /\ s[1].op = "read" /\ s[2].op = "call" /\ s[3].op = "save" /\ s[4].op = "enqueue" /\ s[2].what = "revert"
     /\ s[3].what = "open"
  BY <1>3, <1>4
<1>5. \A i \in DOMAIN s : i = 1 \/ i = 2 \/ i = 3 \/ i = 4
  BY <1>0
<1>6. Approving(s, 0) /\ Voting(s, NoRecord, 0) /\ Spamming(s, FALSE)
  BY <1>5 DEF Approving, Voting, Spamming, Saves, Calls, NoRecord
<1>c. Closing(s, {})
  BY <1>5 DEF Closing, Saves
<1>f. Merging(s, {})
  BY <1>5 DEF Merging, SaysMerged, Saves
<1>8. Queueing(s, 0, FALSE) /\ Reverting(s)
  BY <1>5 DEF Queueing, Reverting, Saves, Calls
<1>9. Grounds(NoRecord, 0, {}, FALSE)
  BY NothingClaimed
<1> QED
  BY <1>2, <1>6, <1>c, <1>f, <1>8, <1>9 DEF UnderWay, s

LEMMA MisfiledUnderWay ==
  RevertMisfiled \in Seq(StepSet) \ {<<>>} /\ UnderWay(RevertMisfiled, NoRecord, 0, {}, FALSE)
<1> DEFINE s == RevertMisfiled
<1>1. Read({"merged"}) \in StepSet /\ Call("revert") \in StepSet /\ Misfile \in StepSet
  BY StepsAre, StatesAre DEF Requests, Tests
<1>2. s \in Seq(StepSet) /\ s # <<>>
  BY <1>1 DEF RevertMisfiled
<1>0. DOMAIN s = 1..3
  BY DEF RevertMisfiled
<1>3. s[1] = Read({"merged"}) /\ s[2] = Call("revert") /\ s[3] = Misfile
  BY DEF RevertMisfiled
<1> HIDE DEF s
<1>4. /\ Read({"merged"}).op = "read" /\ Call("revert").op = "call" /\ Misfile.op = "misfile"
      /\ Call("revert").what = "revert"
  BY DEF Step, Read, Call, Misfile
<1>. s[1].op = "read" /\ s[2].op = "call" /\ s[3].op = "misfile" /\ s[2].what = "revert"
  BY <1>3, <1>4
<1>5. \A i \in DOMAIN s : i = 1 \/ i = 2 \/ i = 3
  BY <1>0
<1>6. Approving(s, 0) /\ Voting(s, NoRecord, 0) /\ Spamming(s, FALSE)
  BY <1>5 DEF Approving, Voting, Spamming, Saves, Calls, NoRecord
<1>c. Closing(s, {})
  BY <1>5 DEF Closing, Saves
<1>f. Merging(s, {})
  BY <1>5 DEF Merging, SaysMerged, Saves
<1>8. Queueing(s, 0, FALSE) /\ Reverting(s)
  BY <1>5 DEF Queueing, Reverting, Saves, Calls
<1>9. Grounds(NoRecord, 0, {}, FALSE)
  BY NothingClaimed
<1> QED
  BY <1>2, <1>6, <1>c, <1>f, <1>8, <1>9 DEF UnderWay, s

LEMMA FiledUnderWay ==
  RevertFiled \in Seq(StepSet) \ {<<>>} /\ UnderWay(RevertFiled, NoRecord, 0, {}, FALSE)
<1> DEFINE s == RevertFiled
<1>1. /\ Read({"merged"}) \in StepSet /\ Call("revert") \in StepSet /\ Save("event") \in StepSet
      /\ Enqueue \in StepSet
  BY StepsAre, StatesAre DEF Requests, Tests
<1>2. s \in Seq(StepSet) /\ s # <<>>
  BY <1>1 DEF RevertFiled
<1>0. DOMAIN s = 1..4
  BY DEF RevertFiled
<1>3. s[1] = Read({"merged"}) /\ s[2] = Call("revert") /\ s[3] = Save("event") /\ s[4] = Enqueue
  BY DEF RevertFiled
<1> HIDE DEF s
<1>4. /\ Read({"merged"}).op = "read" /\ Call("revert").op = "call" /\ Save("event").op = "save"
      /\ Enqueue.op = "enqueue" /\ Call("revert").what = "revert" /\ Save("event").what = "event"
  BY DEF Step, Read, Call, Save, Enqueue
<1>. /\ s[1].op = "read" /\ s[2].op = "call" /\ s[3].op = "save" /\ s[4].op = "enqueue" /\ s[2].what = "revert"
     /\ s[3].what = "event"
  BY <1>3, <1>4
<1>5. \A i \in DOMAIN s : i = 1 \/ i = 2 \/ i = 3 \/ i = 4
  BY <1>0
<1>6. Approving(s, 0) /\ Voting(s, NoRecord, 0) /\ Spamming(s, FALSE)
  BY <1>5 DEF Approving, Voting, Spamming, Saves, Calls, NoRecord
<1>c. Closing(s, {})
  BY <1>5 DEF Closing, Saves
<1>f. Merging(s, {})
  BY <1>5 DEF Merging, SaysMerged, Saves
<1>8. Queueing(s, 0, FALSE) /\ Reverting(s)
  BY <1>5 DEF Queueing, Reverting, Saves, Calls
<1>9. Grounds(NoRecord, 0, {}, FALSE)
  BY NothingClaimed
<1> QED
  BY <1>2, <1>6, <1>c, <1>f, <1>8, <1>9 DEF UnderWay, s

LEMMA QueueMergeUnderWay ==
  QueueMerge \in Seq(StepSet) \ {<<>>} /\ UnderWay(QueueMerge, NoRecord, 0, {}, FALSE)
<1> DEFINE s == QueueMerge
<1>1. /\ Only("queued") \in StepSet /\ Read({"open"}) \in StepSet /\ Only("notdraft") \in StepSet
      /\ Call("merge") \in StepSet /\ Outcome \in StepSet /\ Save("event") \in StepSet /\ Dequeue \in StepSet
  BY StepsAre, StatesAre DEF Requests, Tests
<1>2. s \in Seq(StepSet) /\ s # <<>>
  BY <1>1 DEF QueueMerge
<1>0. DOMAIN s = 1..7
  BY DEF QueueMerge
<1>3. /\ s[1] = Only("queued") /\ s[2] = Read({"open"}) /\ s[3] = Only("notdraft") /\ s[4] = Call("merge")
      /\ s[5] = Outcome /\ s[6] = Save("event") /\ s[7] = Dequeue
  BY DEF QueueMerge
<1> HIDE DEF s
<1>4. /\ Only("queued").op = "only" /\ Read({"open"}).op = "read" /\ Only("notdraft").op = "only"
      /\ Call("merge").op = "call" /\ Outcome.op = "refresh" /\ Save("event").op = "save"
      /\ Dequeue.op = "dequeue" /\ Call("merge").what = "merge" /\ Outcome.what = "merged"
      /\ Save("event").what = "event"
  BY DEF Step, Only, Read, Call, Outcome, Save, Dequeue
<1>. /\ s[1].op = "only" /\ s[2].op = "read" /\ s[3].op = "only" /\ s[4].op = "call" /\ s[5].op = "refresh"
     /\ s[6].op = "save" /\ s[7].op = "dequeue" /\ s[4].what = "merge" /\ s[5].what = "merged"
     /\ s[6].what = "event"
  BY <1>3, <1>4
<1>5. \A i \in DOMAIN s : i = 1 \/ i = 2 \/ i = 3 \/ i = 4 \/ i = 5 \/ i = 6 \/ i = 7
  BY <1>0
<1>6. Approving(s, 0) /\ Voting(s, NoRecord, 0) /\ Spamming(s, FALSE)
  BY <1>5 DEF Approving, Voting, Spamming, Saves, Calls, NoRecord
<1>c. Closing(s, {})
  BY <1>5 DEF Closing, Saves
<1>d. Merges(s[4])
  BY DEF Merges, Calls
<1>e. \A i \in DOMAIN s : SaysMerged(s[i]) => i > 4
  BY <1>5 DEF SaysMerged, Saves
<1>f. Merging(s, {})
  BY <1>d, <1>e, <1>0 DEF Merging
<1>8. Queueing(s, 0, FALSE) /\ Reverting(s)
  BY <1>5 DEF Queueing, Reverting, Saves, Calls
<1>9. Grounds(NoRecord, 0, {}, FALSE)
  BY NothingClaimed
<1> QED
  BY <1>2, <1>6, <1>c, <1>f, <1>8, <1>9 DEF UnderWay, s

LEMMA ClosedUnderWay ==
  OnClosed \in Seq(StepSet) \ {<<>>} /\ UnderWay(OnClosed, NoRecord, 0, {}, FALSE)
<1> DEFINE s == OnClosed
<1>1. List({"closed"}) \in StepSet /\ Save("closed") \in StepSet
  BY StepsAre, StatesAre DEF Requests, Tests
<1>2. s \in Seq(StepSet) /\ s # <<>>
  BY <1>1 DEF OnClosed
<1>0. DOMAIN s = 1..2
  BY DEF OnClosed
<1>3. s[1] = List({"closed"}) /\ s[2] = Save("closed")
  BY DEF OnClosed
<1> HIDE DEF s
<1>4. /\ List({"closed"}).op = "list" /\ Save("closed").op = "save" /\ List({"closed"}).in = {"closed"}
      /\ Save("closed").what = "closed"
  BY DEF Step, List, Save
<1>. s[1].op = "list" /\ s[2].op = "save" /\ s[1].in = {"closed"} /\ s[2].what = "closed"
  BY <1>3, <1>4
<1>5. \A i \in DOMAIN s : i = 1 \/ i = 2
  BY <1>0
<1>6. Approving(s, 0) /\ Voting(s, NoRecord, 0) /\ Spamming(s, FALSE)
  BY <1>5 DEF Approving, Voting, Spamming, Saves, Calls, NoRecord
<1>a. Closes(s[1])
  BY DEF Closes, Calls
<1>b. \A i \in DOMAIN s : Saves(s[i], "closed") => i = 2
  BY <1>5 DEF Saves
<1>c. Closing(s, {})
  BY <1>a, <1>b DEF Closing
<1>f. Merging(s, {})
  BY <1>5 DEF Merging, SaysMerged, Saves
<1>8. Queueing(s, 0, FALSE) /\ Reverting(s)
  BY <1>5 DEF Queueing, Reverting, Saves, Calls
<1>9. Grounds(NoRecord, 0, {}, FALSE)
  BY NothingClaimed
<1> QED
  BY <1>2, <1>6, <1>c, <1>f, <1>8, <1>9 DEF UnderWay, s

LEMMA MergedUnderWay ==
  OnMerged \in Seq(StepSet) \ {<<>>} /\ UnderWay(OnMerged, NoRecord, 0, {}, FALSE)
<1> DEFINE s == OnMerged
<1>1. List({"merged"}) \in StepSet /\ Save("merged") \in StepSet
  BY StepsAre, StatesAre DEF Requests, Tests
<1>2. s \in Seq(StepSet) /\ s # <<>>
  BY <1>1 DEF OnMerged
<1>0. DOMAIN s = 1..2
  BY DEF OnMerged
<1>3. s[1] = List({"merged"}) /\ s[2] = Save("merged")
  BY DEF OnMerged
<1> HIDE DEF s
<1>4. /\ List({"merged"}).op = "list" /\ Save("merged").op = "save" /\ List({"merged"}).in = {"merged"}
      /\ Save("merged").what = "merged"
  BY DEF Step, List, Save
<1>. s[1].op = "list" /\ s[2].op = "save" /\ s[1].in = {"merged"} /\ s[2].what = "merged"
  BY <1>3, <1>4
<1>5. \A i \in DOMAIN s : i = 1 \/ i = 2
  BY <1>0
<1>6. Approving(s, 0) /\ Voting(s, NoRecord, 0) /\ Spamming(s, FALSE)
  BY <1>5 DEF Approving, Voting, Spamming, Saves, Calls, NoRecord
<1>c. Closing(s, {})
  BY <1>5 DEF Closing, Saves
<1>d. Merges(s[1])
  BY DEF Merges, Calls
<1>e. \A i \in DOMAIN s : SaysMerged(s[i]) => i > 1
  BY <1>5 DEF SaysMerged, Saves
<1>f. Merging(s, {})
  BY <1>d, <1>e, <1>0 DEF Merging
<1>8. Queueing(s, 0, FALSE) /\ Reverting(s)
  BY <1>5 DEF Queueing, Reverting, Saves, Calls
<1>9. Grounds(NoRecord, 0, {}, FALSE)
  BY NothingClaimed
<1> QED
  BY <1>2, <1>6, <1>c, <1>f, <1>8, <1>9 DEF UnderWay, s


\* What is under way remains so when more has happened.
LEMMA MoreUnderWay ==
  ASSUME NEW s \in Seq(StepSet), NEW c \in AnyRecord, NEW n \in Nat, NEW m \in Nat, n <= m, NEW d, NEW e, d \subseteq e,
         NEW j \in BOOLEAN, NEW k \in BOOLEAN, j => k, UnderWay(s, c, n, d, j)
  PROVE  UnderWay(s, c, m, e, k)
<1>0. c.votes \in Nat
  BY DEF AnyRecord
<1>1. Grounds(c, n, d, j) => Grounds(c, m, e, k)
  BY <1>0 DEF Grounds
<1>2. Approving(s, n) => Approving(s, m)
  BY DEF Approving
<1>3. Voting(s, c, n) => Voting(s, c, m)
  BY <1>0 DEF Voting
<1>4. Closing(s, d) => Closing(s, e)
  BY DEF Closing
<1>5. Merging(s, d) => Merging(s, e)
  BY DEF Merging
<1>6. Spamming(s, j) => Spamming(s, k)
  BY DEF Spamming
<1>7. Queueing(s, n, j) => Queueing(s, m, k)
  BY DEF Queueing
<1> QED
  BY <1>1, <1>2, <1>3, <1>4, <1>5, <1>6, <1>7 DEF UnderWay

\* Every command of every front end and of the chores is under way from its first step on.
LEMMA CommandUnderWay ==
  ASSUME NEW cmd \in RestCommands \cup ChatCommands \cup Chores \cup RestBatches \cup ChatBatches \cup {Poll}
  PROVE  cmd \in Seq(StepSet) \ {<<>>} /\ UnderWay(cmd, NoRecord, 0, {}, cmd \in Asking)
<1> DEFINE W == {s \in Seq(StepSet) \ {<<>>} : UnderWay(s, NoRecord, 0, {}, FALSE)}
           A == {s \in Seq(StepSet) \ {<<>>} : UnderWay(s, NoRecord, 0, {}, TRUE)}
<1>1. Seq(Quiet) \ {<<>>} \subseteq W /\ Seq(Mild) \ {<<>>} \subseteq A
  BY MildUnderWay, QuietMore
<1>2. W \subseteq A
  <2>1. ASSUME NEW s \in Seq(StepSet), UnderWay(s, NoRecord, 0, {}, FALSE) PROVE UnderWay(s, NoRecord, 0, {}, TRUE)
    <3>1. ASSUME NEW j \in BOOLEAN, NEW k \in BOOLEAN, j => k, UnderWay(s, NoRecord, 0, {}, j)
          PROVE  UnderWay(s, NoRecord, 0, {}, k)
      <4>1. NoRecord \in AnyRecord /\ 0 \in Nat /\ 0 <= 0 /\ {} \subseteq {}
        BY NothingClaimed
      <4> QED
        BY <3>1, <4>1, MoreUnderWay
    <3> QED
      BY <2>1, <3>1
  <2> QED
    BY <2>1
<1>3. Asking \subseteq A
  BY <1>1, AskingCommands
<1>4. \A S \in SUBSET States : /\ Approve(S, "approved") \in W /\ Approve(S, "voted") \in W
                               /\ Close(S) \in W /\ Reopen(S) \in W
  BY <1>1, ApproveUnderWay, CloseUnderWay, QuietCommands
<1>5. {RestApprove, RestClose, RestRevert, RestBatchClose, DiscordBatchApprove, RevertMisfiled, RevertFiled, QueueMerge,
       OnClosed, OnMerged} \subseteq W
  BY RestApproveUnderWay, RestCloseUnderWay, RestRevertUnderWay, BatchCloseUnderWay, BatchApproveUnderWay,
     MisfiledUnderWay, FiledUnderWay, QueueMergeUnderWay, ClosedUnderWay, MergedUnderWay
<1>6. {RestReopen, RestBatchApprove, RestBatchMerge, RestBatchRebase, RestRebase, RestRebaseQueue, RestCherryPick,
      MarkReady, MarkDraft, RemoveFromQueue, ClearQueue, ForwardedRebase, ButtonClose, SlackCherryPick, CommentApprove,
      CommentClose, CommentReopen, CommentMerge, OnOpened, OnReopened, OnLabeled, OnChangesRequested, AutoMerge, AutoClose,
      AutoRebase, Poll} \subseteq W
  BY <1>1, QuietCommands
<1> HIDE DEF W, A
<1>7. RestCommands \cup RestBatches \subseteq W \cup Asking
  BY <1>5, <1>6 DEF RestCommands, RestBatches, Asking
<1>8. Chores \cup {Poll} \subseteq W \cup Asking
  BY <1>5, <1>6 DEF Chores, Asking
<1>9. ChatBatches \subseteq W
  BY <1>4, <1>5, <1>6, StatesAre DEF ChatBatches, TelegramBatchApprove, TelegramBatchClose, SlackBatchApprove,
     SlackBatchClose, DiscordBatchClose, FeishuBatchApprove, FeishuBatchClose, FeishuApprove, FeishuClose, ChatQueueClear,
     ClearQueue
<1>10. {TelegramApprove, TelegramClose, TelegramReopen, TelegramRevert, TelegramRebase, TelegramCherryPick, ButtonApprove,
        ButtonReason, ButtonReopen, ButtonRevert} \subseteq W
  BY <1>4, <1>5, <1>6, StatesAre DEF TelegramApprove, TelegramClose, TelegramReopen, TelegramRevert, TelegramRebase,
     TelegramCherryPick, ButtonApprove, ButtonReason, ButtonReopen, ButtonRevert
<1>11. {SlackApprove, SlackClose, SlackReopen, SlackRevert, SlackRebase, DiscordApprove, DiscordClose, DiscordReopen,
        DiscordRevert, DiscordRebase, DiscordCherryPick} \subseteq W
  BY <1>4, <1>5, <1>6, StatesAre DEF SlackApprove, SlackClose, SlackReopen, SlackRevert, SlackRebase, DiscordApprove,
     DiscordClose, DiscordReopen, DiscordRevert, DiscordRebase, DiscordCherryPick
<1>12. {FeishuApprove, FeishuClose, FeishuReopen, FeishuRevert, FeishuRebase, FeishuCherryPick, ChatQueueRemove} \subseteq W
  BY <1>4, <1>5, <1>6, StatesAre DEF FeishuApprove, FeishuClose, FeishuReopen, FeishuRevert, FeishuRebase,
     FeishuCherryPick, ChatQueueRemove, RemoveFromQueue
<1>13. {SlackSpam, DiscordSpam, FeishuSpam} \subseteq Asking
  BY DEF Asking, SlackSpam, DiscordSpam, FeishuSpam, TelegramSpam
<1>14. ChatCommands \subseteq W \cup Asking
  <2>1. {TelegramSpam, ButtonSpam, CommentSpam, CommentQueue} \subseteq Asking
    BY DEF Asking
  <2> QED
    BY <2>1, <1>6, <1>10, <1>11, <1>12, <1>13 DEF ChatCommands
<1>15. cmd \in W \cup Asking
  BY <1>7, <1>8, <1>9, <1>14
<1>16. cmd \in A /\ (cmd \in W \/ cmd \in Asking)
  BY <1>15, <1>2, <1>3
<1>17. CASE cmd \in Asking
  <2>1. (cmd \in Asking) = TRUE
    BY <1>17
  <2> QED
    BY <2>1, <1>16 DEF A
<1>18. CASE cmd \notin Asking
  <2>1. (cmd \in Asking) = FALSE
    BY <1>18
  <2> QED
    BY <2>1, <1>16, <1>18 DEF W
<1> QED
  BY <1>17, <1>18

-----------------------------------------------------------------------------
\* Runs

Runs == [pr : PRs \cup {NoPR}, todo : Seq(StepSet), cmd : Seq(StepSet), left : Seq(PRs), copy : AnyRecord, count : Nat]

\* A run r that has steps to do for its pull request, and that could begin with those of its batch, when ap[p] approvals
\* were given, dd[p] was done and somebody wanted the PRs in as.
LeftOK(r, as) ==
  /\ r.left # <<>> => r.cmd # <<>>
  /\ \A i \in DOMAIN r.left : UnderWay(r.cmd, NoRecord, 0, {}, r.left[i] \in as)
RunOK(r, ap, dd, as) ==
  /\ r \in Runs /\ LeftOK(r, as)
  /\ r.pr # NoPR => r.todo # <<>> /\ UnderWay(r.todo, r.copy, ap[r.pr], dd[r.pr], r.pr \in as)

Done == [PRs -> SUBSET {"close", "merge"}]

\* A first step x is behind: what it has done is counted, and whoever comes next may rely on it.
LEMMA TailUnderWay ==
  ASSUME NEW s \in Seq(StepSet), Len(s) > 1, NEW c \in AnyRecord, NEW b \in AnyRecord,
         NEW n \in Nat, NEW m \in Nat, n <= m, NEW d, NEW e, d \subseteq e, NEW k \in BOOLEAN, UnderWay(s, c, n, d, k),
         Grounds(b, m, e, k), ~Calls(s[1], "revert"),
         Calls(s[1], "approve") => m > 0 /\ b.votes < m,
         Closes(s[1]) => e # {}, Merges(s[1]) => "merge" \in e
  PROVE  UnderWay(Tail(s), b, m, e, k)
<1> DEFINE t == Tail(s)
<1>1. /\ DOMAIN t = 1..(Len(s) - 1) /\ DOMAIN s = 1..Len(s) /\ Len(s) \in Nat
      /\ \A i \in DOMAIN t : t[i] = s[i + 1] /\ i + 1 \in DOMAIN s
  BY HeadTailProperties, ElementOfSeq, LenProperties
<1> HIDE DEF t
<1>2. \A i \in DOMAIN t : i \in Nat \ {0}
  BY <1>1
<1>3. ASSUME NEW i \in DOMAIN t, NEW h \in 1..i, h # 1 PROVE h - 1 \in 1..(i - 1) /\ t[h - 1] = s[h]
  BY <1>1, <1>2, <1>3
<1>4. Approving(t, m)
  <2>1. SUFFICES ASSUME NEW i \in DOMAIN t, Saves(t[i], "approved"), ~(m > 0)
                 PROVE  \E h \in 1..(i - 1) : Calls(t[h], "approve")
    BY DEF Approving
  <2>2. PICK h \in 1..i : Calls(s[h], "approve")
    BY <1>1, <1>2, <2>1 DEF UnderWay, Approving
  <2>3. h # 1
    BY <2>1, <2>2
  <2> QED
    BY <1>3, <2>2, <2>3
<1>5. Voting(t, b, m)
  <2>1. SUFFICES ASSUME NEW i \in DOMAIN t, Saves(t[i], "voted")
                 PROVE  IF i = 1 THEN b.votes < m ELSE Calls(t[i - 1], "approve")
    BY DEF Voting
  <2>2. Calls(s[i], "approve")
    BY <1>1, <1>2, <2>1 DEF UnderWay, Voting
  <2>3. i # 1 => t[i - 1] = s[i]
    BY <1>2, <1>3
  <2> QED
    BY <2>2, <2>3
<1>6. Closing(t, e)
  <2>1. SUFFICES ASSUME NEW i \in DOMAIN t, Saves(t[i], "closed"), e = {}
                 PROVE  \E h \in 1..(i - 1) : Closes(t[h])
    BY DEF Closing
  <2>2. PICK h \in 1..i : Closes(s[h])
    BY <1>1, <1>2, <2>1 DEF UnderWay, Closing
  <2>3. h # 1
    BY <2>1, <2>2
  <2> QED
    BY <1>3, <2>2, <2>3
<1>7. Merging(t, e)
  <2>1. SUFFICES ASSUME NEW i \in DOMAIN t, SaysMerged(t[i]), "merge" \notin e
                 PROVE  \E h \in 1..(i - 1) : Merges(t[h])
    BY DEF Merging
  <2>2. PICK h \in 1..i : Merges(s[h])
    BY <1>1, <1>2, <2>1 DEF UnderWay, Merging
  <2>3. h # 1
    BY <2>1, <2>2
  <2> QED
    BY <1>3, <2>2, <2>3
<1>8. Spamming(t, k)
  BY <1>1 DEF UnderWay, Spamming
<1>9. Queueing(t, m, k)
  <2>1. SUFFICES ASSUME NEW i \in DOMAIN t, t[i].op = "enqueue", ~k, ~(m > 0)
                 PROVE  \E h \in 1..(i - 1) : Calls(t[h], "approve") \/ Calls(t[h], "revert")
    BY DEF Queueing
  <2>2. ~(n > 0)
    BY <2>1
  <2>3. PICK h \in 1..i : Calls(s[h], "approve") \/ Calls(s[h], "revert")
    BY <1>1, <1>2, <2>1, <2>2 DEF UnderWay, Queueing
  <2>4. h # 1
    BY <2>1, <2>3
  <2> QED
    BY <1>3, <2>3, <2>4
<1>10. Reverting(t)
  <2>1. SUFFICES ASSUME NEW h \in DOMAIN t, NEW i \in DOMAIN t, h < i, Calls(t[h], "revert")
                 PROVE  t[i].op \in {"misfile", "enqueue"} \/ Saves(t[i], "open") \/ Saves(t[i], "event")
    BY DEF Reverting
  <2>2. h + 1 < i + 1
    BY <2>1, <1>2
  <2> QED
    BY <1>1, <2>1, <2>2 DEF UnderWay, Reverting
<1> QED
  BY <1>4, <1>5, <1>6, <1>7, <1>8, <1>9, <1>10 DEF UnderWay, t

\* The steps after a revert are about the pull request it has opened, which counts as wanted.
LEMMA RevertUnderWay ==
  ASSUME NEW s \in Seq(StepSet), Len(s) > 1, NEW c \in AnyRecord, NEW n \in Nat, NEW m \in Nat, NEW d, NEW e,
         NEW k \in BOOLEAN, UnderWay(s, c, n, d, k), Calls(s[1], "revert")
  PROVE  UnderWay(Tail(s), Opened, m, e, TRUE)
<1> DEFINE t == Tail(s)
<1>1. /\ DOMAIN t = 1..(Len(s) - 1) /\ DOMAIN s = 1..Len(s) /\ Len(s) \in Nat
      /\ \A i \in DOMAIN t : t[i] = s[i + 1] /\ i + 1 \in DOMAIN s /\ 1 < i + 1 /\ 1 \in DOMAIN s
  BY HeadTailProperties, ElementOfSeq, LenProperties
<1>2. \A i \in DOMAIN t : t[i].op \in {"misfile", "enqueue"} \/ Saves(t[i], "open") \/ Saves(t[i], "event")
  BY <1>1 DEF UnderWay, Reverting
<1> HIDE DEF t
<1>3. \A i \in DOMAIN t : /\ ~Saves(t[i], "approved") /\ ~Saves(t[i], "voted") /\ ~Saves(t[i], "closed")
                          /\ ~SaysMerged(t[i]) /\ ~Calls(t[i], "revert") /\ t[i].op # "call"
  BY <1>2 DEF Saves, SaysMerged, Calls
<1>4. Approving(t, m) /\ Voting(t, Opened, m) /\ Closing(t, e) /\ Merging(t, e) /\ Spamming(t, TRUE)
  BY <1>3 DEF Approving, Voting, Closing, Merging, Spamming
<1>5. Queueing(t, m, TRUE) /\ Reverting(t)
  BY <1>3 DEF Queueing, Reverting
<1>6. Grounds(Opened, m, e, TRUE)
  BY DEF Grounds, Opened, NoRecord
<1> QED
  BY <1>4, <1>5, <1>6 DEF UnderWay, t

LEMMA RunTyped ==
  ASSUME NEW r \in Runs
  PROVE  /\ r.pr \in PRs \cup {NoPR} /\ r.todo \in Seq(StepSet) /\ r.cmd \in Seq(StepSet) /\ r.left \in Seq(PRs)
         /\ r.copy \in AnyRecord /\ r.count \in Nat
BY DEF Runs

LEMMA IdleOK ==
  ASSUME NEW ap, NEW dd, NEW as
  PROVE  RunOK(Idle, ap, dd, as) /\ Idle.pr = NoPR /\ Idle.left = <<>>
<1>1. Idle \in Runs
  BY NothingClaimed DEF Idle, Runs
<1>2. Idle.left = <<>> /\ Idle.pr = NoPR
  BY DEF Idle
<1>3. DOMAIN Idle.left = {}
  BY <1>2
<1> QED
  BY <1>1, <1>2, <1>3 DEF RunOK, LeftOK

\* The next pull request of a batch, or the end.
LEMMA NextPROK ==
  ASSUME NEW r \in Runs, NEW ap \in [PRs -> Nat], NEW dd \in Done, NEW as, LeftOK(r, as)
  PROVE  RunOK(NextPR(r), ap, dd, as)
<1>1. CASE r.left = <<>>
  BY <1>1, IdleOK DEF NextPR
<1>2. CASE r.left # <<>>
  <2> DEFINE p == Head(r.left)
             l == Tail(r.left)
             cmd == IF Len(r.left) = 1 THEN <<>> ELSE r.cmd
             n == [pr |-> p, todo |-> r.cmd, cmd |-> cmd, left |-> l, copy |-> NoRecord, count |-> 0]
  <2>1. NextPR(r) = n
    BY <1>2 DEF NextPR, Idle
  <2>2. /\ p \in PRs /\ l \in Seq(PRs) /\ p = r.left[1] /\ 1 \in DOMAIN r.left /\ Len(r.left) \in Nat
        /\ \A i \in DOMAIN l : l[i] = r.left[i + 1] /\ i + 1 \in DOMAIN r.left
    BY <1>2, RunTyped, HeadTailProperties, ElementOfSeq, LenProperties
  <2>3. Len(r.left) = 1 => l = <<>>
    <3>1. r.left \in Seq(PRs) /\ Len(l) = Len(r.left) - 1
      BY <1>2, RunTyped, HeadTailProperties
    <3>2. Len(r.left) = 1 => Len(l) = 0
      BY <3>1
    <3> QED
      BY <2>2, <3>2, EmptySeq
  <2>4. r.cmd \in Seq(StepSet) /\ r.cmd # <<>>
    BY <1>2, RunTyped DEF LeftOK
  <2>5. cmd \in Seq(StepSet)
    BY <2>4
  <2>6. n \in Runs
    BY <2>2, <2>4, <2>5, NothingClaimed DEF Runs
  <2>7. n.pr = p /\ n.todo = r.cmd /\ n.cmd = cmd /\ n.left = l /\ n.copy = NoRecord
    OBVIOUS
  <2>8. UnderWay(r.cmd, NoRecord, ap[p], dd[p], p \in as)
    <3>1. UnderWay(r.cmd, NoRecord, 0, {}, p \in as)
      BY <2>2 DEF LeftOK
    <3>2. ap[p] \in Nat /\ 0 <= ap[p] /\ {} \subseteq dd[p]
      BY <2>2 DEF Done
    <3>3. ASSUME NEW k \in BOOLEAN, UnderWay(r.cmd, NoRecord, 0, {}, k) PROVE UnderWay(r.cmd, NoRecord, ap[p], dd[p], k)
      BY <2>4, <3>2, <3>3, MoreUnderWay, NothingClaimed
    <3>4. (p \in as) \in BOOLEAN
      OBVIOUS
    <3> QED
      BY <3>1, <3>3, <3>4, Zenon
  <2> HIDE DEF p, n, l
  <2>9. LeftOK(n, as)
    <3>1. CASE l = <<>>
      <4>1. DOMAIN l = {}
        BY <3>1
      <4> QED
        BY <3>1, <4>1, <2>7 DEF LeftOK
    <3>2. CASE l # <<>>
      <4>1. cmd = r.cmd
        BY <3>2, <2>3
      <4> QED
        BY <4>1, <2>2, <2>4, <2>7 DEF LeftOK
    <3> QED
      BY <3>1, <3>2
  <2> QED
    BY <2>1, <2>4, <2>6, <2>7, <2>8, <2>9 DEF RunOK
<1> QED
  BY <1>1, <1>2

\* A run with more than one step left has steps left after the next.
LEMMA TailNotEmpty ==
  ASSUME NEW S, NEW s \in Seq(S), Len(s) > 1
  PROVE  Tail(s) \in Seq(S) /\ Tail(s) # <<>>
<1> DEFINE t == Tail(s)
<1>1. s # <<>>
  OBVIOUS
<1>2. t \in Seq(S) /\ Len(t) = Len(s) - 1 /\ Len(s) \in Nat
  BY <1>1, HeadTailProperties, LenProperties
<1> HIDE DEF t
<1> DEFINE m == Len(s)
<1>3. m \in Nat /\ m > 1 /\ Len(t) = m - 1
  BY <1>2
<1> HIDE DEF m
<1>4. Len(t) # 0
  BY <1>3
<1> QED
  BY <1>2, <1>4, EmptySeq DEF t

\* The next step, on to which a run goes.
LEMMA OnwardOK ==
  ASSUME NEW r \in Runs, r.pr \in PRs, NEW ap \in [PRs -> Nat], NEW dd \in Done, NEW as, LeftOK(r, as),
         Len(r.todo) > 1 => UnderWay(Tail(r.todo), r.copy, ap[r.pr], dd[r.pr], r.pr \in as)
  PROVE  RunOK(Onward(r), ap, dd, as)
<1>1. CASE ~(Len(r.todo) > 1)
  BY <1>1, NextPROK DEF Onward
<1>2. CASE Len(r.todo) > 1
  <2> DEFINE t == Tail(r.todo)
             n == [r EXCEPT !.todo = t]
  <2>1. Onward(r) = n
    BY <1>2 DEF Onward
  <2>2. r.todo \in Seq(StepSet) /\ r.todo # <<>>
    BY <1>2, RunTyped
  <2>3. t \in Seq(StepSet) /\ t # <<>>
    BY <1>2, <2>2, TailNotEmpty
  <2> HIDE DEF t
  <2>5. n \in Runs /\ n.pr = r.pr /\ n.todo = t /\ n.cmd = r.cmd /\ n.left = r.left /\ n.copy = r.copy
    BY <2>3 DEF Runs
  <2>6. UnderWay(t, r.copy, ap[r.pr], dd[r.pr], r.pr \in as)
    BY <1>2 DEF t
  <2> HIDE DEF n
  <2>7. LeftOK(n, as)
    BY <2>5 DEF LeftOK
  <2> QED
    BY <2>1, <2>3, <2>5, <2>6, <2>7 DEF RunOK
<1> QED
  BY <1>1, <1>2

\* A run is none the worse for what others have done.
LEMMA MoreRun ==
  ASSUME NEW r, NEW ap \in [PRs -> Nat], NEW bp \in [PRs -> Nat], NEW dd \in Done, NEW ed \in Done, NEW as, NEW bs,
         NoPR \notin PRs, \A p \in PRs : ap[p] <= bp[p] /\ dd[p] \subseteq ed[p], as \subseteq bs, RunOK(r, ap, dd, as)
  PROVE  RunOK(r, bp, ed, bs)
<1>1. r \in Runs
  BY DEF RunOK
<1>2. ASSUME NEW p \in PRs, NEW s \in Seq(StepSet), NEW c \in AnyRecord, NEW n \in Nat, NEW m \in Nat, n <= m,
             NEW d, NEW e, d \subseteq e, UnderWay(s, c, n, d, p \in as)
      PROVE  UnderWay(s, c, m, e, p \in bs)
  <2> DEFINE j == p \in as
             k == p \in bs
  <2>1. j => k
    OBVIOUS
  <2>2. j \in BOOLEAN /\ k \in BOOLEAN
    OBVIOUS
  <2>3. UnderWay(s, c, n, d, j)
    BY <1>2
  <2> HIDE DEF j, k
  <2>4. UnderWay(s, c, m, e, k)
    BY <2>1, <2>2, <2>3, <1>2, MoreUnderWay
  <2> QED
    BY <2>4 DEF k
<1>3. LeftOK(r, bs)
  <2>1. r.left \in Seq(PRs) /\ r.cmd \in Seq(StepSet)
    BY <1>1, RunTyped
  <2>2. ASSUME NEW i \in DOMAIN r.left PROVE UnderWay(r.cmd, NoRecord, 0, {}, r.left[i] \in bs)
    <3> DEFINE j == r.left[i] \in as
               k == r.left[i] \in bs
               w == r.cmd
    <3>0. j \in BOOLEAN /\ k \in BOOLEAN
      OBVIOUS
    <3>1. j => k
      OBVIOUS
    <3>2. UnderWay(w, NoRecord, 0, {}, j)
      BY DEF RunOK, LeftOK
    <3>3. w \in Seq(StepSet) /\ NoRecord \in AnyRecord /\ 0 \in Nat /\ 0 <= 0 /\ {} \subseteq {}
      BY <2>1, NothingClaimed
    <3> HIDE DEF j, k, w
    <3>4. UnderWay(w, NoRecord, 0, {}, k)
      BY <3>0, <3>1, <3>2, <3>3, MoreUnderWay
    <3> QED
      BY <3>4 DEF k, w
  <2> QED
    BY <2>2 DEF RunOK, LeftOK
<1>4. ASSUME r.pr # NoPR PROVE r.todo # <<>> /\ UnderWay(r.todo, r.copy, bp[r.pr], ed[r.pr], r.pr \in bs)
  <2>1. /\ r.pr \in PRs /\ r.todo \in Seq(StepSet) /\ r.copy \in AnyRecord
    BY <1>1, <1>4, RunTyped
  <2>2. r.todo # <<>> /\ UnderWay(r.todo, r.copy, ap[r.pr], dd[r.pr], r.pr \in as)
    BY <1>4 DEF RunOK
  <2>3. ap[r.pr] \in Nat /\ bp[r.pr] \in Nat /\ ap[r.pr] <= bp[r.pr] /\ dd[r.pr] \subseteq ed[r.pr]
    BY <2>1
  <2> QED
    BY <1>2, <2>1, <2>2, <2>3
<1> QED
  BY <1>1, <1>3, <1>4 DEF RunOK

-----------------------------------------------------------------------------
\* The invariant

Typed == /\ record \in [PRs -> AnyRecord] /\ remote \in [PRs -> AnyRemote] /\ queue \subseteq PRs /\ strikes \in Nat
         /\ did \in Done /\ approvals \in [PRs -> Nat] /\ asked \subseteq PRs
         /\ run \in [Actors -> Runs]

\* Where the platform stands it was brought by calls.
Accounted(r, d) == /\ r.state = "closed" => d # {}
                   /\ r.state = "merged" => "merge" \in d

Grounded == \A p \in PRs : Accounted(remote[p], did[p])

\* Whatever a goroutine still is to claim has happened or will have when it comes to that.
RunsFit == \A a \in Actors : RunOK(run[a], approvals, did, asked)

Inv == Typed /\ ClaimsHaveGrounds /\ Grounded /\ RunsFit

\* What has happened stays so.
Grows == /\ approvals' \in [PRs -> Nat] /\ did' \in Done /\ asked' \subseteq PRs
         /\ \A p \in PRs : approvals[p] <= approvals'[p] /\ did[p] \subseteq did'[p]
         /\ asked \subseteq asked'

\* Where only wishes are added nothing that happened is lost.
LEMMA SameGrows == ASSUME Typed, UNCHANGED <<did, approvals>>, asked \subseteq asked', asked' \subseteq PRs PROVE Grows
BY DEF Typed, Grows, Done

\* A step of one goroutine that leaves it fit to go on leaves all of them so.
LEMMA RunsKept ==
  ASSUME Inv, Grows, NEW a \in Actors, NEW r, run' = [run EXCEPT ![a] = r], RunOK(r, approvals', did', asked')
  PROVE  run' \in [Actors -> Runs] /\ RunsFit'
<1>1. r \in Runs
  BY DEF RunOK
<1>2. run' \in [Actors -> Runs] /\ run'[a] = r /\ \A b \in Actors : b # a => run'[b] = run[b]
  BY <1>1 DEF Inv, Typed
<1>3. ASSUME NEW b \in Actors PROVE RunOK(run'[b], approvals', did', asked')
  <2>1. CASE b = a
    BY <1>2, <2>1
  <2>2. CASE b # a
    <3>1. /\ approvals \in [PRs -> Nat] /\ approvals' \in [PRs -> Nat] /\ did \in Done /\ did' \in Done
          /\ asked \subseteq asked' /\ \A p \in PRs : approvals[p] <= approvals'[p] /\ did[p] \subseteq did'[p]
      BY DEF Inv, Typed, Grows
    <3>2. RunOK(run[b], approvals, did, asked)
      BY DEF Inv, RunsFit
    <3>3. NoPR \notin PRs
      BY CommandsAssumption
    <3>4. RunOK(run[b], approvals', did', asked')
      BY <3>1, <3>2, <3>3, MoreRun
    <3> QED
      BY <1>2, <2>2, <3>4
  <2> QED
    BY <2>1, <2>2
<1> QED
  BY <1>2, <1>3 DEF RunsFit

\* A goroutine at a step x.
LEMMA AtWork ==
  ASSUME Inv, NEW a \in Actors, Busy(a)
  PROVE  /\ run[a] \in Runs /\ run[a].pr \in PRs /\ run[a].todo \in Seq(StepSet) /\ run[a].todo # <<>>
         /\ Head(run[a].todo) \in StepSet /\ Head(run[a].todo) = run[a].todo[1] /\ 1 \in DOMAIN run[a].todo
         /\ run[a].copy \in AnyRecord /\ LeftOK(run[a], asked)
         /\ UnderWay(run[a].todo, run[a].copy, approvals[run[a].pr], did[run[a].pr], run[a].pr \in asked)
<1>1. run[a] \in Runs
  BY DEF Inv, Typed
<1>2. run[a].pr \in PRs /\ run[a].todo \in Seq(StepSet) /\ run[a].copy \in AnyRecord
  BY <1>1, RunTyped DEF Busy
<1>3. /\ LeftOK(run[a], asked) /\ run[a].todo # <<>>
      /\ UnderWay(run[a].todo, run[a].copy, approvals[run[a].pr], did[run[a].pr], run[a].pr \in asked)
  BY DEF Inv, RunsFit, RunOK, Busy
<1>4. Head(run[a].todo) \in StepSet /\ Head(run[a].todo) = run[a].todo[1] /\ 1 \in DOMAIN run[a].todo
  BY <1>2, <1>3, HeadTailProperties, ElementOfSeq, LenProperties
<1> QED
  BY <1>1, <1>2, <1>3, <1>4

\* It gives up this pull request,
LEMMA QuitOK == ASSUME Inv, NEW a \in Actors, Busy(a) PROVE RunOK(NextPR(run[a]), approvals, did, asked)
<1>1. approvals \in [PRs -> Nat] /\ did \in Done
  BY DEF Inv, Typed
<1> QED
  BY <1>1, AtWork, NextPROK

\* or goes on with a copy for which there are grounds.
LEMMA GoOnOK ==
  ASSUME Inv, NEW a \in Actors, Busy(a), NEW q \in Runs,
         q.pr = run[a].pr, q.todo = run[a].todo, q.cmd = run[a].cmd, q.left = run[a].left,
         NEW bp \in [PRs -> Nat], NEW ed \in Done, approvals[q.pr] <= bp[q.pr], did[q.pr] \subseteq ed[q.pr],
         Grounds(q.copy, bp[q.pr], ed[q.pr], q.pr \in asked),
         ~Calls(Head(run[a].todo), "revert"),
         Calls(Head(run[a].todo), "approve") => bp[q.pr] > 0 /\ q.copy.votes < bp[q.pr],
         Closes(Head(run[a].todo)) => ed[q.pr] # {}, Merges(Head(run[a].todo)) => "merge" \in ed[q.pr]
  PROVE  RunOK(Onward(q), bp, ed, asked)
<1> DEFINE s == run[a].todo
           c == run[a].copy
           p == run[a].pr
           k == p \in asked
           n == approvals[p]
           d == did[p]
           m == bp[p]
           e == ed[p]
<1>1. /\ p \in PRs /\ s \in Seq(StepSet) /\ s # <<>> /\ Head(s) = s[1] /\ c \in AnyRecord /\ LeftOK(run[a], asked)
      /\ UnderWay(s, c, n, d, k)
  BY AtWork
<1>2. q.copy \in AnyRecord
  BY RunTyped
<1>3. n \in Nat /\ m \in Nat /\ n <= m /\ d \subseteq e
  BY <1>1 DEF Inv, Typed
<1>4. k \in BOOLEAN
  OBVIOUS
<1>5. /\ Grounds(q.copy, m, e, k) /\ ~Calls(s[1], "revert") /\ (Calls(s[1], "approve") => m > 0 /\ q.copy.votes < m)
      /\ (Closes(s[1]) => e # {}) /\ (Merges(s[1]) => "merge" \in e)
  BY <1>1
<1>6. LeftOK(q, asked)
  BY <1>1 DEF LeftOK
<1>7. q.pr = p /\ q.todo = s
  OBVIOUS
<1> HIDE DEF s, c, p, k, n, d, m, e
<1>8. Len(s) > 1 => UnderWay(Tail(s), q.copy, m, e, k)
  BY <1>1, <1>2, <1>3, <1>4, <1>5, TailUnderWay
<1>9. Len(q.todo) > 1 => UnderWay(Tail(q.todo), q.copy, bp[q.pr], ed[q.pr], q.pr \in asked)
  BY <1>7, <1>8 DEF m, e, k
<1>10. q.pr \in PRs
  BY <1>1, <1>7
<1> QED
  BY <1>6, <1>9, <1>10, OnwardOK

-----------------------------------------------------------------------------
\* Steps that change nothing but the run

\* A step of a goroutine that changes nothing but its run, giving up, or taking another copy, or going on as it is:
LEMMA RunStep ==
  ASSUME Inv, NEW a \in Actors, NEW r, run' = [run EXCEPT ![a] = r], RunOK(r, approvals, did, asked),
         UNCHANGED <<state, did, approvals, asked>>
  PROVE  Inv'
<1>1. UNCHANGED <<record, remote, queue, strikes, did, approvals, asked>>
  BY DEF state
<1>2. Grows
  BY <1>1, SameGrows DEF Inv, Typed
<1>3. RunOK(r, approvals', did', asked')
  BY <1>1
<1>4. run' \in [Actors -> Runs] /\ RunsFit'
  BY <1>2, <1>3, RunsKept
<1>5. Typed'
  BY <1>1, <1>4 DEF Inv, Typed
<1>6. ClaimsHaveGrounds'
  BY <1>1 DEF Inv, ClaimsHaveGrounds
<1>7. Grounded'
  BY <1>1 DEF Inv, Grounded
<1> QED
  BY <1>4, <1>5, <1>6, <1>7 DEF Inv

LEMMA QuitStep == ASSUME Inv, NEW a \in Actors, Busy(a), Quits(a), UNCHANGED <<state, did, approvals, asked>> PROVE Inv'
BY QuitOK, RunStep DEF Quits

\* There are grounds for the copy of a goroutine and for the record of its pull request.
LEMMA CopyGrounded ==
  ASSUME Inv, NEW a \in Actors, Busy(a)
  PROVE  /\ Grounds(run[a].copy, approvals[run[a].pr], did[run[a].pr], run[a].pr \in asked)
         /\ Grounds(record[run[a].pr], approvals[run[a].pr], did[run[a].pr], run[a].pr \in asked)
         /\ record[run[a].pr] \in AnyRecord /\ remote[run[a].pr] \in AnyRemote
         /\ Accounted(remote[run[a].pr], did[run[a].pr])
<1>1. run[a].pr \in PRs
  BY AtWork
<1>2. Grounds(run[a].copy, approvals[run[a].pr], did[run[a].pr], run[a].pr \in asked)
  BY AtWork DEF UnderWay
<1> QED
  BY <1>1, <1>2 DEF Inv, Typed, ClaimsHaveGrounds, Grounded

\* What the copy becomes without a call.
LEMMA CopyOK ==
  ASSUME Inv, NEW a \in Actors, Busy(a), NEW c \in AnyRecord, NEW n \in Nat,
         Grounds(c, approvals[run[a].pr], did[run[a].pr], run[a].pr \in asked),
         Head(run[a].todo).op # "call",
         Closes(Head(run[a].todo)) => did[run[a].pr] # {}, Merges(Head(run[a].todo)) => "merge" \in did[run[a].pr]
  PROVE  RunOK(Onward([run[a] EXCEPT !.copy = c, !.count = n]), approvals, did, asked)
<1> DEFINE q == [run[a] EXCEPT !.copy = c, !.count = n]
<1>1. run[a] \in Runs /\ run[a].pr \in PRs
  BY AtWork
<1>2. /\ q \in Runs /\ q.pr = run[a].pr /\ q.todo = run[a].todo /\ q.cmd = run[a].cmd /\ q.left = run[a].left
      /\ q.copy = c
  BY <1>1 DEF Runs
<1>3. approvals \in [PRs -> Nat] /\ did \in Done /\ approvals[run[a].pr] \in Nat
  BY <1>1 DEF Inv, Typed
<1>4. ~Calls(Head(run[a].todo), "revert") /\ ~Calls(Head(run[a].todo), "approve")
  BY DEF Calls
<1> HIDE DEF q
<1>5. approvals[q.pr] <= approvals[q.pr] /\ did[q.pr] \subseteq did[q.pr] /\ Grounds(q.copy, approvals[q.pr], did[q.pr], q.pr \in asked)
  BY <1>2, <1>3
<1>6. RunOK(Onward(q), approvals, did, asked)
  BY <1>2, <1>3, <1>4, <1>5, GoOnOK
<1> QED
  BY <1>6 DEF q

\* A run keeps what a step does not write.
LEMMA SameCount ==
  ASSUME NEW r \in Runs, NEW c, NEW n
  PROVE  /\ [r EXCEPT !.copy = c] = [r EXCEPT !.copy = c, !.count = r.count]
         /\ [r EXCEPT !.count = n] = [r EXCEPT !.copy = r.copy, !.count = n]
         /\ r = [r EXCEPT !.copy = r.copy, !.count = r.count]
BY DEF Runs

LEMMA TakeStep ==
  ASSUME Inv, NEW a \in Actors, Busy(a), NEW c \in AnyRecord,
         Grounds(c, approvals[run[a].pr], did[run[a].pr], run[a].pr \in asked),
         Head(run[a].todo).op # "call",
         Closes(Head(run[a].todo)) => did[run[a].pr] # {}, Merges(Head(run[a].todo)) => "merge" \in did[run[a].pr],
         Takes(a, c), UNCHANGED <<state, did, approvals, asked>>
  PROVE  Inv'
<1>1. run[a] \in Runs /\ run[a].count \in Nat
  BY AtWork, RunTyped
<1>2. RunOK(Onward([run[a] EXCEPT !.copy = c, !.count = run[a].count]), approvals, did, asked)
  BY <1>1, CopyOK
<1>3. RunOK(Onward([run[a] EXCEPT !.copy = c]), approvals, did, asked)
  BY <1>1, <1>2, SameCount
<1> QED
  BY <1>3, RunStep DEF Takes

LEMMA GoOK ==
  ASSUME Inv, NEW a \in Actors, Busy(a), Head(run[a].todo).op \notin {"call", "list"}
  PROVE  RunOK(Onward(run[a]), approvals, did, asked)
<1>1. run[a] \in Runs /\ run[a].count \in Nat /\ run[a].copy \in AnyRecord
  BY AtWork, RunTyped
<1>2. RunOK(Onward([run[a] EXCEPT !.copy = run[a].copy, !.count = run[a].count]), approvals, did, asked)
  BY <1>1, CopyOK, CopyGrounded DEF Closes, Merges, Calls
<1> QED
  BY <1>1, <1>2, SameCount

LEMMA GoStep ==
  ASSUME Inv, NEW a \in Actors, Busy(a), Head(run[a].todo).op \notin {"call", "list"}, Goes(a),
         UNCHANGED <<state, did, approvals, asked>>
  PROVE  Inv'
BY GoOK, RunStep DEF Goes

\* One lemma for each step of a goroutine: the invariant is kept.
LEMMA ReadKeeps == ASSUME Inv, NEW a \in Actors, ReadStep(a) PROVE Inv'
<1>1. Busy(a) /\ Head(run[a].todo).op = "read" /\ UNCHANGED <<state, did, approvals, asked>>
  BY DEF ReadStep, At, history
<1>2. CASE Quits(a)
  BY <1>1, <1>2, QuitStep
<1>3. CASE Takes(a, record[run[a].pr])
  BY <1>1, <1>3, TakeStep, CopyGrounded DEF Closes, Merges, Calls
<1> QED
  BY <1>2, <1>3 DEF ReadStep

LEMMA ListKeeps == ASSUME Inv, NEW a \in Actors, ListStep(a) PROVE Inv'
<1> DEFINE p == run[a].pr
<1>1. Busy(a) /\ Head(run[a].todo).op = "list" /\ UNCHANGED <<state, did, approvals, asked>>
  BY DEF ListStep, At, history
<1>2. CASE Quits(a)
  BY <1>1, <1>2, QuitStep
<1>3. ASSUME remote[p].state \in Head(run[a].todo).in, NEW kept \in BOOLEAN, Takes(a, Listed(p, kept)) PROVE Inv'
  <2>1. /\ record[p] \in AnyRecord /\ remote[p] \in AnyRemote /\ Accounted(remote[p], did[p])
        /\ Grounds(record[p], approvals[p], did[p], p \in asked)
    BY <1>1, CopyGrounded
  <2>2. remote[p].state \in States \ {"spam"} /\ remote[p].conflict \in BOOLEAN /\ record[p].approved \in BOOLEAN
        /\ record[p].spam \in BOOLEAN
    BY <2>1 DEF AnyRecord, AnyRemote
  <2>3. Listed(p, kept) \in AnyRecord
    BY <2>2 DEF AnyRecord, Listed, NoRecord
  <2>4. approvals[p] \in Nat
    BY <1>1, AtWork DEF Inv, Typed
  <2>5. Grounds(Listed(p, kept), approvals[p], did[p], p \in asked)
    <3> DEFINE l == Listed(p, kept)
    <3>1. l.state = remote[p].state /\ l.votes = 0
      BY DEF Listed, NoRecord
    <3>2. (l.approved => record[p].approved) /\ (l.spam => record[p].spam)
      BY <2>2 DEF Listed, NoRecord
    <3>3. l.state # "spam"
      BY <2>2, <3>1
    <3> HIDE DEF l
    <3>4. Grounds(l, approvals[p], did[p], p \in asked)
      BY <2>1, <2>4, <3>1, <3>2, <3>3 DEF Grounds, Accounted
    <3> QED
      BY <3>4 DEF l
  <2>6. Closes(Head(run[a].todo)) => did[p] # {}
    BY <1>1, <1>3, <2>1 DEF Closes, Calls, Accounted
  <2>7. Merges(Head(run[a].todo)) => "merge" \in did[p]
    BY <1>1, <1>3, <2>1 DEF Merges, Calls, Accounted
  <2> QED
    BY <1>1, <1>3, <2>3, <2>5, <2>6, <2>7, TakeStep
<1> QED
  BY <1>2, <1>3 DEF ListStep

LEMMA KeepKeeps == ASSUME Inv, NEW a \in Actors, KeepStep(a) PROVE Inv'
<1> DEFINE r == record[run[a].pr]
           c == run[a].copy
           b == [c EXCEPT !.approved = r.approved, !.spam = r.spam]
<1>1. Busy(a) /\ Head(run[a].todo).op = "keep" /\ UNCHANGED <<state, did, approvals, asked>>
  BY DEF KeepStep, At, history
<1>2. CASE Quits(a)
  BY <1>1, <1>2, QuitStep
<1>3. CASE Takes(a, b)
  <2>1. c \in AnyRecord /\ r \in AnyRecord
    BY <1>1, AtWork, CopyGrounded
  <2>2. b \in AnyRecord /\ b.approved = r.approved /\ b.spam = r.spam /\ b.state = c.state /\ b.votes = c.votes
    BY <2>1 DEF AnyRecord
  <2>3. Grounds(b, approvals[run[a].pr], did[run[a].pr], run[a].pr \in asked)
    BY <1>1, <2>2, CopyGrounded DEF Grounds
  <2> QED
    BY <1>1, <1>3, <2>2, <2>3, TakeStep DEF Closes, Merges, Calls
<1> QED
  BY <1>2, <1>3 DEF KeepStep

LEMMA RefreshKeeps == ASSUME Inv, NEW a \in Actors, RefreshStep(a) PROVE Inv'
<1> DEFINE p == run[a].pr
           c == run[a].copy
           x == Head(run[a].todo)
<1>1. Busy(a) /\ x.op = "refresh" /\ UNCHANGED <<state, did, approvals, asked>>
  BY DEF RefreshStep, At, history
<1>2. /\ c \in AnyRecord /\ remote[p] \in AnyRemote /\ Accounted(remote[p], did[p])
      /\ Grounds(c, approvals[p], did[p], p \in asked)
  BY <1>1, AtWork, CopyGrounded
<1>3. remote[p].state \in States \ {"spam"} /\ remote[p].conflict \in BOOLEAN
  BY <1>2 DEF AnyRemote
<1>4. ASSUME NEW b \in AnyRecord, Grounds(b, approvals[p], did[p], p \in asked), Takes(a, b) PROVE Inv'
  BY <1>1, <1>4, TakeStep DEF Closes, Merges, Calls
<1>5. ASSUME NEW s \in Answers(remote[p].state)
      PROVE  s \in States \ {"spam"} /\ (s = "closed" => did[p] # {}) /\ (s = "merged" => "merge" \in did[p])
  BY <1>2, <1>3 DEF Answers, Accounted, States
<1>6. ASSUME NEW s \in Answers(remote[p].state)
      PROVE  /\ [c EXCEPT !.state = s] \in AnyRecord
             /\ Grounds([c EXCEPT !.state = s], approvals[p], did[p], p \in asked)
  <2> DEFINE b == [c EXCEPT !.state = s]
  <2>1. s \in States
    BY <1>5
  <2>2. /\ b \in AnyRecord /\ b.state = s /\ b.approved = c.approved /\ b.votes = c.votes /\ b.spam = c.spam
    BY <1>2, <2>1 DEF AnyRecord
  <2> HIDE DEF b
  <2>3. Grounds(b, approvals[p], did[p], p \in asked)
    BY <1>2, <1>5, <2>2 DEF Grounds
  <2> QED
    BY <2>2, <2>3 DEF b
<1>7. ASSUME NEW s \in Answers(remote[p].state), Takes(a, [c EXCEPT !.state = s]) PROVE Inv'
  BY <1>4, <1>6, <1>7
<1>8. ASSUME NEW s \in Answers(remote[p].state),
             Takes(a, [c EXCEPT !.state = s, !.draft = FALSE, !.conflict = remote[p].conflict])
      PROVE  Inv'
  <2> DEFINE b == [c EXCEPT !.state = s, !.draft = FALSE, !.conflict = remote[p].conflict]
  <2>1. s \in States
    BY <1>5
  <2>2. /\ b \in AnyRecord /\ b.state = s /\ b.approved = c.approved /\ b.votes = c.votes /\ b.spam = c.spam
    BY <1>2, <1>3, <2>1 DEF AnyRecord
  <2>3. Takes(a, b)
    BY <1>8
  <2> HIDE DEF b
  <2>4. Grounds(b, approvals[p], did[p], p \in asked)
    BY <1>2, <1>5, <2>2 DEF Grounds
  <2> QED
    BY <1>4, <2>2, <2>3, <2>4
<1>9. ASSUME x.what = "merged", Takes(a, [c EXCEPT !.state = "merged"]) PROVE Inv'
  <2> DEFINE b == [c EXCEPT !.state = "merged"]
  <2>1. /\ b \in AnyRecord /\ b.state = "merged" /\ b.approved = c.approved /\ b.votes = c.votes /\ b.spam = c.spam
    BY <1>2 DEF AnyRecord, States
  <2>2. "merge" \in did[p]
    <3>1. Merging(run[a].todo, did[p]) /\ x = run[a].todo[1] /\ 1 \in DOMAIN run[a].todo
      BY <1>1, AtWork DEF UnderWay
    <3>2. SaysMerged(run[a].todo[1])
      BY <3>1, <1>1, <1>9 DEF SaysMerged
    <3> HIDE DEF x, p
    <3> QED
      BY <3>1, <3>2 DEF Merging
  <2>3. Takes(a, b)
    BY <1>9
  <2> HIDE DEF b
  <2>4. Grounds(b, approvals[p], did[p], p \in asked)
    BY <1>2, <2>1, <2>2 DEF Grounds
  <2> QED
    BY <1>4, <2>1, <2>3, <2>4
<1>10. ASSUME Takes(a, c) PROVE Inv'
  BY <1>2, <1>4, <1>10
<1>11. CASE x.what = "merged"
  <2>1. \/ \E s \in Answers(remote[p].state) : Takes(a, [c EXCEPT !.state = s])
        \/ Takes(a, [c EXCEPT !.state = "merged"])
    BY <1>11 DEF RefreshStep
  <2> QED
    BY <1>7, <1>9, <1>11, <2>1
<1>12. CASE x.what # "merged"
  <2>1. \/ \E s \in Answers(remote[p].state) :
             Takes(a, [c EXCEPT !.state = s, !.draft = FALSE, !.conflict = remote[p].conflict])
        \/ Takes(a, c)
    BY <1>12 DEF RefreshStep
  <2> QED
    BY <1>8, <1>10, <2>1
<1> QED
  BY <1>11, <1>12

LEMMA OnlyKeeps == ASSUME Inv, NEW a \in Actors, OnlyStep(a) PROVE Inv'
<1>1. Busy(a) /\ Head(run[a].todo).op = "only" /\ UNCHANGED <<state, did, approvals, asked>> /\ (Goes(a) \/ Quits(a))
  BY DEF OnlyStep, At, history
<1> QED
  BY <1>1, QuitStep, GoStep

LEMMA FailKeeps == ASSUME Inv, NEW a \in Actors, CallFails(a) PROVE Inv'
<1>1. /\ Busy(a) /\ UNCHANGED <<state, did, approvals, asked>>
      /\ Quits(a) \/ (Head(run[a].todo).op = "try" /\ Goes(a))
  BY DEF CallFails, At
<1> QED
  BY <1>1, QuitStep, GoStep

LEMMA ReadCountKeeps == ASSUME Inv, NEW a \in Actors, ReadCountStep(a) PROVE Inv'
<1>1. Busy(a) /\ Head(run[a].todo).op = "readcount" /\ UNCHANGED <<state, did, approvals, asked>>
  BY DEF ReadCountStep, At, history
<1>2. run[a] \in Runs /\ run[a].copy \in AnyRecord /\ strikes \in Nat
  BY <1>1, AtWork DEF Inv, Typed
<1>3. RunOK(Onward([run[a] EXCEPT !.copy = run[a].copy, !.count = strikes]), approvals, did, asked)
  BY <1>1, <1>2, CopyOK, CopyGrounded DEF Closes, Merges, Calls
<1>4. RunOK(Onward([run[a] EXCEPT !.count = strikes]), approvals, did, asked)
  BY <1>2, <1>3, SameCount
<1> QED
  BY <1>1, <1>4, RunStep DEF ReadCountStep

-----------------------------------------------------------------------------
\* Steps that write

LEMMA SaveSteps == \A x \in StepSet : x.op = "save" => x.what \in Changes
BY DEF StepSet

\* There are grounds for what is saved, since the step that saves it is under way.
LEMMA ChangedGrounded ==
  ASSUME Inv, NEW a \in Actors, Busy(a), Head(run[a].todo).op = "save"
  PROVE  LET r == Changed(Head(run[a].todo).what, run[a].copy)
         IN  r \in AnyRecord /\ Grounds(r, approvals[run[a].pr], did[run[a].pr], run[a].pr \in asked)
<1> DEFINE p == run[a].pr
           c == run[a].copy
           x == Head(run[a].todo)
           w == x.what
           n == approvals[p]
           d == did[p]
           k == p \in asked
           s == run[a].todo
<1>1. /\ x \in StepSet /\ x = s[1] /\ 1 \in DOMAIN s /\ c \in AnyRecord /\ p \in PRs /\ UnderWay(s, c, n, d, k)
  BY AtWork
<1>2. w \in Changes
  BY <1>1, SaveSteps
<1>3. Grounds(c, n, d, k) /\ n \in Nat
  BY <1>1 DEF UnderWay, Inv, Typed
<1>4. \A y : w = y => Saves(s[1], y)
  BY <1>1 DEF Saves
<1> HIDE DEF x, s, n, d, k
<1>5. /\ w = "approved" => n > 0
      /\ w = "voted" => c.votes < n
      /\ w = "closed" => d # {}
      /\ w = "merged" => "merge" \in d
      /\ w = "spam" => k
  <2>1. w = "approved" => n > 0
    BY <1>1, <1>4 DEF UnderWay, Approving
  <2>2. w = "voted" => c.votes < n
    BY <1>1, <1>4 DEF UnderWay, Voting
  <2>3. w = "closed" => d # {}
    BY <1>1, <1>4 DEF UnderWay, Closing
  <2>4. w = "merged" => "merge" \in d
    BY <1>1, <1>4 DEF UnderWay, Merging, SaysMerged
  <2>5. w = "spam" => k
    BY <1>1, <1>4 DEF UnderWay, Spamming
  <2> QED
    BY <2>1, <2>2, <2>3, <2>4, <2>5
<1>6. /\ c.state \in States /\ c.approved \in BOOLEAN /\ c.votes \in Nat /\ c.draft \in BOOLEAN /\ c.spam \in BOOLEAN
      /\ c.conflict \in BOOLEAN
  BY <1>1 DEF AnyRecord
<1> DEFINE r == Changed(w, c)
           Right == r \in AnyRecord /\ Grounds(r, n, d, k)
<1> HIDE DEF w
<1>7. ASSUME w = "approved" \/ w = "voted" PROVE Right
  <2>1. /\ r \in AnyRecord /\ r.approved /\ r.state = c.state /\ r.spam = c.spam
        /\ r.votes = IF w = "voted" THEN c.votes + 1 ELSE c.votes
    <3>1. CASE w = "approved"
      BY <1>1, <1>6, <3>1 DEF Changed, AnyRecord
    <3>2. CASE w = "voted"
      <4> DEFINE v == c.votes + 1
      <4>1. r = [c EXCEPT !.approved = TRUE, !.votes = v]
        BY <3>2 DEF Changed
      <4>2. v \in Nat
        BY <1>6
      <4> HIDE DEF r, v
      <4>3. r \in AnyRecord /\ r.approved /\ r.state = c.state /\ r.spam = c.spam /\ r.votes = v
        BY <1>1, <4>1, <4>2 DEF AnyRecord
      <4> QED
        BY <3>2, <4>3 DEF v
    <3> QED
      BY <1>7, <3>1, <3>2
  <2> HIDE DEF r
  <2>2. n > 0 /\ r.votes <= n
    BY <1>3, <1>5, <1>6, <1>7, <2>1 DEF Grounds
  <2> QED
    BY <1>3, <2>1, <2>2 DEF Grounds
<1>8. ASSUME w = "closed" \/ w = "merged" PROVE Right
  <2>1. r \in AnyRecord /\ r.approved = c.approved /\ r.state = w /\ r.spam = c.spam /\ r.votes = c.votes
    BY <1>1, <1>6, <1>8 DEF Changed, AnyRecord, States
  <2> HIDE DEF r
  <2> QED
    BY <1>3, <1>5, <1>8, <2>1 DEF Grounds
<1>9. ASSUME w = "open" \/ w = "spam" PROVE Right
  <2>1. /\ r \in AnyRecord /\ r.approved = c.approved /\ r.state = w /\ r.spam = (w = "spam") /\ r.votes = c.votes
    BY <1>1, <1>6, <1>9 DEF Changed, AnyRecord, States
  <2> HIDE DEF r
  <2> QED
    BY <1>3, <1>5, <1>9, <2>1 DEF Grounds
<1>10. ASSUME w = "draft" \/ w = "ready" \/ w = "event" PROVE Right
  <2>1. r \in AnyRecord /\ r.approved = c.approved /\ r.state = c.state /\ r.spam = c.spam /\ r.votes = c.votes
    BY <1>1, <1>6, <1>10 DEF Changed, AnyRecord
  <2> HIDE DEF r
  <2> QED
    BY <1>3, <2>1 DEF Grounds
<1> QED
  BY <1>2, <1>7, <1>8, <1>9, <1>10 DEF Changes, w, x, n, d, k

\* A step that writes records, queue or the count of strikes, and makes no call.
LEMMA WriteStep ==
  ASSUME Inv, NEW a \in Actors, NEW r, run' = [run EXCEPT ![a] = r], RunOK(r, approvals, did, asked),
         UNCHANGED <<remote, did, approvals, asked>>, record' \in [PRs -> AnyRecord], strikes' \in Nat,
         queue' \subseteq PRs, ClaimsHaveGrounds'
  PROVE  Inv'
<1>1. Grows
  BY SameGrows DEF Inv, Typed
<1>2. RunOK(r, approvals', did', asked')
  OBVIOUS
<1>3. run' \in [Actors -> Runs] /\ RunsFit'
  BY <1>1, <1>2, RunsKept
<1>4. Typed'
  BY <1>3 DEF Inv, Typed
<1>5. Grounded'
  BY DEF Inv, Grounded
<1> QED
  BY <1>3, <1>4, <1>5 DEF Inv

LEMMA SaveKeeps == ASSUME Inv, NEW a \in Actors, SaveStep(a) PROVE Inv'
<1> DEFINE p == run[a].pr
           r == Changed(Head(run[a].todo).what, run[a].copy)
<1>1. /\ Busy(a) /\ Head(run[a].todo).op = "save" /\ record' = [record EXCEPT ![p] = r] /\ Takes(a, r)
      /\ UNCHANGED <<remote, queue, strikes, did, approvals, asked>>
  BY DEF SaveStep, At, history
<1>2. r \in AnyRecord /\ Grounds(r, approvals[p], did[p], p \in asked)
  BY <1>1, ChangedGrounded
<1>3. run[a] \in Runs /\ p \in PRs /\ run[a].count \in Nat
  BY <1>1, AtWork, RunTyped
<1> HIDE DEF r
<1>4. RunOK(Onward([run[a] EXCEPT !.copy = r, !.count = run[a].count]), approvals, did, asked)
  BY <1>1, <1>2, <1>3, CopyOK DEF Closes, Merges, Calls
<1>5. RunOK(Onward([run[a] EXCEPT !.copy = r]), approvals, did, asked)
  BY <1>3, <1>4, SameCount
<1> HIDE DEF p
<1>6. record' \in [PRs -> AnyRecord] /\ record'[p] = r /\ \A q \in PRs : q # p => record'[q] = record[q]
  BY <1>1, <1>2, <1>3 DEF Inv, Typed
<1>7. ClaimsHaveGrounds'
  BY <1>1, <1>2, <1>6 DEF Inv, ClaimsHaveGrounds
<1>8. queue' \subseteq PRs /\ strikes' \in Nat
  BY <1>1 DEF Inv, Typed
<1> QED
  BY <1>1, <1>5, <1>6, <1>7, <1>8, WriteStep DEF Takes

LEMMA MisfileKeeps == ASSUME Inv, NEW a \in Actors, MisfileStep(a) PROVE Inv'
<1>1. /\ Busy(a) /\ Head(run[a].todo).op = "misfile" /\ Goes(a)
      /\ UNCHANGED <<record, remote, queue, strikes, did, approvals, asked>>
  BY DEF MisfileStep, At, history
<1>2. record' \in [PRs -> AnyRecord] /\ queue' \subseteq PRs /\ strikes' \in Nat /\ ClaimsHaveGrounds'
  BY <1>1 DEF Inv, Typed, ClaimsHaveGrounds
<1> QED
  BY <1>1, <1>2, GoOK, WriteStep DEF Goes

LEMMA WriteCountKeeps == ASSUME Inv, NEW a \in Actors, WriteCountStep(a) PROVE Inv'
<1>1. /\ Busy(a) /\ Head(run[a].todo).op = "writecount" /\ Goes(a) /\ strikes' = run[a].count + 1
      /\ UNCHANGED <<record, remote, queue, did, approvals, asked>>
  BY DEF WriteCountStep, At, history, Counted
<1>2. run[a].count \in Nat
  BY <1>1, AtWork, RunTyped
<1>3. record' \in [PRs -> AnyRecord] /\ queue' \subseteq PRs /\ strikes' \in Nat /\ ClaimsHaveGrounds'
  BY <1>1, <1>2 DEF Inv, Typed, ClaimsHaveGrounds
<1> QED
  BY <1>1, <1>3, GoOK, WriteStep DEF Goes

LEMMA QueueKeeps == ASSUME Inv, NEW a \in Actors, QueueStep(a) PROVE Inv'
<1> DEFINE p == run[a].pr
<1>1. /\ Busy(a) /\ Goes(a) /\ Head(run[a].todo).op \in {"enqueue", "dequeue"}
      /\ Head(run[a].todo).op = "dequeue" => queue' \subseteq queue
      /\ queue' \subseteq queue \cup {p}
      /\ UNCHANGED <<record, remote, strikes, did, approvals, asked>>
  BY DEF QueueStep, At, history
<1>2. p \in PRs /\ approvals[p] \in Nat
  BY <1>1, AtWork DEF Inv, Typed
<1>3. Head(run[a].todo).op = "enqueue" => p \in asked \/ approvals[p] > 0
  <2>1. /\ Head(run[a].todo) = run[a].todo[1] /\ 1 \in DOMAIN run[a].todo
        /\ Queueing(run[a].todo, approvals[p], p \in asked)
    BY <1>1, AtWork DEF UnderWay
  <2> QED
    BY <2>1 DEF Queueing
<1>4. record' \in [PRs -> AnyRecord] /\ queue' \subseteq PRs /\ strikes' \in Nat
  BY <1>1, <1>2 DEF Inv, Typed
<1>5. ClaimsHaveGrounds'
  BY <1>1, <1>2, <1>3 DEF Inv, ClaimsHaveGrounds
<1> QED
  BY <1>1, <1>4, <1>5, GoOK, WriteStep DEF Goes

-----------------------------------------------------------------------------
\* Calls

LEMMA CallSteps == \A x \in StepSet : x.op \in {"call", "try"} => x.what \in Requests
BY DEF StepSet

\* A call keeps the account of how the platform came to stand where it does.
LEMMA PlatformAfter ==
  ASSUME NEW c \in Requests, NEW r \in AnyRemote, NEW d \in SUBSET {"close", "merge"}, Accounted(r, d)
  PROVE  After(c, r) \in AnyRemote /\ Accounted(After(c, r), d \cup ({c} \cap {"close", "merge"}))
<1> DEFINE e == d \cup ({c} \cap {"close", "merge"})
<1>1. r.state \in States \ {"spam"} /\ r.conflict \in BOOLEAN
  BY DEF AnyRemote
<1>2. CASE c = "close"
  <2>1. After(c, r) \in AnyRemote /\ After(c, r).state = "closed" /\ "close" \in e
    BY <1>1, <1>2 DEF After, AnyRemote, States
  <2> QED
    BY <2>1 DEF Accounted
<1>3. CASE c = "merge"
  <2>1. After(c, r) \in AnyRemote /\ After(c, r).state = "merged" /\ "merge" \in e
    BY <1>1, <1>3 DEF After, AnyRemote, States
  <2> QED
    BY <2>1 DEF Accounted
<1>4. CASE c = "reopen"
  <2>1. After(c, r) \in AnyRemote /\ After(c, r).state = "open"
    BY <1>1, <1>4 DEF After, AnyRemote, States
  <2> QED
    BY <2>1 DEF Accounted
<1>5. CASE c \in {"approve", "rebase", "cherry-pick", "revert"}
  <2>1. After(c, r) \in AnyRemote /\ After(c, r).state = r.state
    BY <1>1, <1>5 DEF After, AnyRemote
  <2> QED
    BY <2>1 DEF Accounted
<1> QED
  BY <1>2, <1>3, <1>4, <1>5 DEF Requests

LEMMA CallKeeps == ASSUME Inv, NEW a \in Actors, CallStep(a) PROVE Inv'
<1> DEFINE p == run[a].pr
           x == Head(run[a].todo)
           c == x.what
           k == run[a].copy
           b == IF c = "rebase" THEN [k EXCEPT !.conflict = FALSE] ELSE k
           q == [run[a] EXCEPT !.copy = b]
           e == did[p] \cup ({c} \cap {"close", "merge"})
           m == IF c = "approve" THEN approvals[p] + 1 ELSE approvals[p]
<1>1. /\ Busy(a) /\ x.op \in {"call", "try"} /\ c # "revert"
      /\ remote' = [remote EXCEPT ![p] = After(c, remote[p])]
      /\ did' = [did EXCEPT ![p] = e] /\ approvals' = [approvals EXCEPT ![p] = m]
      /\ run' = [run EXCEPT ![a] = Onward(q)]
      /\ UNCHANGED <<record, queue, strikes, asked>>
  BY DEF CallStep, At, Takes
<1>2. /\ p \in PRs /\ x \in StepSet /\ k \in AnyRecord /\ run[a] \in Runs
      /\ Grounds(k, approvals[p], did[p], p \in asked)
      /\ remote[p] \in AnyRemote /\ Accounted(remote[p], did[p])
  BY <1>1, AtWork, CopyGrounded
<1>3. c \in Requests
  BY <1>1, <1>2, CallSteps
<1>4. b \in AnyRecord /\ b.state = k.state /\ b.approved = k.approved /\ b.votes = k.votes /\ b.spam = k.spam
  BY <1>2 DEF AnyRecord
<1>5. approvals[p] \in Nat /\ did[p] \in SUBSET {"close", "merge"}
  BY <1>2 DEF Inv, Typed, Done
<1>6. /\ m \in Nat /\ approvals[p] <= m /\ (c = "approve" => m > 0 /\ approvals[p] < m)
      /\ e \in SUBSET {"close", "merge"} /\ did[p] \subseteq e
      /\ (c \in {"close", "merge"} => e # {}) /\ (c = "merge" => "merge" \in e)
  <2> HIDE DEF p, c
  <2>1. m \in Nat /\ approvals[p] <= m /\ (c = "approve" => m > 0 /\ approvals[p] < m)
    BY <1>5
  <2>2. e \in SUBSET {"close", "merge"} /\ did[p] \subseteq e
    BY <1>5
  <2>3. c \in {"close", "merge"} => c \in e
    OBVIOUS
  <2> QED
    BY <2>1, <2>2, <2>3
<1>7. After(c, remote[p]) \in AnyRemote /\ Accounted(After(c, remote[p]), e)
  BY <1>2, <1>3, <1>5, PlatformAfter
<1> HIDE DEF b, e, m
<1>8. q \in Runs /\ q.pr = p /\ q.todo = run[a].todo /\ q.cmd = run[a].cmd /\ q.left = run[a].left /\ q.copy = b
  BY <1>2, <1>4 DEF Runs
<1> HIDE DEF q
<1>9. Grounds(b, m, e, p \in asked) /\ b.votes \in Nat /\ b.votes <= approvals[p]
  BY <1>2, <1>4, <1>5, <1>6 DEF Grounds, AnyRecord
<1>10. ~Calls(x, "revert") /\ (Calls(x, "approve") => m > 0 /\ b.votes < m)
  BY <1>1, <1>5, <1>6, <1>9 DEF Calls
<1>11. (Closes(x) => e # {}) /\ (Merges(x) => "merge" \in e)
  BY <1>1, <1>6 DEF Closes, Merges, Calls
<1> HIDE DEF p, x, c
<1>12. /\ approvals' \in [PRs -> Nat] /\ did' \in Done /\ approvals'[p] = m /\ did'[p] = e
       /\ \A o \in PRs : o # p => approvals'[o] = approvals[o] /\ did'[o] = did[o]
  BY <1>1, <1>2, <1>6 DEF Inv, Typed, Done
<1>13. RunOK(Onward(q), approvals', did', asked)
  <2>1. /\ approvals[q.pr] <= approvals'[q.pr] /\ did[q.pr] \subseteq did'[q.pr]
        /\ Grounds(q.copy, approvals'[q.pr], did'[q.pr], q.pr \in asked) /\ ~Calls(x, "revert")
        /\ Calls(x, "approve") => approvals'[q.pr] > 0 /\ q.copy.votes < approvals'[q.pr]
        /\ Closes(x) => did'[q.pr] # {}
        /\ Merges(x) => "merge" \in did'[q.pr]
    BY <1>6, <1>8, <1>9, <1>10, <1>11, <1>12
  <2>2. Busy(a) /\ approvals' \in [PRs -> Nat] /\ did' \in Done
    BY <1>1, <1>12
  <2> QED
    BY <1>8, <2>1, <2>2, GoOnOK DEF p, x
<1>14. Grows
  <2>1. \A o \in PRs : approvals[o] \in Nat
    BY DEF Inv, Typed
  <2>2. ASSUME NEW o \in PRs PROVE approvals[o] <= approvals'[o] /\ did[o] \subseteq did'[o]
    <3>1. CASE o = p
      BY <1>6, <1>12, <3>1
    <3>2. CASE o # p
      BY <1>12, <2>1, <3>2
    <3> QED
      BY <3>1, <3>2
  <2> QED
    BY <1>1, <1>12, <2>2 DEF Grows, Inv, Typed
<1>15. run' \in [Actors -> Runs] /\ RunsFit'
  BY <1>1, <1>13, <1>14, RunsKept
<1>16. /\ remote' \in [PRs -> AnyRemote] /\ remote'[p] = After(c, remote[p])
       /\ \A o \in PRs : o # p => remote'[o] = remote[o]
  BY <1>1, <1>2, <1>7 DEF Inv, Typed
<1>17. Typed'
  BY <1>1, <1>12, <1>15, <1>16 DEF Inv, Typed
<1>18. Grounded'
  BY <1>7, <1>12, <1>16 DEF Inv, Grounded
<1>19. ClaimsHaveGrounds'
  <2>1. ASSUME NEW o \in PRs
        PROVE  /\ Grounds(record[o], approvals'[o], did'[o], o \in asked)
               /\ o \in queue => o \in asked \/ approvals'[o] > 0
    <3>1. approvals[o] \in Nat /\ approvals'[o] \in Nat /\ record[o].votes \in Nat
      BY <1>12 DEF Inv, Typed, AnyRecord
    <3>2. approvals[o] <= approvals'[o] /\ did[o] \subseteq did'[o]
      BY <1>14 DEF Grows
    <3>3. Grounds(record[o], approvals[o], did[o], o \in asked) /\ (o \in queue => o \in asked \/ approvals[o] > 0)
      BY DEF Inv, ClaimsHaveGrounds
    <3>4. o \in queue => o \in asked \/ approvals'[o] > 0
      BY <3>1, <3>2, <3>3
    <3>5. Grounds(record[o], approvals'[o], did'[o], o \in asked)
      BY <3>1, <3>2, <3>3 DEF Grounds
    <3> QED
      BY <3>4, <3>5
  <2> QED
    BY <1>1, <2>1 DEF ClaimsHaveGrounds
<1> QED
  BY <1>15, <1>17, <1>18, <1>19 DEF Inv

LEMMA RevertKeeps == ASSUME Inv, NEW a \in Actors, RevertStep(a) PROVE Inv'
<1> DEFINE x == Head(run[a].todo)
           s == run[a].todo
<1>1. PICK q \in PRs : /\ remote[q].state = "none"
                       /\ remote' = [remote EXCEPT ![q].state = "open"]
                       /\ run' = [run EXCEPT ![a] = Onward([run[a] EXCEPT !.pr = q, !.copy = Opened])]
                       /\ asked' = asked \cup {q}
  BY DEF RevertStep
<1>2. Busy(a) /\ x.op = "call" /\ x.what = "revert" /\ UNCHANGED <<record, queue, strikes, did, approvals>>
  BY DEF RevertStep, At
<1>3. asked' \subseteq PRs /\ asked \subseteq asked' /\ Grows
  <2>1. asked' \subseteq PRs /\ asked \subseteq asked'
    BY <1>1 DEF Inv, Typed
  <2> QED
    BY <1>2, <2>1, SameGrows DEF Inv
<1> DEFINE b == [run[a] EXCEPT !.pr = q, !.copy = Opened]
<1>4. /\ run[a] \in Runs /\ s \in Seq(StepSet) /\ run[a].copy \in AnyRecord /\ run[a].pr \in PRs /\ x = s[1]
      /\ UnderWay(s, run[a].copy, approvals[run[a].pr], did[run[a].pr], run[a].pr \in asked)
  BY <1>2, AtWork
<1>5. Opened \in AnyRecord
  BY NothingClaimed DEF Opened, AnyRecord, States
<1>6. b \in Runs /\ b.pr = q /\ b.todo = s /\ b.cmd = run[a].cmd /\ b.left = run[a].left /\ b.copy = Opened
  BY <1>4, <1>5 DEF Runs
<1> HIDE DEF b
<1>7. LeftOK(run[a], asked')
  <2>1. RunOK(run[a], approvals, did, asked)
    BY DEF Inv, RunsFit
  <2>2. approvals \in [PRs -> Nat] /\ did \in Done /\ \A p \in PRs : approvals[p] <= approvals[p] /\ did[p] \subseteq did[p]
    BY DEF Inv, Typed
  <2>3. NoPR \notin PRs
    BY CommandsAssumption
  <2>4. RunOK(run[a], approvals, did, asked')
    BY <1>3, <2>1, <2>2, <2>3, MoreRun
  <2> QED
    BY <2>4 DEF RunOK
<1>8. LeftOK(b, asked')
  BY <1>6, <1>7 DEF LeftOK
<1>9. Len(s) > 1 => UnderWay(Tail(s), Opened, approvals[q], did[q], TRUE)
  <2>1. Calls(s[1], "revert")
    BY <1>2, <1>4 DEF Calls
  <2>2. approvals[q] \in Nat /\ approvals[run[a].pr] \in Nat /\ (run[a].pr \in asked) \in BOOLEAN
    BY <1>4 DEF Inv, Typed
  <2> HIDE DEF s
  <2> QED
    BY <1>4, <2>1, <2>2, RevertUnderWay
<1>10. (q \in asked') = TRUE
  BY <1>1
<1>11. Len(b.todo) > 1 => UnderWay(Tail(b.todo), b.copy, approvals[b.pr], did[b.pr], b.pr \in asked')
  BY <1>6, <1>9, <1>10
<1>12. RunOK(Onward(b), approvals', did', asked')
  <2>1. b.pr \in PRs /\ approvals \in [PRs -> Nat] /\ did \in Done
    BY <1>6 DEF Inv, Typed
  <2>2. RunOK(Onward(b), approvals, did, asked')
    BY <1>6, <1>8, <1>11, <2>1, OnwardOK
  <2> QED
    BY <1>2, <2>2
<1>13. run' \in [Actors -> Runs] /\ RunsFit'
  BY <1>1, <1>3, <1>12, RunsKept DEF b
<1>14. /\ remote' \in [PRs -> AnyRemote] /\ remote'[q].state = "open" /\ \A p \in PRs : p # q => remote'[p] = remote[p]
  BY <1>1 DEF Inv, Typed, AnyRemote, States
<1>15. Typed'
  BY <1>1, <1>2, <1>3, <1>13, <1>14 DEF Inv, Typed
<1>16. Grounded'
  BY <1>2, <1>14 DEF Inv, Grounded, Accounted
<1>17. ClaimsHaveGrounds'
  BY <1>2, <1>3 DEF Inv, ClaimsHaveGrounds, Grounds
<1> QED
  BY <1>13, <1>15, <1>16, <1>17 DEF Inv

-----------------------------------------------------------------------------
\* Commands, and the theorem

\* A command that begins is under way for each of its pull requests.
LEMMA BeginsKeeps ==
  ASSUME Inv, NEW a \in Actors, NEW ps \in Seq(PRs), NEW cmd, Begins(a, cmd, ps), ps # <<>>,
         cmd \in RestCommands \cup ChatCommands \cup Chores \cup RestBatches \cup ChatBatches \cup {Poll}
  PROVE  Inv'
<1> DEFINE S == {ps[i] : i \in DOMAIN ps}
           q == [Idle EXCEPT !.cmd = cmd, !.left = ps]
<1>1. /\ run' = [run EXCEPT ![a] = NextPR(q)]
      /\ asked' = IF cmd \in Asking THEN asked \cup S ELSE asked
      /\ UNCHANGED <<record, remote, queue, strikes, did, approvals>>
  BY DEF Begins, Start, state
<1>2. \A i \in DOMAIN ps : ps[i] \in PRs
  BY ElementOfSeq, LenProperties
<1>3. asked' \subseteq PRs /\ asked \subseteq asked' /\ Grows
  <2>1. S \subseteq PRs
    BY <1>2
  <2>2. asked' \subseteq PRs /\ asked \subseteq asked'
    BY <1>1, <2>1 DEF Inv, Typed
  <2> QED
    BY <1>1, <2>2, SameGrows DEF Inv
<1>4. cmd \in Seq(StepSet) /\ cmd # <<>> /\ UnderWay(cmd, NoRecord, 0, {}, cmd \in Asking)
  BY CommandUnderWay
<1>5. q \in Runs /\ q.cmd = cmd /\ q.left = ps
  <2>1. Idle \in Runs
    BY IdleOK DEF RunOK
  <2> QED
    BY <1>4, <2>1 DEF Runs
<1> HIDE DEF q
<1>6. \A i \in DOMAIN ps : cmd \in Asking => ps[i] \in asked'
  BY <1>1
<1> HIDE DEF S
<1>7. ASSUME NEW i \in DOMAIN ps PROVE UnderWay(cmd, NoRecord, 0, {}, ps[i] \in asked')
  <2> DEFINE j == cmd \in Asking
             k == ps[i] \in asked'
  <2>1. j \in BOOLEAN /\ k \in BOOLEAN
    OBVIOUS
  <2>2. (j => k) /\ UnderWay(cmd, NoRecord, 0, {}, j)
    BY <1>4, <1>6
  <2>3. 0 \in Nat /\ 0 <= 0 /\ {} \subseteq {} /\ NoRecord \in AnyRecord /\ cmd \in Seq(StepSet)
    BY <1>4, NothingClaimed
  <2> HIDE DEF j, k
  <2>4. UnderWay(cmd, NoRecord, 0, {}, k)
    BY <2>1, <2>2, <2>3, MoreUnderWay
  <2> QED
    BY <2>4 DEF k
<1>8. LeftOK(q, asked')
  BY <1>4, <1>5, <1>7 DEF LeftOK
<1>9. RunOK(NextPR(q), approvals', did', asked')
  <2>1. approvals' \in [PRs -> Nat] /\ did' \in Done
    BY <1>3 DEF Grows
  <2> QED
    BY <1>5, <1>8, <2>1, NextPROK
<1>10. run' \in [Actors -> Runs] /\ RunsFit'
  BY <1>1, <1>3, <1>9, RunsKept
<1>11. Typed'
  BY <1>1, <1>3, <1>10 DEF Inv, Typed
<1>12. Grounded'
  BY <1>1 DEF Inv, Grounded
<1>13. ClaimsHaveGrounds'
  BY <1>1, <1>3 DEF Inv, ClaimsHaveGrounds, Grounds
<1> QED
  BY <1>10, <1>11, <1>12, <1>13 DEF Inv

LEMMA CommandKeeps == ASSUME Inv, NEW a \in Users, Command(a) PROVE Inv'
<1> DEFINE Cmds == RestCommands \cup ChatCommands \cup Chores \cup RestBatches \cup ChatBatches \cup {Poll}
<1>1. PICK p \in PRs : \/ \E cmd \in Singles[a] : Begins(a, cmd, <<p>>)
                       \/ \E cmd \in Batches[a], q \in PRs \ {p} : Begins(a, cmd, <<p, q>>)
  BY DEF Command
<1>2. /\ \A cmd \in Singles[a] : cmd \in Cmds
      /\ \A cmd \in Batches[a] : cmd \in Cmds
      /\ a \in Actors
  BY CommandsAssumption DEF Actors
<1>3. ASSUME NEW cmd \in Singles[a], Begins(a, cmd, <<p>>) PROVE Inv'
  <2>1. <<p>> \in Seq(PRs) /\ <<p>> # <<>>
    OBVIOUS
  <2> QED
    BY <1>2, <1>3, <2>1, BeginsKeeps
<1>4. ASSUME NEW cmd \in Batches[a], NEW q \in PRs, Begins(a, cmd, <<p, q>>) PROVE Inv'
  <2>1. <<p, q>> \in Seq(PRs) /\ <<p, q>> # <<>>
    OBVIOUS
  <2> QED
    BY <1>2, <1>4, <2>1, BeginsKeeps
<1> QED
  BY <1>1, <1>3, <1>4

LEMMA PollKeeps == ASSUME Inv, NEW p \in PRs, Polls(p) PROVE Inv'
<1>1. <<p>> \in Seq(PRs) /\ <<p>> # <<>> /\ Poller \in Actors /\ Begins(Poller, Poll, <<p>>)
  BY DEF Polls, Actors
<1> QED
  BY <1>1, BeginsKeeps

LEMMA InvInitial == ASSUME Init PROVE Inv
<1>1. PICK s \in Starts : /\ record = s.record /\ remote = s.remote /\ queue = s.queue
                          /\ did = s.did /\ approvals = s.approvals
                          /\ asked = s.queue \cup {p \in PRs : s.record[p].spam}
  BY DEF Init
<1>2. /\ s.record \in [PRs -> AnyRecord] /\ s.remote \in [PRs -> AnyRemote] /\ s.queue \subseteq PRs
      /\ s.did \in [PRs -> SUBSET {"close", "merge"}] /\ s.approvals \in [PRs -> Nat]
      /\ \A p \in PRs : /\ Grounds(s.record[p], s.approvals[p], s.did[p], s.record[p].spam)
                        /\ s.remote[p].state = "closed" => s.did[p] # {}
                        /\ s.remote[p].state = "merged" => "merge" \in s.did[p]
  BY CommandsAssumption
<1>3. \A a \in Actors : run[a] = Idle
  BY DEF Init
<1>4. RunsFit
  BY <1>3, IdleOK DEF RunsFit
<1>5. run \in [Actors -> Runs]
  BY IdleOK DEF Init, RunOK
<1>6. Typed
  BY <1>1, <1>2, <1>5 DEF Init, Typed, Done
<1>7. Grounded
  BY <1>1, <1>2 DEF Grounded, Accounted
<1>8. ClaimsHaveGrounds
  BY <1>1, <1>2 DEF ClaimsHaveGrounds, Grounds
<1> QED
  BY <1>4, <1>6, <1>7, <1>8 DEF Inv

\* Every step keeps the invariant.
LEMMA InvKept == ASSUME Inv, [Next]_vars PROVE Inv'
<1>1. ASSUME NEW a \in Users, Command(a) PROVE Inv'
  BY <1>1, CommandKeeps
<1>2. ASSUME NEW p \in PRs, Polls(p) PROVE Inv'
  BY <1>2, PollKeeps
<1>3. ASSUME NEW a \in Actors, Works(a) PROVE Inv'
  <2>1. CASE ReadStep(a) \/ ListStep(a) \/ KeepStep(a) \/ RefreshStep(a) \/ OnlyStep(a)
    BY <2>1, ReadKeeps, ListKeeps, KeepKeeps, RefreshKeeps, OnlyKeeps
  <2>2. CASE CallStep(a) \/ RevertStep(a) \/ CallFails(a)
    BY <2>2, CallKeeps, RevertKeeps, FailKeeps
  <2>3. CASE SaveStep(a) \/ MisfileStep(a) \/ QueueStep(a) \/ ReadCountStep(a) \/ WriteCountStep(a)
    BY <2>3, SaveKeeps, MisfileKeeps, QueueKeeps, ReadCountKeeps, WriteCountKeeps
  <2> QED
    BY <1>3, <2>1, <2>2, <2>3 DEF Works
<1>4. CASE UNCHANGED vars
  <2>1. UNCHANGED <<record, remote, queue, strikes, run, did, approvals, asked>>
    BY <1>4 DEF vars, state, history
  <2> QED
    BY <2>1 DEF Inv, Typed, ClaimsHaveGrounds, Grounded, RunsFit
<1> QED
  BY <1>1, <1>2, <1>3, <1>4 DEF Next

\* What a record says of a pull request has happened, whatever commands, chores and polls run at once and whichever of
\* their calls fail: for any pull requests, goroutines, commands and numbers of them.
THEOREM ClaimsHaveGroundsHolds == Spec => []ClaimsHaveGrounds
<1>1. Inv => ClaimsHaveGrounds
  BY DEF Inv
<1> QED
  BY <1>1, InvInitial, InvKept, PTL DEF Spec

-----------------------------------------------------------------------------
\* Outlines

\* A record in state r is as near to a platform in state m as a command leaves it.
Near(r, m) == Matches(r, m) \/ r \in Answers(m)

\* What a command knows of its pull request: of record, copy and platform.
Marks == {"ok", "fresh", "shut", "up", "marked", "landed", "told", "new"}
Meets(n, r, c, m) ==
  /\ n \in {"ok", "fresh"} => Near(r, m)
  /\ n \in {"fresh", "told"} => Near(c, m)
  /\ n = "shut" => m = "closed" /\ r # "none"
  /\ n \in {"up", "new"} => m = "open"
  /\ n \in {"landed", "told"} => m = "merged"
  /\ n = "new" => c = "open"
  /\ n = "marked" => r = "spam"

\* What a call makes of a platform, and a change of a record.
Moved(w, m) == CASE w = "close" -> "closed" [] w = "reopen" -> "open" [] w = "merge" -> "merged" [] OTHER -> m
Written(w, c) == IF w \in {"closed", "merged", "open", "spam"} THEN w ELSE c

\* Step x, taken where mark n is met, ends where k is, and where it ends the command record and platform are near.
Leads(n, x, k) ==
  \A r, c \in States, m \in States \ {"spam"} : Meets(n, r, c, m) =>
    /\ x.op = "read" => IF r \in x.in THEN Meets(k, r, r, m) ELSE Near(r, m)
    /\ x.op = "list" => IF m \in x.in THEN Meets(k, r, m, m) ELSE Near(r, m)
    /\ x.op = "keep" => Meets(k, r, c, m) /\ (r = c => Near(r, m))
    /\ Calls(x, "revert") => Near(r, m) /\ Meets(k, "none", "open", "open")
    /\ x.op \in {"call", "try"} /\ x.what # "revert" /\ m \in Accepts(x.what) => Meets(k, r, c, Moved(x.what, m))
    /\ x.op = "refresh" => /\ \A a \in Answers(m) : Meets(k, r, a, m)
                           /\ Meets(k, r, IF x.what = "merged" THEN "merged" ELSE c, m)
    /\ x.op = "save" => Meets(k, Written(x.what, c), Written(x.what, c), m)
    /\ x.op = "only" => Meets(k, r, c, m) /\ Near(r, m)
    /\ x.op \in {"enqueue", "dequeue", "readcount", "writecount"} => Meets(k, r, c, m)

\* An outline of the steps s has a mark before each of them and one at the end, where record and platform are near.
Outline(o, s) == /\ o \in [1..(Len(s) + 1) -> Marks]
                 /\ \A i \in 1..Len(s) : Leads(o[i], s[i], o[i + 1])
                 /\ o[Len(s) + 1] \in {"ok", "fresh"}
Sound(s) == \E o : Outline(o, s) /\ o[1] = "ok"

\* The steps s suit a record in state r, a copy in state c and a platform in state m, or begin where nothing is promised
\* (e).  Even then what is promised of the pull request a revert opens needs its outline.
Steady(s) == \A i \in DOMAIN s : ~Calls(s[i], "revert")
Fit(s, r, c, m, e) == (e /\ Steady(s)) \/ \E o : Outline(o, s) /\ (e \/ Meets(o[1], r, c, m))

\* What a platform says is near to it.
LEMMA NearSelf == \A m \in States \ {"spam"} : Near(m, m)
BY DEF Near, Matches

\* Which marks lead over which steps to which: looks, steps on the side, plain steps, closing calls, writes, calls, and the rest.
LEMMA LooksLead ==
  ASSUME NEW x, x.op \in {"read", "list"}
  PROVE  Leads("ok", x, "fresh") /\ Leads("fresh", x, "fresh")
BY NearSelf DEF Leads, Meets, Calls

LEMMA AsideLead ==
  ASSUME NEW x, x.op \in {"only", "enqueue", "dequeue", "readcount", "writecount"}, NEW n \in {"ok", "fresh"}
  PROVE  Leads(n, x, n)
BY DEF Leads, Meets, Calls

LEMMA AnswersNear == \A m \in States \ {"spam"} : \A a \in Answers(m) : Near(a, m)
BY DEF Near

\* Steps that keep record and copy near.
Plain == {x \in StepSet : /\ x.op # "misfile"
                          /\ x.op \in {"call", "try"} => x.what \notin {"close", "reopen", "merge", "revert"}
                          /\ x.op = "refresh" => x.what # "merged"
                          /\ x.op = "save" => x.what \notin {"closed", "merged", "open", "spam"}}

LEMMA PlainLead ==
  ASSUME NEW x \in Plain PROVE Leads("fresh", x, "fresh")
<1>1. ASSUME x.op \in {"call", "try"} PROVE Leads("fresh", x, "fresh")
  BY <1>1 DEF Plain, Leads, Meets, Moved, Calls
<1>2. ASSUME x.op = "refresh" PROVE Leads("fresh", x, "fresh")
  BY <1>2, AnswersNear DEF Plain, Leads, Meets, Calls
<1>3. ASSUME x.op = "save" PROVE Leads("fresh", x, "fresh")
  BY <1>3 DEF Plain, Leads, Meets, Written, Calls
<1>4. ASSUME x.op = "keep" PROVE Leads("fresh", x, "fresh")
  BY <1>4 DEF Leads, Meets, Calls
<1>5. ASSUME x.op \notin {"call", "try", "refresh", "save", "keep", "read", "list", "only", "enqueue", "dequeue",
                          "readcount", "writecount"} PROVE Leads("fresh", x, "fresh")
  BY <1>5 DEF Leads, Calls
<1> QED
  BY <1>1, <1>2, <1>3, <1>4, <1>5, LooksLead, AsideLead

LEMMA ClosesLead ==
  ASSUME NEW x, x.op \in {"call", "try"}, x.what = "close"
  PROVE  /\ Leads("ok", x, "shut") /\ Leads("fresh", x, "shut")
         /\ Leads("marked", x, "ok") /\ Leads("marked", x, "marked")
<1>1. x.op \notin {"read", "list", "keep", "refresh", "save", "only", "enqueue", "dequeue", "readcount", "writecount"}
  OBVIOUS
<1>2. ~Calls(x, "revert")
  BY DEF Calls
<1>3. \A r \in States, m \in States \ {"spam"} : m \in Accepts("close") /\ Near(r, m) => r # "none"
  BY DEF Accepts, Near, Matches, Answers
<1>4. \A m : Moved("close", m) = "closed"
  BY DEF Moved
<1>5. Leads("ok", x, "shut") /\ Leads("fresh", x, "shut")
  BY <1>1, <1>2, <1>3, <1>4 DEF Leads, Meets
<1>6. Leads("marked", x, "ok") /\ Leads("marked", x, "marked")
  BY <1>1, <1>2, <1>4 DEF Leads, Meets, Near, Matches
<1> QED
  BY <1>5, <1>6

LEMMA SavesLead ==
  ASSUME NEW x, x.op = "save"
  PROVE  /\ x.what = "closed" => Leads("shut", x, "fresh")
         /\ x.what = "spam" => /\ Leads("shut", x, "fresh")
                               /\ Leads("fresh", x, "marked") /\ Leads("marked", x, "marked")
         /\ x.what = "open" => Leads("up", x, "fresh") /\ Leads("new", x, "fresh")
         /\ x.what = "merged" => Leads("landed", x, "fresh")
         /\ x.what = "event" => Leads("told", x, "fresh") /\ Leads("new", x, "fresh")
<1>1. x.op \notin {"read", "list", "keep", "call", "try", "refresh", "only", "enqueue", "dequeue", "readcount", "writecount"}
      /\ ~Calls(x, "revert")
  BY DEF Calls
<1>2. \A c : Written("closed", c) = "closed" /\ Written("spam", c) = "spam" /\ Written("open", c) = "open"
             /\ Written("merged", c) = "merged" /\ Written("event", c) = c
  BY DEF Written
<1>3. Near("closed", "closed") /\ Near("spam", "closed") /\ Near("open", "open") /\ Near("merged", "merged")
  BY DEF Near, Matches
<1>4. x.what = "closed" => Leads("shut", x, "fresh")
  BY <1>1, <1>2, <1>3 DEF Leads, Meets
<1>5. x.what = "spam" => Leads("shut", x, "fresh") /\ Leads("fresh", x, "marked") /\ Leads("marked", x, "marked")
  BY <1>1, <1>2, <1>3 DEF Leads, Meets
<1>6. x.what = "open" => Leads("up", x, "fresh") /\ Leads("new", x, "fresh")
  BY <1>1, <1>2, <1>3 DEF Leads, Meets
<1>7. x.what = "merged" => Leads("landed", x, "fresh")
  BY <1>1, <1>2, <1>3 DEF Leads, Meets
<1>8. x.what = "event" => Leads("told", x, "fresh") /\ Leads("new", x, "fresh")
  BY <1>1, <1>2, <1>3 DEF Leads, Meets
<1> QED
  BY <1>4, <1>5, <1>6, <1>7, <1>8

LEMMA CallsLead ==
  ASSUME NEW x, x.op = "call"
  PROVE  /\ x.what = "revert" => Leads("fresh", x, "new")
         /\ x.what = "reopen" => Leads("fresh", x, "up")
         /\ x.what = "merge" => Leads("fresh", x, "landed")
<1>1. x.op \notin {"read", "list", "keep", "save", "try", "refresh", "only", "enqueue", "dequeue", "readcount", "writecount"}
  OBVIOUS
<1>2. x.what # "revert" => ~Calls(x, "revert")
  BY DEF Calls
<1>3. \A m : Moved("reopen", m) = "open" /\ Moved("merge", m) = "merged"
  BY DEF Moved
<1>4. x.what = "revert" => Leads("fresh", x, "new")
  BY <1>1 DEF Leads, Meets
<1>5. x.what = "reopen" => Leads("fresh", x, "up")
  BY <1>1, <1>2, <1>3 DEF Leads, Meets
<1>6. x.what = "merge" => Leads("fresh", x, "landed")
  BY <1>1, <1>2, <1>3 DEF Leads, Meets
<1> QED
  BY <1>4, <1>5, <1>6

LEMMA OthersLead ==
  /\ \A x : x.op = "refresh" /\ x.what = "merged" => Leads("landed", x, "told")
  /\ \A x : x.op = "read" /\ x.in = AnyState => Leads("shut", x, "shut")
  /\ \A x : x.op = "list" /\ x.in = {"closed"} => Leads("ok", x, "shut")
  /\ \A x : x.op = "list" /\ x.in = {"merged"} => Leads("ok", x, "landed")
  /\ \A x : x.op = "list" /\ x.in = {"open"} => Leads("ok", x, "up")
  /\ \A x, n : x.op \in {"dequeue", "readcount", "writecount"} => Leads(n, x, n)
  /\ \A x, n, k : x.op = "misfile" => Leads(n, x, k)
<1>1. \A x : x.op = "refresh" /\ x.what = "merged" => Leads("landed", x, "told")
  BY AnswersNear, NearSelf DEF Leads, Meets, Calls, Near, Matches
<1>2. \A x : x.op = "read" /\ x.in = AnyState => Leads("shut", x, "shut")
  BY DEF Leads, Meets, Calls, AnyState
<1>3. \A r \in States : Near(r, "closed") => r # "none"
  BY DEF Near, Matches, Answers
<1>4. \A x : x.op = "list" /\ x.in = {"closed"} => Leads("ok", x, "shut")
  BY <1>3 DEF Leads, Meets, Calls
<1>5. \A x : x.op = "list" /\ x.in = {"merged"} => Leads("ok", x, "landed")
  BY DEF Leads, Meets, Calls
<1>6. \A x : x.op = "list" /\ x.in = {"open"} => Leads("ok", x, "up")
  BY DEF Leads, Meets, Calls
<1>7. \A x, n : x.op \in {"dequeue", "readcount", "writecount"} => Leads(n, x, n)
  BY DEF Leads, Meets, Calls
<1>8. \A x, n, k : x.op = "misfile" => Leads(n, x, k)
  BY DEF Leads, Calls
<1> QED
  BY <1>1, <1>2, <1>4, <1>5, <1>6, <1>7, <1>8

\* A command that looks first and keeps near from then on.
LEMMA PlainSound ==
  ASSUME NEW s \in Seq(Plain), s # <<>>, s[1].op \in {"read", "list"}
  PROVE  Sound(s)
<1> DEFINE o == [i \in 1..(Len(s) + 1) |-> IF i = 1 THEN "ok" ELSE "fresh"]
<1>1. Len(s) \in Nat /\ Len(s) # 0 /\ \A i \in 1..Len(s) : s[i] \in Plain
  BY LenProperties, EmptySeq, ElementOfSeq
<1>2. o \in [1..(Len(s) + 1) -> Marks] /\ o[1] = "ok" /\ \A i \in 1..Len(s) : o[i + 1] = "fresh"
  BY <1>1 DEF Marks
<1>3. \A i \in 1..Len(s) : o[i] = IF i = 1 THEN "ok" ELSE "fresh"
  BY <1>1
<1> HIDE DEF o
<1>4. ASSUME NEW i \in 1..Len(s) PROVE Leads(o[i], s[i], o[i + 1])
  <2>1. CASE i = 1
    BY <1>2, <1>3, <2>1, LooksLead
  <2>2. CASE i # 1
    BY <1>1, <1>2, <1>3, <2>2, PlainLead
  <2> QED
    BY <2>1, <2>2
<1>5. o[Len(s) + 1] \in {"ok", "fresh"}
  BY <1>1, <1>2
<1> QED
  BY <1>2, <1>4, <1>5 DEF Sound, Outline

\* What closes, reopens, merges, reverts or marks as spam, each with its outline.
LEMMA CloseSound ==
  ASSUME NEW S PROVE Sound(Close(S))
<1> DEFINE s == Close(S)
           o == <<"ok", "fresh", "shut", "fresh">>
<1>1. Len(s) = 3 /\ s[1] = Read(S) /\ s[2] = Call("close") /\ s[3] = Save("closed")
  BY DEF Close
<1>2. o \in [1..4 -> Marks] /\ o[1] = "ok" /\ o[2] = "fresh" /\ o[3] = "shut" /\ o[4] = "fresh"
  BY DEF Marks
<1> HIDE DEF s, o
<1>3. /\ Read(S).op = "read" /\ Read(S).in = S /\ Call("close").op = "call" /\ Call("close").what = "close"
      /\ Save("closed").op = "save" /\ Save("closed").what = "closed"
  BY DEF Step, Read, Call, Save
<1>4. /\ s[1].op = "read" /\ s[1].in = S /\ s[2].op = "call" /\ s[2].what = "close" /\ s[3].op = "save"
      /\ s[3].what = "closed"
  BY <1>1, <1>3
<1>5. Leads("ok", s[1], "fresh") /\ Leads("fresh", s[2], "shut") /\ Leads("shut", s[3], "fresh")
  BY <1>4, LooksLead, ClosesLead, SavesLead
<1>6. \A i \in 1..3 : i = 1 \/ i = 2 \/ i = 3
  OBVIOUS
<1>7. \A i \in 1..3 : Leads(o[i], s[i], o[i + 1])
  BY <1>2, <1>5, <1>6
<1> QED
  BY <1>1, <1>2, <1>7 DEF Sound, Outline, s

\* The commands that pass through a state where record and platform differ, one by one, with their outlines.
LEMMA RestCloseSound ==
  Sound(RestClose)
<1> DEFINE s == RestClose
           o == <<"ok", "fresh", "shut", "fresh", "fresh">>
<1>1. Len(s) = 4 /\ s[1] = Read(AnyState) /\ s[2] = Call("close") /\ s[3] = Save("closed") /\ s[4] = Dequeue
  BY DEF RestClose
<1>2. o \in [1..5 -> Marks] /\ o[1] = "ok" /\ o[2] = "fresh" /\ o[3] = "shut" /\ o[4] = "fresh" /\ o[5] = "fresh"
  BY DEF Marks
<1> HIDE DEF s, o
<1>3. /\ Read(AnyState).op = "read" /\ Read(AnyState).in = AnyState /\ Call("close").op = "call"
      /\ Call("close").what = "close" /\ Save("closed").op = "save" /\ Save("closed").what = "closed"
      /\ Dequeue.op = "dequeue"
  BY DEF Step, Read, Call, Save, Dequeue
<1>4. /\ s[1].op = "read" /\ s[1].in = AnyState /\ s[2].op = "call" /\ s[2].what = "close" /\ s[3].op = "save"
      /\ s[3].what = "closed" /\ s[4].op = "dequeue"
  BY <1>1, <1>3
<1>5. /\ Leads("ok", s[1], "fresh") /\ Leads("fresh", s[2], "shut") /\ Leads("shut", s[3], "fresh")
      /\ Leads("fresh", s[4], "fresh")
  BY <1>4, LooksLead, ClosesLead, SavesLead, AsideLead
<1>6. \A i \in 1..4 : i = 1 \/ i = 2 \/ i = 3 \/ i = 4
  OBVIOUS
<1>7. \A i \in 1..4 : Leads(o[i], s[i], o[i + 1])
  BY <1>2, <1>5, <1>6
<1> QED
  BY <1>1, <1>2, <1>7 DEF Sound, Outline, s

LEMMA BatchCloseSound ==
  Sound(RestBatchClose)
<1> DEFINE s == RestBatchClose
           o == <<"ok", "shut", "shut", "fresh">>
<1>1. Len(s) = 3 /\ s[1] = Call("close") /\ s[2] = Read(AnyState) /\ s[3] = Save("closed")
  BY DEF RestBatchClose
<1>2. o \in [1..4 -> Marks] /\ o[1] = "ok" /\ o[2] = "shut" /\ o[3] = "shut" /\ o[4] = "fresh"
  BY DEF Marks
<1> HIDE DEF s, o
<1>3. /\ Call("close").op = "call" /\ Call("close").what = "close" /\ Read(AnyState).op = "read"
      /\ Read(AnyState).in = AnyState /\ Save("closed").op = "save" /\ Save("closed").what = "closed"
  BY DEF Step, Call, Read, Save
<1>4. /\ s[1].op = "call" /\ s[1].what = "close" /\ s[2].op = "read" /\ s[2].in = AnyState /\ s[3].op = "save"
      /\ s[3].what = "closed"
  BY <1>1, <1>3
<1>5. Leads("ok", s[1], "shut") /\ Leads("shut", s[2], "shut") /\ Leads("shut", s[3], "fresh")
  BY <1>4, ClosesLead, OthersLead, SavesLead
<1>6. \A i \in 1..3 : i = 1 \/ i = 2 \/ i = 3
  OBVIOUS
<1>7. \A i \in 1..3 : Leads(o[i], s[i], o[i + 1])
  BY <1>2, <1>5, <1>6
<1> QED
  BY <1>1, <1>2, <1>7 DEF Sound, Outline, s

LEMMA ReopenSound ==
  ASSUME NEW S PROVE Sound(Reopen(S))
<1> DEFINE s == Reopen(S)
           o == <<"ok", "fresh", "up", "fresh">>
<1>1. Len(s) = 3 /\ s[1] = Read(S) /\ s[2] = Call("reopen") /\ s[3] = Save("open")
  BY DEF Reopen
<1>2. o \in [1..4 -> Marks] /\ o[1] = "ok" /\ o[2] = "fresh" /\ o[3] = "up" /\ o[4] = "fresh"
  BY DEF Marks
<1> HIDE DEF s, o
<1>3. /\ Read(S).op = "read" /\ Read(S).in = S /\ Call("reopen").op = "call" /\ Call("reopen").what = "reopen"
      /\ Save("open").op = "save" /\ Save("open").what = "open"
  BY DEF Step, Read, Call, Save
<1>4. /\ s[1].op = "read" /\ s[1].in = S /\ s[2].op = "call" /\ s[2].what = "reopen" /\ s[3].op = "save"
      /\ s[3].what = "open"
  BY <1>1, <1>3
<1>5. Leads("ok", s[1], "fresh") /\ Leads("fresh", s[2], "up") /\ Leads("up", s[3], "fresh")
  BY <1>4, LooksLead, CallsLead, SavesLead
<1>6. \A i \in 1..3 : i = 1 \/ i = 2 \/ i = 3
  OBVIOUS
<1>7. \A i \in 1..3 : Leads(o[i], s[i], o[i + 1])
  BY <1>2, <1>5, <1>6
<1> QED
  BY <1>1, <1>2, <1>7 DEF Sound, Outline, s

LEMMA RestSpamSound ==
  Sound(RestSpam)
<1> DEFINE s == RestSpam
           o == <<"ok", "fresh", "shut", "shut", "fresh", "fresh", "fresh">>
<1>1. /\ Len(s) = 6 /\ s[1] = Read(AnyState) /\ s[2] = Call("close") /\ s[3] = Dequeue /\ s[4] = Save("spam")
      /\ s[5] = ReadCount /\ s[6] = WriteCount
  BY DEF RestSpam, Count
<1>2. /\ o \in [1..7 -> Marks] /\ o[1] = "ok" /\ o[2] = "fresh" /\ o[3] = "shut" /\ o[4] = "shut" /\ o[5] = "fresh"
      /\ o[6] = "fresh" /\ o[7] = "fresh"
  BY DEF Marks
<1> HIDE DEF s, o
<1>3. /\ Read(AnyState).op = "read" /\ Read(AnyState).in = AnyState /\ Call("close").op = "call"
      /\ Call("close").what = "close" /\ Dequeue.op = "dequeue" /\ Save("spam").op = "save" /\ Save("spam").what = "spam"
      /\ ReadCount.op = "readcount" /\ WriteCount.op = "writecount"
  BY DEF Step, Read, Call, Dequeue, Save, ReadCount, WriteCount
<1>4. /\ s[1].op = "read" /\ s[1].in = AnyState /\ s[2].op = "call" /\ s[2].what = "close" /\ s[3].op = "dequeue"
      /\ s[4].op = "save" /\ s[4].what = "spam" /\ s[5].op = "readcount" /\ s[6].op = "writecount"
  BY <1>1, <1>3
<1>5. /\ Leads("ok", s[1], "fresh") /\ Leads("fresh", s[2], "shut") /\ Leads("shut", s[3], "shut")
      /\ Leads("shut", s[4], "fresh") /\ Leads("fresh", s[5], "fresh") /\ Leads("fresh", s[6], "fresh")
  BY <1>4, LooksLead, ClosesLead, OthersLead, SavesLead, AsideLead
<1>6. \A i \in 1..6 : i = 1 \/ i = 2 \/ i = 3 \/ i = 4 \/ i = 5 \/ i = 6
  OBVIOUS
<1>7. \A i \in 1..6 : Leads(o[i], s[i], o[i + 1])
  BY <1>2, <1>5, <1>6
<1> QED
  BY <1>1, <1>2, <1>7 DEF Sound, Outline, s

LEMMA SpamSound ==
  ASSUME NEW S PROVE Sound(Spam(S))
<1> DEFINE s == Spam(S)
           o == <<"ok", "fresh", "marked", "marked", "marked", "ok">>
<1>1. Len(s) = 5 /\ s[1] = Read(S) /\ s[2] = Save("spam") /\ s[3] = ReadCount /\ s[4] = WriteCount /\ s[5] = Try("close")
  BY DEF Spam, Count
<1>2. /\ o \in [1..6 -> Marks] /\ o[1] = "ok" /\ o[2] = "fresh" /\ o[3] = "marked" /\ o[4] = "marked" /\ o[5] = "marked"
      /\ o[6] = "ok"
  BY DEF Marks
<1> HIDE DEF s, o
<1>3. /\ Read(S).op = "read" /\ Read(S).in = S /\ Save("spam").op = "save" /\ Save("spam").what = "spam"
      /\ ReadCount.op = "readcount" /\ WriteCount.op = "writecount" /\ Try("close").op = "try" /\ Try("close").what = "close"
  BY DEF Step, Read, Save, ReadCount, WriteCount, Try
<1>4. /\ s[1].op = "read" /\ s[1].in = S /\ s[2].op = "save" /\ s[2].what = "spam" /\ s[3].op = "readcount"
      /\ s[4].op = "writecount" /\ s[5].op = "try" /\ s[5].what = "close"
  BY <1>1, <1>3
<1>5. /\ Leads("ok", s[1], "fresh") /\ Leads("fresh", s[2], "marked") /\ Leads("marked", s[3], "marked")
      /\ Leads("marked", s[4], "marked") /\ Leads("marked", s[5], "ok")
  BY <1>4, LooksLead, SavesLead, OthersLead, ClosesLead
<1>6. \A i \in 1..5 : i = 1 \/ i = 2 \/ i = 3 \/ i = 4 \/ i = 5
  OBVIOUS
<1>7. \A i \in 1..5 : Leads(o[i], s[i], o[i + 1])
  BY <1>2, <1>5, <1>6
<1> QED
  BY <1>1, <1>2, <1>7 DEF Sound, Outline, s

LEMMA CommentSpamSound ==
  Sound(CommentSpam)
<1> DEFINE s == CommentSpam
           o == <<"ok", "fresh", "marked", "marked", "ok">>
<1>1. Len(s) = 4 /\ s[1] = List(AnyState) /\ s[2] = Save("spam") /\ s[3] = Try("close") /\ s[4] = Call("close")
  BY DEF CommentSpam
<1>2. o \in [1..5 -> Marks] /\ o[1] = "ok" /\ o[2] = "fresh" /\ o[3] = "marked" /\ o[4] = "marked" /\ o[5] = "ok"
  BY DEF Marks
<1> HIDE DEF s, o
<1>3. /\ List(AnyState).op = "list" /\ List(AnyState).in = AnyState /\ Save("spam").op = "save" /\ Save("spam").what = "spam"
      /\ Try("close").op = "try" /\ Try("close").what = "close" /\ Call("close").op = "call" /\ Call("close").what = "close"
  BY DEF Step, List, Save, Try, Call
<1>4. /\ s[1].op = "list" /\ s[1].in = AnyState /\ s[2].op = "save" /\ s[2].what = "spam" /\ s[3].op = "try"
      /\ s[3].what = "close" /\ s[4].op = "call" /\ s[4].what = "close"
  BY <1>1, <1>3
<1>5. /\ Leads("ok", s[1], "fresh") /\ Leads("fresh", s[2], "marked") /\ Leads("marked", s[3], "marked")
      /\ Leads("marked", s[4], "ok")
  BY <1>4, LooksLead, SavesLead, ClosesLead
<1>6. \A i \in 1..4 : i = 1 \/ i = 2 \/ i = 3 \/ i = 4
  OBVIOUS
<1>7. \A i \in 1..4 : Leads(o[i], s[i], o[i + 1])
  BY <1>2, <1>5, <1>6
<1> QED
  BY <1>1, <1>2, <1>7 DEF Sound, Outline, s

LEMMA SpamScanSound ==
  Sound(SpamScan)
<1> DEFINE s == SpamScan
           o == <<"ok", "fresh", "fresh", "marked", "ok">>
<1>1. Len(s) = 4 /\ s[1] = Read(AnyState) /\ s[2] = Only("notspam") /\ s[3] = Save("spam") /\ s[4] = Try("close")
  BY DEF SpamScan, HandleSpam
<1>2. o \in [1..5 -> Marks] /\ o[1] = "ok" /\ o[2] = "fresh" /\ o[3] = "fresh" /\ o[4] = "marked" /\ o[5] = "ok"
  BY DEF Marks
<1> HIDE DEF s, o
<1>3. /\ Read(AnyState).op = "read" /\ Read(AnyState).in = AnyState /\ Only("notspam").op = "only"
      /\ Save("spam").op = "save" /\ Save("spam").what = "spam" /\ Try("close").op = "try" /\ Try("close").what = "close"
  BY DEF Step, Read, Only, Save, Try
<1>4. /\ s[1].op = "read" /\ s[1].in = AnyState /\ s[2].op = "only" /\ s[3].op = "save" /\ s[3].what = "spam"
      /\ s[4].op = "try" /\ s[4].what = "close"
  BY <1>1, <1>3
<1>5. /\ Leads("ok", s[1], "fresh") /\ Leads("fresh", s[2], "fresh") /\ Leads("fresh", s[3], "marked")
      /\ Leads("marked", s[4], "ok")
  BY <1>4, LooksLead, AsideLead, SavesLead, ClosesLead
<1>6. \A i \in 1..4 : i = 1 \/ i = 2 \/ i = 3 \/ i = 4
  OBVIOUS
<1>7. \A i \in 1..4 : Leads(o[i], s[i], o[i + 1])
  BY <1>2, <1>5, <1>6
<1> QED
  BY <1>1, <1>2, <1>7 DEF Sound, Outline, s

LEMMA OnSpamSound ==
  Sound(OnSpam)
<1> DEFINE s == OnSpam
           o == <<"ok", "fresh", "marked", "marked", "ok">>
<1>1. Len(s) = 4 /\ s[1] = List(AnyState) /\ s[2] = Save("spam") /\ s[3] = Save("spam") /\ s[4] = Try("close")
  BY DEF OnSpam, HandleSpam
<1>2. o \in [1..5 -> Marks] /\ o[1] = "ok" /\ o[2] = "fresh" /\ o[3] = "marked" /\ o[4] = "marked" /\ o[5] = "ok"
  BY DEF Marks
<1> HIDE DEF s, o
<1>3. /\ List(AnyState).op = "list" /\ List(AnyState).in = AnyState /\ Save("spam").op = "save" /\ Save("spam").what = "spam"
      /\ Try("close").op = "try" /\ Try("close").what = "close"
  BY DEF Step, List, Save, Try
<1>4. /\ s[1].op = "list" /\ s[1].in = AnyState /\ s[2].op = "save" /\ s[2].what = "spam" /\ s[3].op = "save"
      /\ s[3].what = "spam" /\ s[4].op = "try" /\ s[4].what = "close"
  BY <1>1, <1>3
<1>5. /\ Leads("ok", s[1], "fresh") /\ Leads("fresh", s[2], "marked") /\ Leads("marked", s[3], "marked")
      /\ Leads("marked", s[4], "ok")
  BY <1>4, LooksLead, SavesLead, ClosesLead
<1>6. \A i \in 1..4 : i = 1 \/ i = 2 \/ i = 3 \/ i = 4
  OBVIOUS
<1>7. \A i \in 1..4 : Leads(o[i], s[i], o[i + 1])
  BY <1>2, <1>5, <1>6
<1> QED
  BY <1>1, <1>2, <1>7 DEF Sound, Outline, s

LEMMA RestRevertSound ==
  Sound(RestRevert)
<1> DEFINE s == RestRevert
           o == <<"ok", "fresh", "new", "fresh", "fresh">>
<1>1. Len(s) = 4 /\ s[1] = Read({"merged"}) /\ s[2] = Call("revert") /\ s[3] = Save("open") /\ s[4] = Enqueue
  BY DEF RestRevert
<1>2. o \in [1..5 -> Marks] /\ o[1] = "ok" /\ o[2] = "fresh" /\ o[3] = "new" /\ o[4] = "fresh" /\ o[5] = "fresh"
  BY DEF Marks
<1> HIDE DEF s, o
<1>3. /\ Read({"merged"}).op = "read" /\ Read({"merged"}).in = {"merged"} /\ Call("revert").op = "call"
      /\ Call("revert").what = "revert" /\ Save("open").op = "save" /\ Save("open").what = "open" /\ Enqueue.op = "enqueue"
  BY DEF Step, Read, Call, Save, Enqueue
<1>4. /\ s[1].op = "read" /\ s[1].in = {"merged"} /\ s[2].op = "call" /\ s[2].what = "revert" /\ s[3].op = "save"
      /\ s[3].what = "open" /\ s[4].op = "enqueue"
  BY <1>1, <1>3
<1>5. /\ Leads("ok", s[1], "fresh") /\ Leads("fresh", s[2], "new") /\ Leads("new", s[3], "fresh")
      /\ Leads("fresh", s[4], "fresh")
  BY <1>4, LooksLead, CallsLead, SavesLead, AsideLead
<1>6. \A i \in 1..4 : i = 1 \/ i = 2 \/ i = 3 \/ i = 4
  OBVIOUS
<1>7. \A i \in 1..4 : Leads(o[i], s[i], o[i + 1])
  BY <1>2, <1>5, <1>6
<1> QED
  BY <1>1, <1>2, <1>7 DEF Sound, Outline, s

LEMMA FiledSound ==
  Sound(RevertFiled)
<1> DEFINE s == RevertFiled
           o == <<"ok", "fresh", "new", "fresh", "fresh">>
<1>1. Len(s) = 4 /\ s[1] = Read({"merged"}) /\ s[2] = Call("revert") /\ s[3] = Save("event") /\ s[4] = Enqueue
  BY DEF RevertFiled
<1>2. o \in [1..5 -> Marks] /\ o[1] = "ok" /\ o[2] = "fresh" /\ o[3] = "new" /\ o[4] = "fresh" /\ o[5] = "fresh"
  BY DEF Marks
<1> HIDE DEF s, o
<1>3. /\ Read({"merged"}).op = "read" /\ Read({"merged"}).in = {"merged"} /\ Call("revert").op = "call"
      /\ Call("revert").what = "revert" /\ Save("event").op = "save" /\ Save("event").what = "event"
      /\ Enqueue.op = "enqueue"
  BY DEF Step, Read, Call, Save, Enqueue
<1>4. /\ s[1].op = "read" /\ s[1].in = {"merged"} /\ s[2].op = "call" /\ s[2].what = "revert" /\ s[3].op = "save"
      /\ s[3].what = "event" /\ s[4].op = "enqueue"
  BY <1>1, <1>3
<1>5. /\ Leads("ok", s[1], "fresh") /\ Leads("fresh", s[2], "new") /\ Leads("new", s[3], "fresh")
      /\ Leads("fresh", s[4], "fresh")
  BY <1>4, LooksLead, CallsLead, SavesLead, AsideLead
<1>6. \A i \in 1..4 : i = 1 \/ i = 2 \/ i = 3 \/ i = 4
  OBVIOUS
<1>7. \A i \in 1..4 : Leads(o[i], s[i], o[i + 1])
  BY <1>2, <1>5, <1>6
<1> QED
  BY <1>1, <1>2, <1>7 DEF Sound, Outline, s

LEMMA MisfiledSound ==
  Sound(RevertMisfiled)
<1> DEFINE s == RevertMisfiled
           o == <<"ok", "fresh", "new", "ok">>
<1>1. Len(s) = 3 /\ s[1] = Read({"merged"}) /\ s[2] = Call("revert") /\ s[3] = Misfile
  BY DEF RevertMisfiled
<1>2. o \in [1..4 -> Marks] /\ o[1] = "ok" /\ o[2] = "fresh" /\ o[3] = "new" /\ o[4] = "ok"
  BY DEF Marks
<1> HIDE DEF s, o
<1>3. /\ Read({"merged"}).op = "read" /\ Read({"merged"}).in = {"merged"} /\ Call("revert").op = "call"
      /\ Call("revert").what = "revert" /\ Misfile.op = "misfile"
  BY DEF Step, Read, Call, Misfile
<1>4. s[1].op = "read" /\ s[1].in = {"merged"} /\ s[2].op = "call" /\ s[2].what = "revert" /\ s[3].op = "misfile"
  BY <1>1, <1>3
<1>5. Leads("ok", s[1], "fresh") /\ Leads("fresh", s[2], "new") /\ Leads("new", s[3], "ok")
  BY <1>4, LooksLead, CallsLead, OthersLead
<1>6. \A i \in 1..3 : i = 1 \/ i = 2 \/ i = 3
  OBVIOUS
<1>7. \A i \in 1..3 : Leads(o[i], s[i], o[i + 1])
  BY <1>2, <1>5, <1>6
<1> QED
  BY <1>1, <1>2, <1>7 DEF Sound, Outline, s

LEMMA QueueMergeSound ==
  Sound(QueueMerge)
<1> DEFINE s == QueueMerge
           o == <<"ok", "ok", "fresh", "fresh", "landed", "told", "fresh", "fresh">>
<1>1. /\ Len(s) = 7 /\ s[1] = Only("queued") /\ s[2] = Read({"open"}) /\ s[3] = Only("notdraft") /\ s[4] = Call("merge")
      /\ s[5] = Outcome /\ s[6] = Save("event") /\ s[7] = Dequeue
  BY DEF QueueMerge
<1>2. /\ o \in [1..8 -> Marks] /\ o[1] = "ok" /\ o[2] = "ok" /\ o[3] = "fresh" /\ o[4] = "fresh" /\ o[5] = "landed"
      /\ o[6] = "told" /\ o[7] = "fresh" /\ o[8] = "fresh"
  BY DEF Marks
<1> HIDE DEF s, o
<1>3. /\ Only("queued").op = "only" /\ Read({"open"}).op = "read" /\ Read({"open"}).in = {"open"}
      /\ Only("notdraft").op = "only" /\ Call("merge").op = "call" /\ Call("merge").what = "merge" /\ Outcome.op = "refresh"
      /\ Outcome.what = "merged" /\ Save("event").op = "save" /\ Save("event").what = "event" /\ Dequeue.op = "dequeue"
  BY DEF Step, Only, Read, Call, Outcome, Save, Dequeue
<1>4. /\ s[1].op = "only" /\ s[2].op = "read" /\ s[2].in = {"open"} /\ s[3].op = "only" /\ s[4].op = "call"
      /\ s[4].what = "merge" /\ s[5].op = "refresh" /\ s[5].what = "merged" /\ s[6].op = "save" /\ s[6].what = "event"
      /\ s[7].op = "dequeue"
  BY <1>1, <1>3
<1>5. /\ Leads("ok", s[1], "ok") /\ Leads("ok", s[2], "fresh") /\ Leads("fresh", s[3], "fresh")
      /\ Leads("fresh", s[4], "landed") /\ Leads("landed", s[5], "told") /\ Leads("told", s[6], "fresh")
      /\ Leads("fresh", s[7], "fresh")
  BY <1>4, AsideLead, LooksLead, CallsLead, OthersLead, SavesLead
<1>6. \A i \in 1..7 : i = 1 \/ i = 2 \/ i = 3 \/ i = 4 \/ i = 5 \/ i = 6 \/ i = 7
  OBVIOUS
<1>7. \A i \in 1..7 : Leads(o[i], s[i], o[i + 1])
  BY <1>2, <1>5, <1>6
<1> QED
  BY <1>1, <1>2, <1>7 DEF Sound, Outline, s

LEMMA ClosedSound ==
  Sound(OnClosed)
<1> DEFINE s == OnClosed
           o == <<"ok", "shut", "fresh">>
<1>1. Len(s) = 2 /\ s[1] = List({"closed"}) /\ s[2] = Save("closed")
  BY DEF OnClosed
<1>2. o \in [1..3 -> Marks] /\ o[1] = "ok" /\ o[2] = "shut" /\ o[3] = "fresh"
  BY DEF Marks
<1> HIDE DEF s, o
<1>3. /\ List({"closed"}).op = "list" /\ List({"closed"}).in = {"closed"} /\ Save("closed").op = "save"
      /\ Save("closed").what = "closed"
  BY DEF Step, List, Save
<1>4. s[1].op = "list" /\ s[1].in = {"closed"} /\ s[2].op = "save" /\ s[2].what = "closed"
  BY <1>1, <1>3
<1>5. Leads("ok", s[1], "shut") /\ Leads("shut", s[2], "fresh")
  BY <1>4, OthersLead, SavesLead
<1>6. \A i \in 1..2 : i = 1 \/ i = 2
  OBVIOUS
<1>7. \A i \in 1..2 : Leads(o[i], s[i], o[i + 1])
  BY <1>2, <1>5, <1>6
<1> QED
  BY <1>1, <1>2, <1>7 DEF Sound, Outline, s

LEMMA MergedSound ==
  Sound(OnMerged)
<1> DEFINE s == OnMerged
           o == <<"ok", "landed", "fresh">>
<1>1. Len(s) = 2 /\ s[1] = List({"merged"}) /\ s[2] = Save("merged")
  BY DEF OnMerged
<1>2. o \in [1..3 -> Marks] /\ o[1] = "ok" /\ o[2] = "landed" /\ o[3] = "fresh"
  BY DEF Marks
<1> HIDE DEF s, o
<1>3. /\ List({"merged"}).op = "list" /\ List({"merged"}).in = {"merged"} /\ Save("merged").op = "save"
      /\ Save("merged").what = "merged"
  BY DEF Step, List, Save
<1>4. s[1].op = "list" /\ s[1].in = {"merged"} /\ s[2].op = "save" /\ s[2].what = "merged"
  BY <1>1, <1>3
<1>5. Leads("ok", s[1], "landed") /\ Leads("landed", s[2], "fresh")
  BY <1>4, OthersLead, SavesLead
<1>6. \A i \in 1..2 : i = 1 \/ i = 2
  OBVIOUS
<1>7. \A i \in 1..2 : Leads(o[i], s[i], o[i + 1])
  BY <1>2, <1>5, <1>6
<1> QED
  BY <1>1, <1>2, <1>7 DEF Sound, Outline, s

LEMMA ReopenedSound ==
  Sound(OnReopened)
<1> DEFINE s == OnReopened
           o == <<"ok", "up", "fresh">>
<1>1. Len(s) = 2 /\ s[1] = List({"open"}) /\ s[2] = Save("open")
  BY DEF OnReopened
<1>2. o \in [1..3 -> Marks] /\ o[1] = "ok" /\ o[2] = "up" /\ o[3] = "fresh"
  BY DEF Marks
<1> HIDE DEF s, o
<1>3. List({"open"}).op = "list" /\ List({"open"}).in = {"open"} /\ Save("open").op = "save" /\ Save("open").what = "open"
  BY DEF Step, List, Save
<1>4. s[1].op = "list" /\ s[1].in = {"open"} /\ s[2].op = "save" /\ s[2].what = "open"
  BY <1>1, <1>3
<1>5. Leads("ok", s[1], "up") /\ Leads("up", s[2], "fresh")
  BY <1>4, OthersLead, SavesLead
<1>6. \A i \in 1..2 : i = 1 \/ i = 2
  OBVIOUS
<1>7. \A i \in 1..2 : Leads(o[i], s[i], o[i + 1])
  BY <1>2, <1>5, <1>6
<1> QED
  BY <1>1, <1>2, <1>7 DEF Sound, Outline, s

LEMMA RemoveSound ==
  Sound(RemoveFromQueue)
<1> DEFINE s == RemoveFromQueue
           o == <<"ok", "ok">>
<1>1. Len(s) = 1 /\ s[1] = Dequeue
  BY DEF RemoveFromQueue
<1>2. o \in [1..2 -> Marks] /\ o[1] = "ok" /\ o[2] = "ok"
  BY DEF Marks
<1> HIDE DEF s, o
<1>3. Dequeue.op = "dequeue"
  BY DEF Step, Dequeue
<1>4. s[1].op = "dequeue"
  BY <1>1, <1>3
<1>5. Leads("ok", s[1], "ok")
  BY <1>4, AsideLead
<1>6. \A i \in 1..1 : i = 1
  OBVIOUS
<1>7. \A i \in 1..1 : Leads(o[i], s[i], o[i + 1])
  BY <1>2, <1>5, <1>6
<1> QED
  BY <1>1, <1>2, <1>7 DEF Sound, Outline, s


\* Which steps are plain.
LEMMA PlainSteps ==
  /\ \A S \in SUBSET States : Read(S) \in Plain /\ List(S) \in Plain
  /\ \A c \in {"approve", "rebase", "cherry-pick"} : Call(c) \in Plain /\ Try(c) \in Plain
  /\ \A c \in {"approved", "voted", "draft", "ready", "event"} : Save(c) \in Plain
  /\ \A t \in {"draft", "notdraft", "conflict"} : Only(t) \in Plain
  /\ {Keep, Refresh, Enqueue, Dequeue} \subseteq Plain
<1>1. \A S \in SUBSET States : Read(S) \in Plain /\ List(S) \in Plain
  BY DEF Plain, StepSet, Nothing, Step, Read, List
<1>2. \A c \in {"approve", "rebase", "cherry-pick"} : Call(c) \in Plain /\ Try(c) \in Plain
  BY DEF Plain, StepSet, Nothing, Step, Call, Try, Requests
<1>3. \A c \in {"approved", "voted", "draft", "ready", "event"} : Save(c) \in Plain
  BY DEF Plain, StepSet, Nothing, Step, Save, Changes
<1>4. \A t \in {"draft", "notdraft", "conflict"} : Only(t) \in Plain
  BY DEF Plain, StepSet, Nothing, Step, Only, Tests
<1>5. Keep \in Plain /\ Refresh \in Plain
  BY DEF Plain, StepSet, Nothing, Step, Keep, Refresh
<1>6. Enqueue \in Plain /\ Dequeue \in Plain
  BY DEF Plain, StepSet, Nothing, Step, Enqueue, Dequeue
<1> QED
  BY <1>1, <1>2, <1>3, <1>4, <1>5, <1>6, Zenon

\* Commands that look first, that look after a test, and that look first and end otherwise.
LEMMA LooksFirst ==
  ASSUME NEW x \in Plain, x.op \in {"read", "list"}, NEW t \in Seq(Plain)
  PROVE  Sound(<<x>> \o t)
<1> DEFINE s == <<x>> \o t
<1>1. <<x>> \in Seq(Plain) /\ Len(<<x>>) = 1 /\ <<x>>[1] = x
  OBVIOUS
<1>2. s \in Seq(Plain) /\ Len(s) = 1 + Len(t) /\ s[1] = x /\ Len(t) \in Nat
  BY <1>1, ConcatProperties, LenProperties
<1> HIDE DEF s
<1>3. Len(s) # 0
  BY <1>2
<1>4. s # <<>>
  BY <1>2, <1>3, EmptySeq
<1> QED
  BY <1>2, <1>4, PlainSound DEF s

LEMMA AfterOnly ==
  ASSUME NEW x, x.op = "only", NEW t \in Seq(Plain), t # <<>>, t[1].op \in {"read", "list"}
  PROVE  Sound(<<x>> \o t)
<1> DEFINE s == <<x>> \o t
           o == [i \in 1..(Len(s) + 1) |-> IF i < 3 THEN "ok" ELSE "fresh"]
<1>1. Len(t) \in Nat /\ Len(t) # 0 /\ \A i \in 1..Len(t) : t[i] \in Plain
  BY LenProperties, EmptySeq, ElementOfSeq
<1>2. Len(s) = 1 + Len(t) /\ s[1] = x /\ \A i \in 2..Len(s) : s[i] = t[i - 1]
  <2>1. t \in Seq(Plain \cup {x}) /\ <<x>> \in Seq(Plain \cup {x}) /\ Len(<<x>>) = 1 /\ <<x>>[1] = x
    OBVIOUS
  <2>2. Len(<<x>> \o t) = Len(<<x>>) + Len(t)
        /\ \A i \in 1..(Len(<<x>>) + Len(t)) :
             (<<x>> \o t)[i] = IF i <= Len(<<x>>) THEN <<x>>[i] ELSE t[i - Len(<<x>>)]
    BY <2>1, ConcatProperties
  <2> HIDE DEF s
  <2>3. s = <<x>> \o t
    BY DEF s
  <2> QED
    BY <1>1, <2>1, <2>2, <2>3
<1>3. /\ o \in [1..(Len(s) + 1) -> Marks] /\ o[1] = "ok"
      /\ \A i \in 1..(Len(s) + 1) : o[i] = IF i < 3 THEN "ok" ELSE "fresh"
  BY <1>1, <1>2 DEF Marks
<1> HIDE DEF o, s
<1>4. ASSUME NEW i \in 1..Len(s) PROVE Leads(o[i], s[i], o[i + 1])
  <2>1. i \in 1..(Len(s) + 1) /\ i + 1 \in 1..(Len(s) + 1)
    BY <1>1, <1>2
  <2>2. CASE i = 1
    <3>1. o[1] = "ok" /\ o[1 + 1] = "ok"
      BY <1>1, <1>2, <1>3
    <3> QED
      BY <1>2, <2>2, <3>1, AsideLead
  <2>3. CASE i = 2
    <3>1. o[2] = "ok" /\ o[2 + 1] = "fresh" /\ s[2] = t[1]
      BY <1>1, <1>2, <1>3
    <3> QED
      BY <2>3, <3>1, LooksLead
  <2>4. CASE i # 1 /\ i # 2
    <3>1. o[i] = "fresh" /\ o[i + 1] = "fresh" /\ s[i] = t[i - 1] /\ i - 1 \in 1..Len(t)
      BY <1>1, <1>2, <1>3, <2>1, <2>4
    <3> QED
      BY <1>1, <3>1, PlainLead
  <2> QED
    BY <2>2, <2>3, <2>4
<1>5. o[Len(s) + 1] \in {"ok", "fresh"}
  BY <1>1, <1>2, <1>3
<1> QED
  BY <1>3, <1>4, <1>5 DEF Sound, Outline, s

LEMMA LooksBefore ==
  ASSUME NEW s \in Seq(Plain), s # <<>>, s[1].op \in {"read", "list"}, NEW t \in Seq(Plain)
  PROVE  Sound(s \o t)
<1> DEFINE u == s \o t
<1>1. Len(s) \in Nat /\ Len(s) # 0 /\ Len(t) \in Nat
  BY LenProperties, EmptySeq
<1>2. u \in Seq(Plain) /\ Len(u) = Len(s) + Len(t) /\ u[1] = s[1]
  BY <1>1, ConcatProperties
<1> HIDE DEF u
<1>3. Len(u) # 0
  BY <1>1, <1>2
<1>4. u # <<>>
  BY <1>2, <1>3, EmptySeq
<1> QED
  BY <1>2, <1>4, PlainSound DEF u

\* The commands that never part record and platform.
LEMMA PlainCommands ==
  /\ \A S \in SUBSET States, c \in {"approved", "voted"} : Sound(Approve(S, c))
  /\ \A s \in {RestApprove, RestBatchRebase, RestRebase, RestCherryPick, MarkReady, MarkDraft, ScheduleMerge, ButtonClose,
               DiscordBatchApprove, CommentQueue, Poll, OnOpened, OnLabeled, OnChangesRequested, AutoRebase} : Sound(s)
  /\ Sound(RestRebaseQueue) /\ Sound(MarkReadyEnqueue) /\ Sound(ForwardedRebase) /\ Sound(SlackCherryPick)
<1> DEFINE P == Plain
           L == {s \in Seq(P) : s # <<>> /\ s[1].op \in {"read", "list"}}
<1>1. /\ \A S \in SUBSET States : Read(S) \in P /\ List(S) \in P
      /\ \A c \in {"approve", "rebase", "cherry-pick"} : Call(c) \in P /\ Try(c) \in P
      /\ \A c \in {"approved", "voted", "draft", "ready", "event"} : Save(c) \in P
      /\ \A t \in {"draft", "notdraft", "conflict"} : Only(t) \in P
      /\ {Keep, Refresh, Enqueue, Dequeue} \subseteq P
  BY PlainSteps
<1>2. \A s \in L : Sound(s)
  BY PlainSound
<1>3. /\ Read(AnyState).op = "read" /\ Read({"open"}).op = "read" /\ Read({"merged"}).op = "read"
      /\ Read({"open", "spam"}).op = "read" /\ List(AnyState).op = "list" /\ List({"open"}).op = "list"
      /\ Only("queued").op = "only"
  BY DEF Step, Read, List, Only
<1>4. \A S : Read(S).op = "read"
  BY DEF Step, Read
<1> HIDE DEF P
<1>5. ASSUME NEW S \in SUBSET States, NEW c \in {"approved", "voted"} PROVE Approve(S, c) \in L
  BY <1>1, <1>4 DEF Approve
<1>6. RestApprove \in L /\ RestBatchRebase \in L /\ RestRebase \in L /\ RestCherryPick \in L
  BY <1>1, <1>3, StatesAre DEF RestApprove, RestBatchRebase, RestRebase, RestCherryPick
<1>7. MarkReady \in L /\ MarkDraft \in L /\ ScheduleMerge \in L /\ ButtonClose \in L /\ DiscordBatchApprove \in L
  BY <1>1, <1>3, StatesAre DEF MarkReady, MarkDraft, ScheduleMerge, ButtonClose, DiscordBatchApprove
<1>8. CommentQueue \in L /\ Poll \in L /\ OnOpened \in L /\ OnLabeled \in L /\ OnChangesRequested \in L /\ AutoRebase \in L
  BY <1>1, <1>3, StatesAre DEF CommentQueue, Poll, OnOpened, OnLabeled, OnChangesRequested, AutoRebase
<1>9. Sound(RestRebaseQueue)
  BY <1>3, <1>6, AfterOnly DEF RestRebaseQueue, P
<1>10. Sound(ForwardedRebase) /\ Sound(SlackCherryPick)
  BY <1>1, <1>3, <1>6, StatesAre, LooksFirst DEF ForwardedRebase, SlackCherryPick, P
<1>11. Sound(MarkReadyEnqueue)
  <2>1. Enqueue \in P
    BY <1>1
  <2>2. <<Enqueue>> \in Seq(P)
    BY <2>1
  <2>3. MarkReady \in Seq(P) /\ MarkReady # <<>> /\ MarkReady[1].op \in {"read", "list"}
    BY <1>7
  <2>4. Sound(MarkReady \o <<Enqueue>>)
    BY <2>2, <2>3, LooksBefore DEF P
  <2> QED
    BY <2>4 DEF MarkReadyEnqueue
<1> HIDE DEF L
<1> QED
  BY <1>2, <1>5, <1>6, <1>7, <1>8, <1>9, <1>10, <1>11

\* Every command but those that leave the record behind has an outline.
LEMMA CommandSound ==
  ASSUME NEW cmd \in RestCommands \cup ChatCommands \cup Chores \cup RestBatches \cup ChatBatches \cup {Poll}
  PROVE  cmd \in Silent \/ Sound(cmd)
<1> DEFINE D(s) == s \in Silent \/ Sound(s)
<1>1. \A S \in SUBSET States : /\ D(Approve(S, "approved")) /\ D(Approve(S, "voted"))
                               /\ D(Close(S)) /\ D(Reopen(S)) /\ D(Spam(S))
  BY PlainCommands, CloseSound, ReopenSound, SpamSound
<1>2. \A s \in {RestApprove, RestBatchRebase, RestRebase, RestCherryPick, MarkReady, MarkDraft, ScheduleMerge, ButtonClose,
                DiscordBatchApprove, CommentQueue, Poll, OnOpened, OnLabeled, OnChangesRequested, AutoRebase,
                RestRebaseQueue, MarkReadyEnqueue, ForwardedRebase, SlackCherryPick} : D(s)
  BY PlainCommands
<1>3. /\ D(RestClose) /\ D(RestBatchClose) /\ D(RestSpam) /\ D(CommentSpam) /\ D(SpamScan) /\ D(OnSpam) /\ D(RestRevert)
      /\ D(RevertFiled) /\ D(RevertMisfiled) /\ D(QueueMerge) /\ D(OnClosed) /\ D(OnMerged) /\ D(OnReopened)
      /\ D(RemoveFromQueue)
  BY RestCloseSound, BatchCloseSound, RestSpamSound, CommentSpamSound, SpamScanSound, OnSpamSound, RestRevertSound,
     FiledSound, MisfiledSound, QueueMergeSound, ClosedSound, MergedSound, ReopenedSound, RemoveSound
<1>4. \A s \in Silent : D(s)
  OBVIOUS
<1>5. ClearQueue = RemoveFromQueue /\ ChatQueueClear = RemoveFromQueue /\ ChatQueueRemove = RemoveFromQueue
  BY DEF ClearQueue, RemoveFromQueue, ChatQueueClear, ChatQueueRemove
<1>6. \A s \in {RestReopen, RestBatchApprove, RestBatchMerge, AutoMerge, AutoClose, CommentApprove, CommentClose,
                CommentReopen, CommentMerge} : D(s)
  BY <1>4 DEF Silent
<1> HIDE DEF D
<1>7. \A s \in RestCommands \cup RestBatches : D(s)
  BY <1>2, <1>3, <1>5, <1>6 DEF RestCommands, RestBatches
<1>8. \A s \in Chores \cup {Poll} : D(s)
  BY <1>2, <1>3, <1>6 DEF Chores
<1>9. \A s \in ChatBatches : D(s)
  BY <1>1, <1>2, <1>3, <1>5, StatesAre DEF ChatBatches, TelegramBatchApprove, TelegramBatchClose, SlackBatchApprove,
     SlackBatchClose, DiscordBatchClose, FeishuBatchApprove, FeishuBatchClose, FeishuApprove, FeishuClose
<1>10. \A s \in {TelegramApprove, TelegramClose, TelegramReopen, TelegramSpam, TelegramRevert, TelegramRebase,
                 TelegramCherryPick, ButtonApprove, ButtonReason, ButtonReopen, ButtonSpam, ButtonRevert} : D(s)
  BY <1>1, <1>2, <1>3, StatesAre DEF TelegramApprove, TelegramClose, TelegramReopen, TelegramSpam, TelegramRevert,
     TelegramRebase, TelegramCherryPick, ButtonApprove, ButtonReason, ButtonReopen, ButtonSpam, ButtonRevert
<1>11. \A s \in {SlackApprove, SlackClose, SlackReopen, SlackSpam, SlackRevert, SlackRebase, DiscordApprove, DiscordClose,
                 DiscordReopen, DiscordSpam, DiscordRevert, DiscordRebase, DiscordCherryPick} : D(s)
  BY <1>1, <1>2, <1>3, StatesAre DEF SlackApprove, SlackClose, SlackReopen, SlackSpam, SlackRevert, SlackRebase,
     DiscordApprove, DiscordClose, DiscordReopen, DiscordSpam, DiscordRevert, DiscordRebase, DiscordCherryPick
<1>12. \A s \in {FeishuApprove, FeishuClose, FeishuReopen, FeishuSpam, FeishuRevert, FeishuRebase, FeishuCherryPick} : D(s)
  BY <1>1, <1>2, <1>3, StatesAre DEF FeishuApprove, FeishuClose, FeishuReopen, FeishuSpam, FeishuRevert, FeishuRebase,
     FeishuCherryPick
<1>13. \A s \in ChatCommands : D(s)
  BY <1>2, <1>3, <1>5, <1>6, <1>10, <1>11, <1>12 DEF ChatCommands
<1>14. D(cmd)
  BY <1>7, <1>8, <1>9, <1>13
<1> QED
  BY <1>14 DEF D

-----------------------------------------------------------------------------
\* A pull request to itself

\* A run r has p in hand, or next.
Concerns(r, p) == r.pr = p \/ \E i \in DOMAIN r.left : r.left[i] = p

\* What run r is about to do suits its pull request, unless that is in ex or st, and its command those that wait.
Fitting(r, rec, rem, ex, st) ==
  /\ r.pr # NoPR => Fit(r.todo, rec[r.pr].state, r.copy.state, rem[r.pr].state, r.pr \in ex \cup st)
  /\ \A i \in DOMAIN r.left : Sound(r.cmd) \/ (r.left[i] \in ex /\ Steady(r.cmd))

\* Nobody of the goroutines R but a is concerned with p, unless p is in ex.
Free(R, a, p, ex) == p \in ex \/ \A b \in Actors \ {a} : ~Concerns(R[b], p)

Apart   == \A p \in PRs : \A a \in Actors : Concerns(run[a], p) => Free(run, a, p, excused)
Settled == \A p \in PRs : p \in excused \cup strays \/ (\E a \in Actors : run[a].pr = p)
                          \/ Near(record[p].state, remote[p].state)
Fits    == \A a \in Actors : Fitting(run[a], record, remote, excused, strays)
AloneInv == Apart /\ Settled /\ Fits

\* Where more is excused less is asked.
LEMMA FitLess ==
  ASSUME NEW s, NEW r, NEW c, NEW m, NEW r2, NEW m2, NEW e, NEW e2, Fit(s, r, c, m, e), e => e2, e2 \/ (r2 = r /\ m2 = m)
  PROVE  Fit(s, r2, c, m2, e2)
BY DEF Fit

\* A run fits as well where more is excused and its pull request is excused or untouched.
LEMMA FittingLess ==
  ASSUME NEW r, NEW rec, NEW rem, NEW ex, NEW st, NEW rec2, NEW rem2, NEW ex2, NEW st2,
         Fitting(r, rec, rem, ex, st), ex \subseteq ex2, st \subseteq st2,
         r.pr # NoPR => r.pr \in ex2 \/ (rec2[r.pr] = rec[r.pr] /\ rem2[r.pr] = rem[r.pr])
  PROVE  Fitting(r, rec2, rem2, ex2, st2)
<1>1. ASSUME r.pr # NoPR
      PROVE  Fit(r.todo, rec2[r.pr].state, r.copy.state, rem2[r.pr].state, r.pr \in ex2 \cup st2)
  <2> DEFINE e == r.pr \in ex \cup st
             e2 == r.pr \in ex2 \cup st2
             u == rec[r.pr].state
             v == rem[r.pr].state
             u2 == rec2[r.pr].state
             v2 == rem2[r.pr].state
  <2>1. Fit(r.todo, u, r.copy.state, v, e) /\ (e => e2) /\ (e2 \/ (u2 = u /\ v2 = v))
    BY <1>1 DEF Fitting
  <2> HIDE DEF e, e2, u, v, u2, v2
  <2>2. Fit(r.todo, u2, r.copy.state, v2, e2)
    BY <2>1, FitLess
  <2> QED
    BY <2>2 DEF e2, u2, v2
<1>2. ASSUME NEW i \in DOMAIN r.left PROVE Sound(r.cmd) \/ (r.left[i] \in ex2 /\ Steady(r.cmd))
  BY DEF Fitting
<1> QED
  BY <1>1, <1>2 DEF Fitting

\* Goroutine a goes on with run r, having touched no pull request but those in W, which nobody else is concerned with.
LEMMA MoveOn ==
  ASSUME AloneInv, NEW a \in Actors, NEW r, run' = [run EXCEPT ![a] = r], run \in [Actors -> Runs], NoPR \notin PRs,
         excused \subseteq excused', strays \subseteq strays', NEW W, run[a].pr \in W \cup {NoPR},
         \A p \in PRs : p \notin W => record'[p] = record[p] /\ remote'[p] = remote[p],
         \A p \in PRs : p \in W \/ Concerns(r, p) => Free(run, a, p, excused'),
         \A p \in PRs : p \in W => p = r.pr \/ p \in excused' \cup strays' \/ Near(record'[p].state, remote'[p].state),
         Fitting(r, record', remote', excused', strays')
  PROVE  AloneInv'
<1>1. run'[a] = r /\ \A b \in Actors : b # a => run'[b] = run[b]
  OBVIOUS
<1>2. Apart'
  <2>1. ASSUME NEW p \in PRs, NEW b \in Actors, Concerns(run'[b], p) PROVE Free(run', b, p, excused')
    <3>1. CASE b = a
      BY <1>1, <2>1, <3>1 DEF Free
    <3>2. CASE b # a
      <4>1. Concerns(run[b], p) /\ Free(run, b, p, excused)
        BY <1>1, <2>1, <3>2 DEF AloneInv, Apart
      <4>2. p \in excused' \/ ~Concerns(r, p)
        BY <3>2, <4>1 DEF Free
      <4> QED
        BY <1>1, <4>1, <4>2 DEF Free
    <3> QED
      BY <3>1, <3>2
  <2> QED
    BY <2>1 DEF Apart
<1>3. Settled'
  <2>1. ASSUME NEW p \in PRs, p \notin excused' \cup strays', \A b \in Actors : run'[b].pr # p
        PROVE  Near(record'[p].state, remote'[p].state)
    <3>1. CASE p \in W
      BY <1>1, <2>1, <3>1
    <3>2. CASE p \notin W
      <4>1. run[a].pr # p
        BY <3>2
      <4>2. \A b \in Actors : run[b].pr # p
        BY <1>1, <2>1, <4>1
      <4>3. Near(record[p].state, remote[p].state)
        BY <2>1, <4>2 DEF AloneInv, Settled
      <4> QED
        BY <3>2, <4>3
    <3> QED
      BY <3>1, <3>2
  <2> QED
    BY <2>1 DEF Settled
<1>4. Fits'
  <2>1. ASSUME NEW b \in Actors, b # a PROVE Fitting(run[b], record', remote', excused', strays')
    <3>1. Fitting(run[b], record, remote, excused, strays)
      BY DEF AloneInv, Fits
    <3>2. ASSUME run[b].pr # NoPR
          PROVE  run[b].pr \in excused' \/ (record'[run[b].pr] = record[run[b].pr] /\ remote'[run[b].pr] = remote[run[b].pr])
      <4>1. run[b].pr \in PRs
        BY <3>2, RunTyped
      <4>2. Concerns(run[b], run[b].pr)
        BY DEF Concerns
      <4>3. run[b].pr \in W => run[b].pr \in excused'
        BY <2>1, <4>1, <4>2 DEF Free
      <4> QED
        BY <4>1, <4>3
    <3> QED
      BY <3>1, <3>2, FittingLess
  <2> QED
    BY <1>1, <2>1 DEF Fits
<1> QED
  BY <1>2, <1>3, <1>4 DEF AloneInv

\* What a run takes next.
LEMMA NextIs ==
  ASSUME NEW x \in Runs, x.left # <<>>
  PROVE  LET n == NextPR(x)
         IN  /\ x.left[1] \in PRs /\ 1 \in DOMAIN x.left
             /\ n.pr = x.left[1] /\ n.todo = x.cmd
             /\ \A i \in DOMAIN n.left : n.cmd = x.cmd /\ i + 1 \in DOMAIN x.left /\ n.left[i] = x.left[i + 1]
<1> DEFINE p == Head(x.left)
           l == Tail(x.left)
           cmd == IF Len(x.left) = 1 THEN <<>> ELSE x.cmd
           n == [pr |-> p, todo |-> x.cmd, cmd |-> cmd, left |-> l, copy |-> NoRecord, count |-> 0]
<1>1. NextPR(x) = n
  BY DEF NextPR, Idle
<1>2. /\ p \in PRs /\ l \in Seq(PRs) /\ p = x.left[1] /\ 1 \in DOMAIN x.left /\ Len(x.left) \in Nat
      /\ \A i \in DOMAIN l : l[i] = x.left[i + 1] /\ i + 1 \in DOMAIN x.left
  BY RunTyped, HeadTailProperties, ElementOfSeq, LenProperties
<1>3. Len(x.left) = 1 => l = <<>>
  <2>1. x.left \in Seq(PRs) /\ Len(l) = Len(x.left) - 1
    BY RunTyped, HeadTailProperties
  <2>2. Len(x.left) = 1 => Len(l) = 0
    BY <2>1
  <2> QED
    BY <1>2, <2>2, EmptySeq
<1>4. n.pr = p /\ n.todo = x.cmd /\ n.cmd = cmd /\ n.left = l
  OBVIOUS
<1> HIDE DEF p, l, n
<1>5. Len(x.left) = 1 => DOMAIN l = {}
  BY <1>3
<1>6. \A i \in DOMAIN l : cmd = x.cmd
  BY <1>5
<1> QED
  BY <1>1, <1>2, <1>4, <1>6

\* It takes the next pull request of x, or ends.
LEMMA Release ==
  ASSUME Inv, AloneInv, NEW a \in Actors, NEW x \in Runs, run' = [run EXCEPT ![a] = NextPR(x)],
         excused \subseteq excused', strays \subseteq strays', NEW W, run[a].pr \in W \cup {NoPR},
         \A p \in PRs : p \notin W => record'[p] = record[p] /\ remote'[p] = remote[p],
         \A p \in PRs : p \in W \/ (\E i \in DOMAIN x.left : x.left[i] = p) => Free(run, a, p, excused'),
         \A p \in PRs : p \in W => p \in excused' \cup strays' \/ Near(record'[p].state, remote'[p].state),
         \A i \in DOMAIN x.left : Sound(x.cmd) \/ (x.left[i] \in excused' /\ Steady(x.cmd))
  PROVE  AloneInv'
<1> DEFINE n == NextPR(x)
<1>1. run \in [Actors -> Runs] /\ NoPR \notin PRs
  BY CommandsAssumption DEF Inv, Typed
<1>2. ASSUME NEW p \in PRs, Concerns(n, p) PROVE \E i \in DOMAIN x.left : x.left[i] = p
  <2>1. CASE x.left = <<>>
    <3>1. n.pr = NoPR /\ DOMAIN n.left = {}
      BY <2>1, IdleOK DEF NextPR
    <3> QED
      BY <1>1, <1>2, <3>1 DEF Concerns
  <2>2. CASE x.left # <<>>
    <3>1. /\ 1 \in DOMAIN x.left /\ n.pr = x.left[1]
          /\ \A i \in DOMAIN n.left : i + 1 \in DOMAIN x.left /\ n.left[i] = x.left[i + 1]
      BY <2>2, NextIs
    <3> HIDE DEF n
    <3> QED
      BY <1>2, <3>1 DEF Concerns
  <2> QED
    BY <2>1, <2>2
<1>3. ASSUME NEW p \in PRs, \E i \in DOMAIN x.left : x.left[i] = p
      PROVE  p \in excused' \cup strays' \/ Near(record'[p].state, remote'[p].state)
  <2>1. CASE p \in W
    BY <2>1
  <2>2. CASE p \notin W
    <3>1. Free(run, a, p, excused') /\ run[a].pr # p
      BY <1>1, <1>3, <2>2
    <3>2. p \in excused' \/ \A b \in Actors : run[b].pr # p
      BY <3>1 DEF Free, Concerns
    <3>3. p \in excused \cup strays \/ (\E b \in Actors : run[b].pr = p) \/ Near(record[p].state, remote[p].state)
      BY DEF AloneInv, Settled
    <3> QED
      BY <2>2, <3>2, <3>3
  <2> QED
    BY <2>1, <2>2
<1>4. Fitting(n, record', remote', excused', strays')
  <2>1. CASE x.left = <<>>
    <3>1. n.pr = NoPR /\ DOMAIN n.left = {}
      BY <2>1, IdleOK DEF NextPR
    <3> QED
      BY <3>1 DEF Fitting
  <2>2. CASE x.left # <<>>
    <3> DEFINE q == x.left[1]
               e == q \in excused' \cup strays'
               u == record'[q].state
               v == remote'[q].state
    <3>1. /\ q \in PRs /\ 1 \in DOMAIN x.left /\ n.pr = q /\ n.todo = x.cmd
          /\ \A i \in DOMAIN n.left : n.cmd = x.cmd /\ i + 1 \in DOMAIN x.left /\ n.left[i] = x.left[i + 1]
      BY <2>2, NextIs
    <3>2. (e \/ Near(u, v)) /\ (Sound(x.cmd) \/ (e /\ Steady(x.cmd)))
      BY <1>3, <3>1
    <3> HIDE DEF n
    <3>3. \A i \in DOMAIN n.left : Sound(n.cmd) \/ (n.left[i] \in excused' /\ Steady(n.cmd))
      BY <3>1
    <3>4. Fit(x.cmd, u, n.copy.state, v, e)
      <4> HIDE DEF e, u, v
      <4>1. CASE Sound(x.cmd)
        <5>1. PICK o : Outline(o, x.cmd) /\ o[1] = "ok"
          BY <4>1 DEF Sound
        <5>2. Near(u, v) => Meets(o[1], u, n.copy.state, v)
          BY <5>1 DEF Meets
        <5> QED
          BY <3>2, <5>1, <5>2 DEF Fit
      <4>2. CASE e /\ Steady(x.cmd)
        BY <4>2 DEF Fit
      <4> QED
        BY <3>2, <4>1, <4>2
    <3> QED
      BY <3>1, <3>3, <3>4 DEF Fitting
  <2> QED
    BY <2>1, <2>2
<1>5. \A p \in PRs : p \in W \/ Concerns(n, p) => Free(run, a, p, excused')
  BY <1>2
<1> HIDE DEF n
<1> QED
  BY <1>1, <1>4, <1>5, MoveOn DEF n

\* An outline without its first mark.
LEMMA TailOutline ==
  ASSUME NEW s \in Seq(StepSet), Len(s) > 1, NEW o, Outline(o, s)
  PROVE  \E k : Outline(k, Tail(s)) /\ k[1] = o[2]
<1> DEFINE t == Tail(s)
           k == [i \in 1..(Len(t) + 1) |-> o[i + 1]]
<1>1. Len(s) \in Nat /\ Len(t) = Len(s) - 1 /\ \A i \in 1..Len(t) : t[i] = s[i + 1]
  <2>1. s # <<>>
    OBVIOUS
  <2> QED
    BY <2>1, HeadTailProperties, LenProperties
<1> HIDE DEF t
<1>2. /\ o \in [1..(Len(s) + 1) -> Marks] /\ \A i \in 1..Len(s) : Leads(o[i], s[i], o[i + 1])
      /\ o[Len(s) + 1] \in {"ok", "fresh"}
  BY DEF Outline
<1>3. k \in [1..(Len(t) + 1) -> Marks] /\ \A i \in 1..(Len(t) + 1) : k[i] = o[i + 1]
  BY <1>1, <1>2
<1> HIDE DEF k
<1>4. k[1] = o[2] /\ k[Len(t) + 1] = o[Len(s) + 1]
  BY <1>1, <1>3
<1>5. ASSUME NEW i \in 1..Len(t) PROVE Leads(k[i], t[i], k[i + 1])
  <2>1. i + 1 \in 1..Len(s) /\ i \in 1..(Len(t) + 1) /\ i + 1 \in 1..(Len(t) + 1)
    BY <1>1
  <2>2. k[i] = o[i + 1] /\ k[i + 1] = o[(i + 1) + 1] /\ t[i] = s[i + 1]
    BY <1>1, <1>3, <2>1
  <2> QED
    BY <1>2, <2>1, <2>2
<1> QED
  BY <1>2, <1>3, <1>4, <1>5 DEF Outline, t

\* How an outline begins, and ends after a single step.
LEMMA OutlineStart ==
  ASSUME NEW s \in Seq(StepSet), s # <<>>, NEW o, Outline(o, s)
  PROVE  /\ o[1] \in Marks /\ o[2] \in Marks /\ Leads(o[1], Head(s), o[2])
         /\ ~(Len(s) > 1) => o[2] \in {"ok", "fresh"}
<1>1. Len(s) \in Nat /\ Len(s) # 0 /\ Head(s) = s[1]
  BY LenProperties, EmptySeq
<1>2. 1 \in 1..Len(s) /\ 1 \in 1..(Len(s) + 1) /\ 2 \in 1..(Len(s) + 1)
  BY <1>1
<1>3. 1 + 1 = 2 /\ (~(Len(s) > 1) => Len(s) + 1 = 2)
  BY <1>1
<1>4. Leads(o[1], s[1], o[1 + 1])
  BY <1>2 DEF Outline
<1> QED
  BY <1>1, <1>2, <1>3, <1>4 DEF Outline

\* It goes on with the rest of x.
LEMMA Continue ==
  ASSUME Inv, AloneInv, NEW a \in Actors, Busy(a), NEW x \in Runs, run' = [run EXCEPT ![a] = Onward(x)],
         x.pr \in PRs, x.todo = run[a].todo, x.cmd = run[a].cmd, x.left = run[a].left,
         excused \subseteq excused', strays \subseteq strays', NEW W, run[a].pr \in W, x.pr \in W,
         \A p \in PRs : p \notin W => record'[p] = record[p] /\ remote'[p] = remote[p],
         \A p \in PRs : p \in W => Free(run, a, p, excused'),
         \A p \in PRs : p \in W => p = x.pr \/ p \in excused' \cup strays' \/ Near(record'[p].state, remote'[p].state),
         \/ x.pr \in excused' \cup strays' /\ Steady(x.todo)
         \/ \E o : /\ Outline(o, x.todo)
                   /\ \/ x.pr \in excused' \cup strays'
                      \/ Meets(o[2], record'[x.pr].state, x.copy.state, remote'[x.pr].state)
  PROVE  AloneInv'
<1>1. run \in [Actors -> Runs] /\ NoPR \notin PRs
  BY CommandsAssumption DEF Inv, Typed
<1>2. x.todo \in Seq(StepSet) /\ x.todo # <<>>
  BY AtWork
<1>3. \A p \in PRs : (\E i \in DOMAIN x.left : x.left[i] = p) => Free(run, a, p, excused')
  <2>1. ASSUME NEW p \in PRs, Concerns(run[a], p) PROVE Free(run, a, p, excused')
    BY <2>1 DEF AloneInv, Apart, Free
  <2> QED
    BY <2>1 DEF Concerns
<1>4. \A i \in DOMAIN x.left : Sound(x.cmd) \/ (x.left[i] \in excused' /\ Steady(x.cmd))
  BY DEF AloneInv, Fits, Fitting
<1> DEFINE e == x.pr \in excused' \cup strays'
           u == record'[x.pr].state
           v == remote'[x.pr].state
<1>5. (e /\ Steady(x.todo)) \/ \E o : Outline(o, x.todo) /\ (e \/ Meets(o[2], u, x.copy.state, v))
  OBVIOUS
<1>6. CASE ~(Len(x.todo) > 1)
  <2>1. Onward(x) = NextPR(x)
    BY <1>6 DEF Onward
  <2>2. e \/ Near(u, v)
    <3> HIDE DEF e, u, v
    <3>1. ASSUME NEW o, Outline(o, x.todo), Meets(o[2], u, x.copy.state, v) PROVE Near(u, v)
      <4>1. o[2] \in {"ok", "fresh"}
        BY <1>2, <1>6, <3>1, OutlineStart
      <4> QED
        BY <3>1, <4>1 DEF Meets
    <3> QED
      BY <1>5, <3>1
  <2>3. \A p \in PRs : p \in W => p \in excused' \cup strays' \/ Near(record'[p].state, remote'[p].state)
    BY <2>2
  <2>4. run' = [run EXCEPT ![a] = NextPR(x)] /\ run[a].pr \in W \cup {NoPR}
    BY <2>1
  <2>5. \A p \in PRs : p \in W \/ (\E i \in DOMAIN x.left : x.left[i] = p) => Free(run, a, p, excused')
    BY <1>3
  <2> HIDE DEF e, u, v
  <2> QED
    BY <1>4, <2>3, <2>4, <2>5, Release
<1>7. CASE Len(x.todo) > 1
  <2> DEFINE t == Tail(x.todo)
             n == [x EXCEPT !.todo = t]
  <2>1. Onward(x) = n
    BY <1>7 DEF Onward
  <2>2. t \in Seq(StepSet)
    BY <1>2, <1>7, TailNotEmpty
  <2>3. n.pr = x.pr /\ n.todo = t /\ n.cmd = x.cmd /\ n.left = x.left /\ n.copy = x.copy
    BY <2>2 DEF Runs
  <2> HIDE DEF n, e, u, v
  <2>4. Steady(x.todo) => Steady(t)
    <3>1. x.todo # <<>> /\ Len(x.todo) \in Nat
      BY <1>2, LenProperties
    <3>2. \A i \in DOMAIN t : i + 1 \in DOMAIN x.todo /\ t[i] = x.todo[i + 1]
      BY <1>2, <2>2, <3>1, HeadTailProperties, LenProperties
    <3> HIDE DEF t
    <3> QED
      BY <3>2 DEF Steady
  <2>5. ASSUME NEW o, Outline(o, x.todo), e \/ Meets(o[2], u, x.copy.state, v)
        PROVE  Fit(t, u, x.copy.state, v, e)
    <3>1. PICK k : Outline(k, t) /\ k[1] = o[2]
      BY <1>2, <1>7, <2>5, TailOutline
    <3> HIDE DEF t
    <3> QED
      BY <2>5, <3>1 DEF Fit
  <2> HIDE DEF t
  <2>6. Fit(t, u, x.copy.state, v, e)
    BY <1>5, <2>4, <2>5 DEF Fit
  <2>7. Fitting(n, record', remote', excused', strays')
    BY <1>4, <2>3, <2>6 DEF Fitting, e, u, v
  <2>8. \A p \in PRs : p \in W \/ Concerns(n, p) => Free(run, a, p, excused')
    BY <1>3, <2>3 DEF Concerns
  <2>9. /\ run' = [run EXCEPT ![a] = n] /\ run[a].pr \in W \cup {NoPR}
        /\ \A p \in PRs : p \in W => p = n.pr \/ p \in excused' \cup strays' \/ Near(record'[p].state, remote'[p].state)
    BY <2>1, <2>3
  <2> QED
    BY <1>1, <2>7, <2>8, <2>9, MoveOn
<1> QED
  BY <1>6, <1>7

\* What nobody else is concerned with.
LEMMA Mine ==
  ASSUME AloneInv, NEW a \in Actors, excused \subseteq excused', NEW p \in PRs, Concerns(run[a], p)
  PROVE  Free(run, a, p, excused')
BY DEF AloneInv, Apart, Free

\* Its next step leads from where its outline is to where that goes on.
LEMMA AtStart ==
  ASSUME Inv, AloneInv, NEW a \in Actors, Busy(a)
  PROVE  LET p == run[a].pr
             s == run[a].todo
         IN  \/ p \in excused \cup strays /\ Steady(s)
             \/ \E o : /\ Outline(o, s) /\ o[1] \in Marks /\ o[2] \in Marks /\ Leads(o[1], Head(s), o[2])
                       /\ p \in excused \cup strays \/ Meets(o[1], record[p].state, run[a].copy.state, remote[p].state)
<1> DEFINE p == run[a].pr
           s == run[a].todo
           e == p \in excused \cup strays
           u == record[p].state
           c == run[a].copy.state
           v == remote[p].state
<1>1. Fit(s, u, c, v, e)
  BY DEF AloneInv, Fits, Fitting, Busy
<1>2. s \in Seq(StepSet) /\ s # <<>>
  BY AtWork
<1> HIDE DEF s, e, u, c, v
<1>3. (e /\ Steady(s)) \/ \E o : /\ Outline(o, s) /\ o[1] \in Marks /\ o[2] \in Marks /\ Leads(o[1], Head(s), o[2])
                                 /\ e \/ Meets(o[1], u, c, v)
  BY <1>1, <1>2, OutlineStart DEF Fit
<1> QED
  BY <1>3 DEF s, e, u, c, v

\* A goroutine goes on with its pull request: the step leads to what the next one is to meet.
LEMMA TakeFits ==
  ASSUME Inv, AloneInv, NEW a \in Actors, Busy(a), NEW x \in Runs, run' = [run EXCEPT ![a] = Onward(x)],
         x.pr = run[a].pr, x.todo = run[a].todo, x.cmd = run[a].cmd, x.left = run[a].left,
         excused \subseteq excused', strays \subseteq strays',
         \A p \in PRs : p # run[a].pr => record'[p] = record[p] /\ remote'[p] = remote[p],
         \A n, k \in Marks :
           Leads(n, Head(run[a].todo), k)
           /\ Meets(n, record[run[a].pr].state, run[a].copy.state, remote[run[a].pr].state)
             => run[a].pr \in excused' \cup strays'
                \/ Meets(k, record'[run[a].pr].state, x.copy.state, remote'[run[a].pr].state)
  PROVE  AloneInv'
<1> DEFINE W == {run[a].pr}
<1>1. run[a].pr \in PRs
  BY AtWork
<1>2. \A p \in PRs : p \in W => Free(run, a, p, excused')
  BY Mine DEF Concerns
<1>3. \/ x.pr \in excused' \cup strays' /\ Steady(x.todo)
      \/ \E o : /\ Outline(o, x.todo)
                /\ \/ x.pr \in excused' \cup strays'
                   \/ Meets(o[2], record'[x.pr].state, x.copy.state, remote'[x.pr].state)
  <2>1. \/ run[a].pr \in excused \cup strays /\ Steady(run[a].todo)
        \/ \E o : /\ Outline(o, run[a].todo) /\ o[1] \in Marks /\ o[2] \in Marks /\ Leads(o[1], Head(run[a].todo), o[2])
                  /\ \/ run[a].pr \in excused \cup strays
                     \/ Meets(o[1], record[run[a].pr].state, run[a].copy.state, remote[run[a].pr].state)
    BY AtStart
  <2>2. run[a].pr \in excused \cup strays => run[a].pr \in excused' \cup strays'
    OBVIOUS
  <2> QED
    BY <2>1, <2>2
<1>4. x.pr \in PRs /\ run[a].pr \in W /\ x.pr \in W
  BY <1>1
<1>5. /\ \A p \in PRs : p \notin W => record'[p] = record[p] /\ remote'[p] = remote[p]
      /\ \A p \in PRs : p \in W => p = x.pr \/ p \in excused' \cup strays' \/ Near(record'[p].state, remote'[p].state)
  OBVIOUS
<1> HIDE DEF W
<1> QED
  BY <1>2, <1>3, <1>4, <1>5, Continue

\* It gives its pull request up, with record and platform near.
LEMMA QuitFits ==
  ASSUME Inv, AloneInv, NEW a \in Actors, Busy(a), Quits(a), UNCHANGED <<record, remote>>,
         excused \subseteq excused', strays \subseteq strays',
         \A n, k \in Marks :
           Leads(n, Head(run[a].todo), k)
           /\ Meets(n, record[run[a].pr].state, run[a].copy.state, remote[run[a].pr].state)
             => run[a].pr \in excused' \cup strays' \/ Near(record[run[a].pr].state, remote[run[a].pr].state)
  PROVE  AloneInv'
<1> DEFINE W == {run[a].pr}
           x == run[a]
<1>1. x \in Runs /\ run' = [run EXCEPT ![a] = NextPR(x)] /\ run[a].pr \in W \cup {NoPR}
  BY AtWork DEF Quits
<1>2. \A p \in PRs : p \in W \/ (\E i \in DOMAIN x.left : x.left[i] = p) => Free(run, a, p, excused')
  BY Mine DEF Concerns
<1>3. \A i \in DOMAIN x.left : Sound(x.cmd) \/ (x.left[i] \in excused' /\ Steady(x.cmd))
  BY DEF AloneInv, Fits, Fitting
<1>4. run[a].pr \in excused' \cup strays' \/ Near(record[run[a].pr].state, remote[run[a].pr].state)
  BY AtStart
<1>5. /\ \A p \in PRs : p \notin W => record'[p] = record[p] /\ remote'[p] = remote[p]
      /\ \A p \in PRs : p \in W => p \in excused' \cup strays' \/ Near(record'[p].state, remote'[p].state)
  BY <1>4
<1> HIDE DEF W, x
<1> QED
  BY <1>1, <1>2, <1>3, <1>5, Release

\* What the step of a goroutine is about.
LEMMA StatesOf ==
  ASSUME Inv, NEW a \in Actors, Busy(a)
  PROVE  /\ record[run[a].pr].state \in States /\ run[a].copy.state \in States
         /\ remote[run[a].pr].state \in States \ {"spam"}
BY AtWork, CopyGrounded DEF AnyRecord, AnyRemote

\* A run with another copy.
LEMMA CopyRun ==
  ASSUME NEW r \in Runs, NEW c \in AnyRecord
  PROVE  LET x == [r EXCEPT !.copy = c]
         IN  x \in Runs /\ x.pr = r.pr /\ x.todo = r.todo /\ x.cmd = r.cmd /\ x.left = r.left /\ x.copy = c
BY DEF Runs

\* A step that touches neither record nor platform.
LEMMA LookFits ==
  ASSUME Inv, AloneInv, NEW a \in Actors, Busy(a), NEW c \in AnyRecord, Takes(a, c),
         UNCHANGED <<record, remote, excused, strays>>,
         \A n, k \in Marks :
           Leads(n, Head(run[a].todo), k)
           /\ Meets(n, record[run[a].pr].state, run[a].copy.state, remote[run[a].pr].state)
             => Meets(k, record[run[a].pr].state, c.state, remote[run[a].pr].state)
  PROVE  AloneInv'
<1> DEFINE x == [run[a] EXCEPT !.copy = c]
<1>1. run' = [run EXCEPT ![a] = Onward(x)]
  BY DEF Takes
<1>2. x \in Runs /\ x.pr = run[a].pr /\ x.todo = run[a].todo /\ x.cmd = run[a].cmd /\ x.left = run[a].left /\ x.copy = c
  BY AtWork, CopyRun
<1> HIDE DEF x
<1> QED
  BY <1>1, <1>2, TakeFits

\* It goes on with the copy it has.
LEMMA GoFits ==
  ASSUME Inv, AloneInv, NEW a \in Actors, Busy(a), Goes(a), UNCHANGED <<record, remote>>,
         excused \subseteq excused', strays \subseteq strays',
         \A n, k \in Marks :
           Leads(n, Head(run[a].todo), k)
           /\ Meets(n, record[run[a].pr].state, run[a].copy.state, remote[run[a].pr].state)
             => run[a].pr \in excused' \cup strays'
                \/ Meets(k, record[run[a].pr].state, run[a].copy.state, remote[run[a].pr].state)
  PROVE  AloneInv'
<1>1. run[a] \in Runs /\ run' = [run EXCEPT ![a] = Onward(run[a])]
  BY AtWork DEF Goes
<1> QED
  BY <1>1, TakeFits

\* One lemma for each step of a goroutine: the invariant about pull requests apart is kept.
LEMMA ReadFits == ASSUME Inv, AloneInv, NEW a \in Actors, ReadStep(a) PROVE AloneInv'
<1> DEFINE X == Head(run[a].todo)
           u == record[run[a].pr].state
           c == run[a].copy.state
           v == remote[run[a].pr].state
<1>1. Busy(a) /\ X.op = "read" /\ UNCHANGED <<record, remote, excused, strays>>
  BY DEF ReadStep, At, state, history
<1>2. u \in States /\ c \in States /\ v \in States \ {"spam"} /\ record[run[a].pr] \in AnyRecord
  BY <1>1, StatesOf, CopyGrounded
<1>3. \A n, k \in Marks : Leads(n, X, k) /\ Meets(n, u, c, v) => IF u \in X.in THEN Meets(k, u, u, v) ELSE Near(u, v)
  <2> HIDE DEF X, u, c, v
  <2> QED
    BY <1>1, <1>2 DEF Leads
<1>4. CASE u \in X.in
  BY <1>1, <1>2, <1>3, <1>4, LookFits DEF ReadStep
<1>5. CASE u \notin X.in
  BY <1>1, <1>3, <1>5, QuitFits DEF ReadStep
<1> QED
  BY <1>4, <1>5

LEMMA ListFits == ASSUME Inv, AloneInv, NEW a \in Actors, ListStep(a) PROVE AloneInv'
<1> DEFINE p == run[a].pr
           X == Head(run[a].todo)
           u == record[p].state
           c == run[a].copy.state
           v == remote[p].state
<1>1. Busy(a) /\ X.op = "list" /\ UNCHANGED <<record, remote, excused, strays>>
  BY DEF ListStep, At, state, history
<1>2. u \in States /\ c \in States /\ v \in States \ {"spam"} /\ record[p] \in AnyRecord /\ remote[p] \in AnyRemote
  BY <1>1, StatesOf, CopyGrounded
<1>3. \A n, k \in Marks : Leads(n, X, k) /\ Meets(n, u, c, v) => IF v \in X.in THEN Meets(k, u, v, v) ELSE Near(u, v)
  <2> HIDE DEF X, u, c, v
  <2> QED
    BY <1>1, <1>2 DEF Leads
<1>4. ASSUME v \in X.in, NEW kept \in BOOLEAN, Takes(a, Listed(p, kept)) PROVE AloneInv'
  <2>0. /\ (kept /\ record[p].approved) \in BOOLEAN /\ (kept /\ record[p].spam) \in BOOLEAN
        /\ remote[p].conflict \in BOOLEAN /\ v \in States
    BY <1>2 DEF AnyRecord, AnyRemote
  <2>1. Listed(p, kept).state = v /\ Listed(p, kept) \in AnyRecord
    BY <2>0, ZenonT(30) DEF Listed, NoRecord, AnyRecord
  <2> DEFINE l == Listed(p, kept)
  <2>2. l.state = v /\ l \in AnyRecord /\ Takes(a, l)
    BY <1>4, <2>1
  <2> HIDE DEF l
  <2> QED
    BY <1>1, <1>3, <1>4, <2>2, LookFits
<1>5. CASE v \notin X.in
  <2>1. Quits(a)
    BY <1>5 DEF ListStep
  <2> QED
    BY <1>1, <1>3, <1>5, <2>1, QuitFits
<1>6. v \in X.in => \E kept \in BOOLEAN : Takes(a, Listed(p, kept))
  BY DEF ListStep
<1> QED
  BY <1>4, <1>5, <1>6

LEMMA KeepFits == ASSUME Inv, AloneInv, NEW a \in Actors, KeepStep(a) PROVE AloneInv'
<1> DEFINE r == record[run[a].pr]
           k0 == run[a].copy
           b == [k0 EXCEPT !.approved = r.approved, !.spam = r.spam]
           X == Head(run[a].todo)
           u == record[run[a].pr].state
           c == run[a].copy.state
           v == remote[run[a].pr].state
<1>1. Busy(a) /\ X.op = "keep" /\ UNCHANGED <<record, remote, excused, strays>>
  BY DEF KeepStep, At, state, history
<1>2. u \in States /\ c \in States /\ v \in States \ {"spam"} /\ r \in AnyRecord /\ k0 \in AnyRecord
  BY <1>1, StatesOf, CopyGrounded, AtWork
<1>3. \A n, k \in Marks : Leads(n, X, k) /\ Meets(n, u, c, v) => Meets(k, u, c, v) /\ (u = c => Near(u, v))
  <2> HIDE DEF X, u, c, v
  <2> QED
    BY <1>1, <1>2 DEF Leads
<1>4. CASE Takes(a, b)
  <2>1. b \in AnyRecord /\ b.state = c
    BY <1>2 DEF AnyRecord
  <2> HIDE DEF b
  <2> QED
    BY <1>1, <1>3, <1>4, <2>1, LookFits
<1>5. CASE u = c /\ Quits(a)
  BY <1>1, <1>3, <1>5, QuitFits
<1> QED
  BY <1>4, <1>5 DEF KeepStep

LEMMA CallFits == ASSUME Inv, AloneInv, NEW a \in Actors, CallStep(a) PROVE AloneInv'
<1> DEFINE p == run[a].pr
           X == Head(run[a].todo)
           w == X.what
           u == record[p].state
           k0 == run[a].copy
           c == k0.state
           v == remote[p].state
           b == IF w = "rebase" THEN [k0 EXCEPT !.conflict = FALSE] ELSE k0
           x == [run[a] EXCEPT !.copy = b]
<1>1. /\ Busy(a) /\ X.op \in {"call", "try"} /\ w # "revert" /\ v \in Accepts(w)
      /\ remote' = [remote EXCEPT ![p] = After(w, remote[p])]
      /\ run' = [run EXCEPT ![a] = Onward(x)]
      /\ UNCHANGED <<record, excused, strays>>
  BY DEF CallStep, At, Takes
<1>2. /\ u \in States /\ c \in States /\ v \in States \ {"spam"} /\ k0 \in AnyRecord /\ p \in PRs
      /\ remote[p] \in AnyRemote
  BY <1>1, StatesOf, AtWork, CopyGrounded
<1>3. After(w, remote[p]).state = Moved(w, v)
  <2>1. ASSUME NEW r \in AnyRemote, NEW z PROVE After(z, r).state = Moved(z, r.state)
    BY DEF After, Moved, AnyRemote
  <2> QED
    BY <1>2, <2>1
<1>4. \A n, k \in Marks : Leads(n, X, k) /\ Meets(n, u, c, v) => Meets(k, u, c, Moved(w, v))
  <2> HIDE DEF X, u, c, v
  <2> QED
    BY <1>1, <1>2 DEF Leads
<1>5. b \in AnyRecord /\ b.state = c
  BY <1>2 DEF AnyRecord
<1> HIDE DEF b
<1>6. x \in Runs /\ x.pr = p /\ x.todo = run[a].todo /\ x.cmd = run[a].cmd /\ x.left = run[a].left /\ x.copy = b
  BY <1>1, <1>5, AtWork, CopyRun
<1> HIDE DEF x
<1>7. /\ remote'[p] = After(w, remote[p]) /\ \A q \in PRs : q # p => remote'[q] = remote[q]
  BY <1>1, <1>2 DEF Inv, Typed
<1>8. remote'[p].state = Moved(w, v) /\ x.copy.state = c
  BY <1>3, <1>5, <1>6, <1>7
<1>9. \A n, k \in Marks : Leads(n, X, k) /\ Meets(n, u, c, v) => Meets(k, record'[p].state, x.copy.state, remote'[p].state)
  BY <1>1, <1>4, <1>8
<1> QED
  BY <1>1, <1>6, <1>7, <1>9, TakeFits

\* Whatever is known can be so.
LEMMA MarksMet == \A n \in Marks : \E r, c \in States, m \in States \ {"spam"} : Meets(n, r, c, m)
<1>1. Near("open", "open") /\ Near("closed", "closed") /\ Near("merged", "merged")
  BY DEF Near, Matches
<1>2. {"open", "closed", "merged", "spam"} \subseteq States
  BY DEF States
<1>3. /\ Meets("ok", "open", "open", "open") /\ Meets("fresh", "open", "open", "open")
      /\ Meets("shut", "closed", "closed", "closed") /\ Meets("up", "open", "open", "open")
      /\ Meets("marked", "spam", "spam", "closed") /\ Meets("landed", "merged", "merged", "merged")
      /\ Meets("told", "merged", "merged", "merged") /\ Meets("new", "open", "open", "open")
  BY <1>1 DEF Meets
<1>4. "open" # "spam" /\ "closed" # "spam" /\ "merged" # "spam"
  OBVIOUS
<1> HIDE DEF Meets
<1> QED
  BY <1>2, <1>3, <1>4 DEF Marks

LEMMA RevertFits == ASSUME Inv, AloneInv, NEW a \in Actors, RevertStep(a) PROVE AloneInv'
<1> DEFINE p == run[a].pr
           s == run[a].todo
           X == Head(s)
<1>1. PICK q \in PRs : /\ remote[q].state = "none"
                       /\ remote' = [remote EXCEPT ![q].state = "open"]
                       /\ run' = [run EXCEPT ![a] = Onward([run[a] EXCEPT !.pr = q, !.copy = Opened])]
                       /\ excused' = excused \cup {o \in {q} : Others(a, o)}
  BY DEF RevertStep, Excuse
<1>2. /\ Busy(a) /\ Calls(X, "revert") /\ UNCHANGED <<record, strays>>
      /\ remote[p].state = "merged"
  BY DEF RevertStep, At, Calls, Accepts
<1> DEFINE x == [run[a] EXCEPT !.pr = q, !.copy = Opened]
           W == {p, q}
<1>3. /\ run[a] \in Runs /\ s \in Seq(StepSet) /\ s # <<>> /\ p \in PRs /\ X = s[1] /\ 1 \in DOMAIN s
  BY <1>2, AtWork
<1>4. Opened \in AnyRecord /\ Opened.state = "open"
  BY NothingClaimed DEF Opened, AnyRecord, States
<1>5. x \in Runs /\ x.pr = q /\ x.todo = s /\ x.cmd = run[a].cmd /\ x.left = run[a].left /\ x.copy = Opened
  BY <1>3, <1>4 DEF Runs
<1>6. p # q
  BY <1>1, <1>2
<1>7. remote'[q].state = "open" /\ \A o \in PRs : o # q => remote'[o] = remote[o]
  BY <1>1 DEF Inv, Typed, AnyRemote
<1>8. excused \subseteq excused' /\ strays \subseteq strays'
  BY <1>1, <1>2
<1>9. Free(run, a, q, excused')
  BY <1>1 DEF Free, Concerns, Others
<1>10. Free(run, a, p, excused')
  BY <1>3, <1>8, Mine DEF Concerns
<1>11. record[q].state = "none" \/ q \in excused' \cup strays'
  <2>1. CASE \E b \in Actors : run[b].pr = q
    <3>1. PICK b \in Actors : run[b].pr = q
      BY <2>1
    <3>2. b # a
      BY <1>6, <3>1
    <3> QED
      BY <1>9, <3>1, <3>2 DEF Free, Concerns
  <2>2. CASE ~\E b \in Actors : run[b].pr = q
    <3>1. q \in excused \cup strays \/ Near(record[q].state, "none")
      BY <1>1, <2>2 DEF AloneInv, Settled
    <3>2. \A r : Near(r, "none") => r = "none"
      BY DEF Near, Matches, Answers
    <3> QED
      BY <1>8, <3>1, <3>2
  <2> QED
    BY <2>1, <2>2
<1> DEFINE e == p \in excused \cup strays
           u == record[p].state
           c == run[a].copy.state
           v == remote[p].state
<1>12. u \in States /\ c \in States /\ v \in States \ {"spam"}
  BY <1>2, StatesOf
<1>13. ~Steady(s)
  <2> HIDE DEF s, X
  <2> QED
    BY <1>2, <1>3 DEF Steady
<1>14. PICK o : /\ Outline(o, s) /\ o[1] \in Marks /\ o[2] \in Marks /\ Leads(o[1], X, o[2])
                /\ e \/ Meets(o[1], u, c, v)
  BY <1>2, <1>13, AtStart
<1>15. Meets(o[2], "none", "open", "open")
  <2>1. \E i, j \in States, m \in States \ {"spam"} : Meets(o[1], i, j, m)
    BY <1>14, MarksMet
  <2> HIDE DEF X
  <2> QED
    BY <1>2, <1>14, <2>1 DEF Leads
<1>16. e \/ Near(u, v)
  <2> HIDE DEF X, u, c, v, e
  <2> QED
    BY <1>2, <1>12, <1>14 DEF Leads
<1>17. \A i \in PRs : i \in W => Free(run, a, i, excused')
  BY <1>9, <1>10
<1>18. \A i \in PRs : i \in W => i = q \/ i \in excused' \cup strays' \/ Near(record'[i].state, remote'[i].state)
  BY <1>2, <1>3, <1>6, <1>7, <1>8, <1>16
<1>19. \E k : /\ Outline(k, s)
              /\ \/ q \in excused' \cup strays'
                 \/ Meets(k[2], record'[q].state, Opened.state, remote'[q].state)
  BY <1>2, <1>4, <1>7, <1>11, <1>14, <1>15
<1>20. run' = [run EXCEPT ![a] = Onward(x)]
  BY <1>1
<1>21. /\ run[a].pr \in W /\ q \in W
       /\ \A i \in PRs : i \notin W => record'[i] = record[i] /\ remote'[i] = remote[i]
  BY <1>2, <1>7
<1> HIDE DEF x, W
<1>22. /\ x.pr \in PRs /\ x.todo = run[a].todo /\ x.pr \in W
       /\ \A i \in PRs : i \in W => i = x.pr \/ i \in excused' \cup strays' \/ Near(record'[i].state, remote'[i].state)
  BY <1>5, <1>18, <1>21
<1>23. \E k : /\ Outline(k, x.todo)
              /\ \/ x.pr \in excused' \cup strays'
                 \/ Meets(k[2], record'[x.pr].state, x.copy.state, remote'[x.pr].state)
  BY <1>5, <1>19
<1> QED
  BY <1>2, <1>5, <1>8, <1>17, <1>20, <1>21, <1>22, <1>23, Continue

LEMMA FailFits == ASSUME Inv, AloneInv, NEW a \in Actors, CallFails(a) PROVE AloneInv'
<1>1. /\ Busy(a) /\ UNCHANGED <<record, remote, strays>> /\ excused \subseteq excused' /\ run[a].pr \in excused'
      /\ Quits(a) \/ Goes(a)
  BY DEF CallFails, At, Excuse, state
<1> QED
  BY <1>1, QuitFits, GoFits

LEMMA RefreshFits == ASSUME Inv, AloneInv, NEW a \in Actors, RefreshStep(a) PROVE AloneInv'
<1> DEFINE p == run[a].pr
           X == Head(run[a].todo)
           k0 == run[a].copy
           u == record[p].state
           c == k0.state
           v == remote[p].state
           b(s) == IF X.what = "merged" THEN [k0 EXCEPT !.state = s]
                   ELSE [k0 EXCEPT !.state = s, !.draft = FALSE, !.conflict = remote[p].conflict]
           d == IF X.what = "merged" THEN [k0 EXCEPT !.state = "merged"] ELSE k0
<1>1. Busy(a) /\ X.op = "refresh" /\ UNCHANGED <<record, remote, excused, strays>>
  BY DEF RefreshStep, At, state, history
<1>2. /\ u \in States /\ c \in States /\ v \in States \ {"spam"} /\ k0 \in AnyRecord /\ remote[p] \in AnyRemote
  BY <1>1, StatesOf, AtWork, CopyGrounded
<1>3. \A n, k \in Marks : Leads(n, X, k) /\ Meets(n, u, c, v) =>
        /\ \A s \in Answers(v) : Meets(k, u, s, v)
        /\ Meets(k, u, IF X.what = "merged" THEN "merged" ELSE c, v)
  <2> HIDE DEF X, u, c, v
  <2> QED
    BY <1>1, <1>2 DEF Leads
<1>4. (\E s \in Answers(v) : Takes(a, b(s))) \/ Takes(a, d)
  BY DEF RefreshStep
<1>5. \A s \in Answers(v) : s \in States
  BY <1>2 DEF Answers, States
<1>6. ASSUME NEW s \in Answers(v), Takes(a, b(s)) PROVE AloneInv'
  <2> DEFINE f == b(s)
  <2>1. f \in AnyRecord /\ f.state = s
    BY <1>2, <1>5 DEF AnyRecord, AnyRemote
  <2>2. Takes(a, f)
    BY <1>6
  <2> HIDE DEF f
  <2>3. \A n, k \in Marks : Leads(n, X, k) /\ Meets(n, u, c, v) => Meets(k, u, f.state, v)
    BY <1>3, <2>1
  <2> QED
    BY <1>1, <2>1, <2>2, <2>3, LookFits
<1>7. CASE Takes(a, d)
  <2>1. d \in AnyRecord /\ d.state = IF X.what = "merged" THEN "merged" ELSE c
    BY <1>2 DEF AnyRecord, States
  <2> HIDE DEF d
  <2>2. \A n, k \in Marks : Leads(n, X, k) /\ Meets(n, u, c, v) => Meets(k, u, d.state, v)
    BY <1>3, <2>1
  <2> QED
    BY <1>1, <1>7, <2>1, <2>2, LookFits
<1> QED
  BY <1>4, <1>6, <1>7

\* The state of what is saved.
LEMMA ChangedState ==
  ASSUME NEW w \in Changes, NEW c \in AnyRecord
  PROVE  Changed(w, c).state = Written(w, c.state)
BY DEF Changed, Written, Changes, AnyRecord

LEMMA SaveFits == ASSUME Inv, AloneInv, NEW a \in Actors, SaveStep(a) PROVE AloneInv'
<1> DEFINE p == run[a].pr
           X == Head(run[a].todo)
           k0 == run[a].copy
           u == record[p].state
           c == k0.state
           v == remote[p].state
           r == Changed(X.what, k0)
           x == [run[a] EXCEPT !.copy = r]
<1>1. /\ Busy(a) /\ X.op = "save" /\ UNCHANGED <<remote, excused, strays>>
      /\ record' = [record EXCEPT ![p] = r] /\ run' = [run EXCEPT ![a] = Onward(x)]
  BY DEF SaveStep, At, Takes, history
<1>2. /\ u \in States /\ c \in States /\ v \in States \ {"spam"} /\ k0 \in AnyRecord /\ p \in PRs /\ X \in StepSet
      /\ run[a] \in Runs
  BY <1>1, StatesOf, AtWork
<1>3. r \in AnyRecord /\ r.state = Written(X.what, c)
  BY <1>1, <1>2, ChangedGrounded, ChangedState, SaveSteps
<1>4. \A n, k \in Marks : Leads(n, X, k) /\ Meets(n, u, c, v) => Meets(k, Written(X.what, c), Written(X.what, c), v)
  <2> HIDE DEF X, u, c, v
  <2> QED
    BY <1>1, <1>2 DEF Leads
<1> HIDE DEF r
<1>5. x \in Runs /\ x.pr = p /\ x.todo = run[a].todo /\ x.cmd = run[a].cmd /\ x.left = run[a].left /\ x.copy = r
  BY <1>2, <1>3, CopyRun
<1> HIDE DEF x
<1>6. record'[p] = r /\ \A q \in PRs : q # p => record'[q] = record[q]
  BY <1>1, <1>2 DEF Inv, Typed
<1>7. \A n, k \in Marks : Leads(n, X, k) /\ Meets(n, u, c, v) => Meets(k, record'[p].state, x.copy.state, remote'[p].state)
  BY <1>1, <1>3, <1>4, <1>5, <1>6
<1> QED
  BY <1>1, <1>5, <1>6, <1>7, TakeFits

LEMMA MisfileFits == ASSUME Inv, AloneInv, NEW a \in Actors, MisfileStep(a) PROVE AloneInv'
<1>1. /\ Busy(a) /\ Goes(a) /\ UNCHANGED <<record, remote, excused>> /\ strays \subseteq strays' /\ run[a].pr \in strays'
  BY DEF MisfileStep, At, history
<1> QED
  BY <1>1, GoFits

\* Steps that look at the copy, the queue or the count leave record and platform where they are.
LEMMA AsideFits ==
  ASSUME Inv, AloneInv, NEW a \in Actors, Busy(a),
         Head(run[a].todo).op \in {"only", "enqueue", "dequeue", "readcount", "writecount"}
  PROVE  \A n, k \in Marks :
           Leads(n, Head(run[a].todo), k)
           /\ Meets(n, record[run[a].pr].state, run[a].copy.state, remote[run[a].pr].state)
             => /\ Meets(k, record[run[a].pr].state, run[a].copy.state, remote[run[a].pr].state)
                /\ Head(run[a].todo).op = "only" => Near(record[run[a].pr].state, remote[run[a].pr].state)
<1> DEFINE X == Head(run[a].todo)
           u == record[run[a].pr].state
           c == run[a].copy.state
           v == remote[run[a].pr].state
<1>1. u \in States /\ c \in States /\ v \in States \ {"spam"} /\ X.op \in {"only", "enqueue", "dequeue", "readcount", "writecount"}
  BY StatesOf
<1> HIDE DEF X, u, c, v
<1>2. \A n, k \in Marks : Leads(n, X, k) /\ Meets(n, u, c, v) => Meets(k, u, c, v) /\ (X.op = "only" => Near(u, v))
  BY <1>1 DEF Leads
<1> QED
  BY <1>2 DEF X, u, c, v

LEMMA OnlyFits == ASSUME Inv, AloneInv, NEW a \in Actors, OnlyStep(a) PROVE AloneInv'
<1>1. /\ Busy(a) /\ Head(run[a].todo).op = "only" /\ UNCHANGED <<record, remote, excused, strays>>
      /\ Goes(a) \/ Quits(a)
  BY DEF OnlyStep, At, state, history
<1> QED
  BY <1>1, AsideFits, GoFits, QuitFits

LEMMA QueueFits == ASSUME Inv, AloneInv, NEW a \in Actors, QueueStep(a) \/ WriteCountStep(a) PROVE AloneInv'
<1>1. /\ Busy(a) /\ Goes(a) /\ Head(run[a].todo).op \in {"enqueue", "dequeue", "writecount"}
      /\ UNCHANGED <<record, remote, excused, strays>>
  BY DEF QueueStep, WriteCountStep, At, history
<1> QED
  BY <1>1, AsideFits, GoFits

LEMMA ReadCountFits == ASSUME Inv, AloneInv, NEW a \in Actors, ReadCountStep(a) PROVE AloneInv'
<1> DEFINE x == [run[a] EXCEPT !.count = strikes]
<1>1. /\ Busy(a) /\ Head(run[a].todo).op = "readcount" /\ UNCHANGED <<record, remote, excused, strays>>
      /\ run' = [run EXCEPT ![a] = Onward(x)]
  BY DEF ReadCountStep, At, state, history
<1>2. run[a] \in Runs /\ strikes \in Nat
  BY DEF Inv, Typed
<1>3. x \in Runs /\ x.pr = run[a].pr /\ x.todo = run[a].todo /\ x.cmd = run[a].cmd /\ x.left = run[a].left
      /\ x.copy = run[a].copy
  BY <1>2 DEF Runs
<1> HIDE DEF x
<1> QED
  BY <1>1, <1>3, AsideFits, TakeFits

\* The commands that leave the record behind open no pull request.
LEMMA SilentSteady == \A s \in Silent : Steady(s)
<1>1. Silent \subseteq Seq(Quiet)
  <2> DEFINE Q == Seq(Quiet)
  <2>1. {RestReopen, RestBatchApprove, RestBatchMerge, AutoMerge, AutoClose, CommentApprove, CommentClose, CommentReopen,
         CommentMerge} \subseteq Q
    BY QuietCommands
  <2> HIDE DEF Q
  <2>2. Silent \subseteq Q
    BY <2>1 DEF Silent
  <2> QED
    BY <2>2 DEF Q
<1>2. \A x \in Quiet : ~Calls(x, "revert")
  BY DEF Quiet, Mild, Calls
<1>3. ASSUME NEW s \in Seq(Quiet) PROVE Steady(s)
  <2>1. \A i \in DOMAIN s : s[i] \in Quiet
    BY ElementOfSeq, LenProperties
  <2> QED
    BY <1>2, <2>1 DEF Steady
<1> QED
  BY <1>1, <1>3

\* A command that begins has its pull requests to itself, or they are excused, and its outline starts where any is left.
LEMMA BeginsFits ==
  ASSUME Inv, AloneInv, NEW a \in Actors, NEW ps \in Seq(PRs), NEW cmd, Begins(a, cmd, ps),
         cmd \in RestCommands \cup ChatCommands \cup Chores \cup RestBatches \cup ChatBatches \cup {Poll}
  PROVE  AloneInv'
<1> DEFINE S == {ps[i] : i \in DOMAIN ps}
           x == [Idle EXCEPT !.cmd = cmd, !.left = ps]
           W == {}
<1>1. /\ run[a].pr = NoPR /\ run' = [run EXCEPT ![a] = NextPR(x)]
      /\ excused' = excused \cup (IF cmd \in Silent THEN S ELSE {p \in S : Others(a, p)})
      /\ UNCHANGED <<record, remote, strays>>
  BY DEF Begins, Busy, Start, state, Excuse
<1>2. cmd \in Seq(StepSet)
  BY CommandUnderWay
<1>3. x \in Runs /\ x.cmd = cmd /\ x.left = ps
  <2>1. Idle \in Runs
    BY IdleOK DEF RunOK
  <2> QED
    BY <1>2, <2>1 DEF Runs
<1> HIDE DEF x
<1>4. ASSUME NEW i \in DOMAIN ps
      PROVE  Free(run, a, ps[i], excused') /\ (Sound(cmd) \/ (ps[i] \in excused' /\ Steady(cmd)))
  <2>1. CASE cmd \in Silent
    BY <1>1, <2>1, SilentSteady DEF Free
  <2>2. CASE cmd \notin Silent
    <3>1. Sound(cmd)
      BY <2>2, CommandSound
    <3>2. ps[i] \in excused' \/ ~Others(a, ps[i])
      BY <1>1, <2>2
    <3> QED
      BY <3>1, <3>2 DEF Free, Others, Concerns
  <2> QED
    BY <2>1, <2>2
<1>5. \A p \in PRs : p \in W \/ (\E i \in DOMAIN x.left : x.left[i] = p) => Free(run, a, p, excused')
  BY <1>3, <1>4
<1>6. \A i \in DOMAIN x.left : Sound(x.cmd) \/ (x.left[i] \in excused' /\ Steady(x.cmd))
  BY <1>3, <1>4
<1>7. /\ run[a].pr \in W \cup {NoPR} /\ excused \subseteq excused' /\ strays \subseteq strays'
      /\ \A p \in PRs : p \notin W => record'[p] = record[p] /\ remote'[p] = remote[p]
      /\ \A p \in PRs : p \in W => p \in excused' \cup strays' \/ Near(record'[p].state, remote'[p].state)
  BY <1>1
<1> HIDE DEF W, S
<1> QED
  BY <1>1, <1>3, <1>5, <1>6, <1>7, Release

LEMMA CommandFits == ASSUME Inv, AloneInv, NEW a \in Users, Command(a) PROVE AloneInv'
<1> DEFINE Cmds == RestCommands \cup ChatCommands \cup Chores \cup RestBatches \cup ChatBatches \cup {Poll}
<1>1. PICK p \in PRs : \/ \E cmd \in Singles[a] : Begins(a, cmd, <<p>>)
                       \/ \E cmd \in Batches[a], q \in PRs \ {p} : Begins(a, cmd, <<p, q>>)
  BY DEF Command
<1>2. /\ \A cmd \in Singles[a] : cmd \in Cmds
      /\ \A cmd \in Batches[a] : cmd \in Cmds
      /\ a \in Actors
  BY CommandsAssumption DEF Actors
<1>3. ASSUME NEW cmd \in Singles[a], Begins(a, cmd, <<p>>) PROVE AloneInv'
  <2>1. <<p>> \in Seq(PRs)
    OBVIOUS
  <2> QED
    BY <1>2, <1>3, <2>1, BeginsFits
<1>4. ASSUME NEW cmd \in Batches[a], NEW q \in PRs, Begins(a, cmd, <<p, q>>) PROVE AloneInv'
  <2>1. <<p, q>> \in Seq(PRs)
    OBVIOUS
  <2> QED
    BY <1>2, <1>4, <2>1, BeginsFits
<1> QED
  BY <1>1, <1>3, <1>4

LEMMA PollFits == ASSUME Inv, AloneInv, NEW p \in PRs, Polls(p) PROVE AloneInv'
<1>1. <<p>> \in Seq(PRs) /\ Poller \in Actors /\ Begins(Poller, Poll, <<p>>)
  BY DEF Polls, Actors
<1> QED
  BY <1>1, BeginsFits

\* At the start every record agrees with its platform.
LEMMA AloneInitial == ASSUME Init PROVE AloneInv
<1>1. PICK s \in Starts : record = s.record /\ remote = s.remote
  BY DEF Init
<1>2. \A p \in PRs : Matches(record[p].state, remote[p].state)
  BY <1>1, CommandsAssumption
<1>3. \A a \in Actors : run[a].pr = NoPR /\ DOMAIN run[a].left = {}
  <2>1. \A a \in Actors : run[a] = Idle
    BY DEF Init
  <2>2. DOMAIN Idle.left = {}
    BY IdleOK
  <2> QED
    BY <2>1, <2>2, IdleOK
<1>4. NoPR \notin PRs
  BY CommandsAssumption
<1>5. Apart
  BY <1>3, <1>4 DEF Apart, Concerns
<1>6. Settled
  BY <1>2 DEF Settled, Near
<1>7. Fits
  BY <1>3 DEF Fits, Fitting
<1> QED
  BY <1>5, <1>6, <1>7 DEF AloneInv

\* Every step keeps the invariant about pull requests apart.
LEMMA AloneKept == ASSUME Inv, AloneInv, [Next]_vars PROVE AloneInv'
<1>1. ASSUME NEW a \in Users, Command(a) PROVE AloneInv'
  BY <1>1, CommandFits
<1>2. ASSUME NEW p \in PRs, Polls(p) PROVE AloneInv'
  BY <1>2, PollFits
<1>3. ASSUME NEW a \in Actors, Works(a) PROVE AloneInv'
  <2>1. CASE ReadStep(a) \/ ListStep(a) \/ KeepStep(a) \/ RefreshStep(a) \/ OnlyStep(a)
    BY <2>1, ReadFits, ListFits, KeepFits, RefreshFits, OnlyFits
  <2>2. CASE CallStep(a) \/ RevertStep(a) \/ CallFails(a)
    BY <2>2, CallFits, RevertFits, FailFits
  <2>3. CASE SaveStep(a) \/ MisfileStep(a) \/ QueueStep(a) \/ ReadCountStep(a) \/ WriteCountStep(a)
    BY <2>3, SaveFits, MisfileFits, QueueFits, ReadCountFits
  <2> QED
    BY <1>3, <2>1, <2>2, <2>3 DEF Works
<1>4. CASE UNCHANGED vars
  <2>1. UNCHANGED <<record, remote, strays, run, excused>>
    BY <1>4 DEF vars, state, history
  <2> QED
    BY <2>1 DEF AloneInv, Apart, Settled, Fits
<1> QED
  BY <1>1, <1>2, <1>3, <1>4 DEF Next

\* A command that has a pull request for itself, and no call of which fails, leaves record and platform in agreement, but
\* for the commands that leave the record behind and for a merged pull request that was called closed: whatever the other
\* goroutines do to other pull requests meanwhile, for any number of both, and for every command of every front end.
THEOREM AloneHolds == Spec => []Alone
<1>1. Inv /\ AloneInv => Alone
  <2>1. ASSUME Inv, AloneInv, NEW p \in PRs, p \notin excused \cup strays, \A a \in Actors : ~Busy(a)
        PROVE  Agrees(p) \/ record[p].state \in Answers(remote[p].state)
    <3>1. \A a \in Actors : run[a].pr # p
      BY <2>1, CommandsAssumption DEF Busy
    <3>2. Near(record[p].state, remote[p].state)
      BY <2>1, <3>1 DEF AloneInv, Settled
    <3> QED
      BY <3>2 DEF Near, Agrees
  <2> QED
    BY <2>1 DEF Alone
<1>2. Init => Inv /\ AloneInv
  BY InvInitial, AloneInitial
<1>3. Inv /\ AloneInv /\ [Next]_vars => (Inv /\ AloneInv)'
  BY InvKept, AloneKept
<1> QED
  BY <1>1, <1>2, <1>3, PTL DEF Spec

USE PoolAssumption

-----------------------------------------------------------------------------
\* Sets of workers and configurations

LEMMA ConfigFields ==
  ASSUME NEW k \in Configs
  PROVE  k.min \in Nat /\ k.max \in Nat \ {0}
BY DEF ConfigType

LEMMA WorkersFinite ==
  ASSUME NEW W \in SUBSET Workers
  PROVE  IsFiniteSet(W) /\ Cardinality(W) \in Nat
BY FS_Subset, FS_CardinalityType

LEMMA FewerWorkers ==
  ASSUME NEW W \in SUBSET Workers, NEW V \in SUBSET W
  PROVE  Cardinality(V) <= Cardinality(W)
BY WorkersFinite, FS_Subset

LEMMA OneMoreWorker ==
  ASSUME NEW W \in SUBSET Workers, NEW w \in Workers \ W
  PROVE  Cardinality(W \cup {w}) = Cardinality(W) + 1
BY WorkersFinite, FS_AddElement

LEMMA FirstWorkersCount ==
  FirstWorkers \subseteq Workers /\ Cardinality(FirstWorkers) = StartConfig.min
BY DEF FirstWorkers

-----------------------------------------------------------------------------
(***************************************************************************)
(* The invariant behind MaxRespected.  The adjuster decides and spawns in  *)
(* two steps; it is the only one that spawns, so that a decision to scale  *)
(* up taken below some limit still finds the pool below it.                *)
(***************************************************************************)
WStates == {"unborn", "idle", "busy", "gone"}

MaxInv ==
  /\ limits \in Configs
  /\ wstate \in [Workers -> WStates]
  /\ MaxRespected
  /\ adjuster = "up" => \E k \in Configs : Cardinality(Live) < k.max

LEMMA LiveWorkers == Live \subseteq Workers
BY DEF Live

\* A step that lets no worker in keeps the invariant, unless it decides to scale up.
LEMMA MaxNoSpawn ==
  ASSUME MaxInv, limits' \in Configs, wstate' \in [Workers -> WStates],
         Live' \subseteq Live,
         adjuster' = "up" => adjuster = "up" \/ WantsUp
  PROVE  MaxInv'
<1>1. Cardinality(Live') <= Cardinality(Live)
      /\ Cardinality(Live') \in Nat /\ Cardinality(Live) \in Nat
  BY LiveWorkers, FewerWorkers, WorkersFinite
<1>2. MaxRespected'
  BY <1>1, ConfigFields DEF MaxInv, MaxRespected
<1>3. ASSUME adjuster' = "up" PROVE \E k \in Configs : Cardinality(Live') < k.max
  <2>1. \E k \in Configs : Cardinality(Live) < k.max
    BY <1>3, ConfigFields DEF MaxInv, WantsUp
  <2> QED BY <1>1, <2>1, ConfigFields
<1> QED BY <1>2, <1>3 DEF MaxInv

LEMMA MaxSpawn == ASSUME MaxInv, ScaleUp PROVE MaxInv'
<1>1. CASE closed /\ UNCHANGED <<wstate, cancels>>
  BY <1>1, MaxNoSpawn DEF ScaleUp, MaxInv, Live
<1>2. ASSUME NEW w \in Workers, wstate[w] = "unborn",
             wstate' = [wstate EXCEPT ![w] = "idle"]
      PROVE  MaxInv'
  <2>1. Live' = Live \cup {w} /\ w \in Workers \ Live
    BY <1>2 DEF Live, MaxInv, WStates
  <2>2. Cardinality(Live') = Cardinality(Live) + 1
    BY <2>1, LiveWorkers, OneMoreWorker
  <2>3. Cardinality(Live) \in Nat BY LiveWorkers, WorkersFinite
  <2>4. \E k \in Configs : Cardinality(Live) < k.max BY DEF ScaleUp, MaxInv
  <2>5. MaxRespected' BY <2>2, <2>3, <2>4, ConfigFields DEF MaxRespected
  <2>6. wstate' \in [Workers -> WStates] BY <1>2 DEF MaxInv, WStates
  <2> QED BY <2>5, <2>6 DEF MaxInv, ScaleUp
<1> QED BY <1>1, <1>2 DEF ScaleUp

LEMMA MaxAdjuster == ASSUME MaxInv, AdjusterStep PROVE MaxInv'
<1>1. CASE ScaleUp BY <1>1, MaxSpawn
<1>2. CASE Decide BY <1>2, MaxNoSpawn DEF Decide, MaxInv, Live, workerVars
<1>3. CASE ScaleDown BY <1>3, MaxNoSpawn DEF ScaleDown, MaxInv, Live
<1>4. CASE CoolDown \/ AdjusterEnds
  BY <1>4, MaxNoSpawn DEF CoolDown, AdjusterEnds, MaxInv, Live, workerVars
<1> QED BY <1>1, <1>2, <1>3, <1>4 DEF AdjusterStep

LEMMA MaxWorker == ASSUME MaxInv, NEW w \in Workers, WorkerStep(w) PROVE MaxInv'
<1>1. wstate' \in [Workers -> WStates] /\ Live' \subseteq Live
  BY DEF WorkerStep, Take, Executed, SeeStop, Leave, MaxInv, WStates, Live
<1>2. limits' = limits /\ adjuster' = adjuster
  BY DEF WorkerStep, Take, Executed, SeeStop, Leave
<1> QED BY <1>1, <1>2, MaxNoSpawn DEF MaxInv

\* Every step of the pool's users that leaves the workers and the adjuster alone.
LEMMA MaxOthers ==
  ASSUME MaxInv, UNCHANGED <<wstate, adjuster>>, limits' \in Configs
  PROVE  MaxInv'
BY MaxNoSpawn DEF MaxInv, Live

LEMMA MaxFirst ==
  Cardinality(FirstWorkers) <= StartConfig.max /\ StartConfig \in Configs
BY FirstWorkersCount

LEMMA MaxInit == PoolInit => MaxInv
<1> SUFFICES ASSUME PoolInit PROVE MaxInv OBVIOUS
<1>1. Live = FirstWorkers
  BY FirstWorkersCount DEF PoolInit, NewWorkers, Live
<1> QED BY <1>1, MaxFirst DEF PoolInit, NewWorkers, MaxInv, MaxRespected, WStates

LEMMA MaxRenewed == newWorkerPool => MaxInv'
<1> SUFFICES ASSUME newWorkerPool PROVE MaxInv' OBVIOUS
<1>1. Live' = FirstWorkers
  BY FirstWorkersCount DEF newWorkerPool, NewWorkers, Live
<1> QED BY <1>1, MaxFirst DEF newWorkerPool, NewWorkers, MaxInv, MaxRespected, WStates

LEMMA MaxStep == ASSUME MaxInv, [PoolNext]_poolVars PROVE MaxInv'
<1>1. CASE AdjusterStep BY <1>1, MaxAdjuster
<1>2. ASSUME NEW w \in Workers, WorkerStep(w) PROVE MaxInv' BY <1>2, MaxWorker
<1>3. CASE ClosePool BY <1>3, MaxOthers DEF ClosePool, MaxInv, workerVars
<1>4. ASSUME NEW k \in Configs, UpdateConfig(k) PROVE MaxInv'
  BY <1>4, MaxOthers DEF UpdateConfig, workerVars
<1>5. ASSUME NEW t \in Tasks, Submitted(t) \/ SubmitRefused(t) PROVE MaxInv'
  BY <1>5, MaxOthers DEF Submitted, SubmitRefused, MaxInv, workerVars, poolVars
<1>6. CASE UNCHANGED poolVars BY <1>6, MaxOthers DEF MaxInv, poolVars
<1> QED BY <1>1, <1>2, <1>3, <1>4, <1>5, <1>6 DEF PoolNext, PoolStep

\* A pool alone never has more workers than the largest maximum it was given, although
\* adjust (pool.go) compares the count with the limit long before it spawns.
THEOREM PoolMaxRespected == PoolSpec => []MaxRespected
<1>1. MaxInv => MaxRespected BY DEF MaxInv
<1> QED BY <1>1, MaxInit, MaxStep, PTL DEF PoolSpec

-----------------------------------------------------------------------------
\* Type correctness

LEMMA CapPositive == Cap \in Nat \ {0}
BY ConfigFields DEF Cap

\* A finite set can be listed, in at least one order.
LEMMA Listing == Sequence(FirstWorkers) \in Seq(Workers)
<1> DEFINE W == FirstWorkers
           n == Cardinality(W)
<1>1. W \subseteq Workers /\ IsFiniteSet(W) /\ n \in Nat
  BY FirstWorkersCount, WorkersFinite
<1>2. PICK s \in [1..n -> W] : \A w \in W : \E i \in 1..n : s[i] = w
  BY <1>1, FS_CardinalityType DEF ExistsBijection, Bijection, Surjection
<1>3. Sequence(W) \in [1..n -> W] BY <1>2 DEF Sequence
<1> QED BY <1>1, <1>3

LEMMA EmptyChannel == <<>> \in Seq(Tasks) /\ Len(<<>>) <= Cap
BY CapPositive

LEMMA NewTyped ==
  /\ NewWorkers \in [Workers -> WStates] /\ NoJobs \in [Workers -> Tasks \cup {NoTask}]
BY DEF NewWorkers, NoJobs, WStates

LEMMA PoolTypeInit == PoolInit => PoolTypeOK
BY Listing, EmptyChannel, NewTyped DEF PoolInit, PoolTypeOK, WStates

LEMMA PoolTypeRenewed == newWorkerPool => PoolTypeOK'
BY Listing, EmptyChannel, NewTyped DEF newWorkerPool, PoolTypeOK, WStates

LEMMA PoolTypeSubmitted ==
  ASSUME PoolTypeOK, NEW t \in Tasks, Submitted(t) \/ SubmitRefused(t)
  PROVE  PoolTypeOK'
<1>1. CASE Submitted(t)
  <2>1. tasks' \in Seq(Tasks) /\ Len(tasks') = Len(tasks) + 1
    BY <1>1 DEF Submitted, PoolTypeOK
  <2> QED BY <1>1, <2>1, CapPositive DEF Submitted, PoolTypeOK, workerVars
<1>2. CASE SubmitRefused(t) BY <1>2 DEF SubmitRefused, PoolTypeOK, poolVars, workerVars
<1> QED BY <1>1, <1>2

LEMMA PoolTypeWorker ==
  ASSUME PoolTypeOK, NEW w \in Workers, WorkerStep(w) PROVE PoolTypeOK'
<1>1. CASE Take(w)
  <2>1. /\ Head(tasks) \in Tasks /\ tasks' \in Seq(Tasks)
        /\ Len(tasks') = Len(tasks) - 1
    BY <1>1, HeadTailProperties DEF Take, PoolTypeOK
  <2>2. Len(tasks') <= Cap BY <2>1, CapPositive DEF PoolTypeOK
  <2> QED BY <1>1, <2>1, <2>2 DEF Take, PoolTypeOK
<1>2. CASE Executed(w) BY <1>2 DEF Executed, PoolTypeOK
<1>3. CASE SeeStop(w) BY <1>3 DEF SeeStop, PoolTypeOK
<1>4. CASE Leave(w) BY <1>4 DEF Leave, PoolTypeOK
<1> QED BY <1>1, <1>2, <1>3, <1>4 DEF WorkerStep

LEMMA PoolTypeAdjuster == ASSUME PoolTypeOK, AdjusterStep PROVE PoolTypeOK'
<1>1. CASE Decide BY <1>1 DEF Decide, PoolTypeOK, workerVars
<1>2. CASE ScaleUp
  <2>1. cancels' \in Seq(Workers) /\ wstate' \in [Workers -> WStates]
    <3>1. CASE UNCHANGED <<wstate, cancels>> BY <3>1 DEF PoolTypeOK, WStates
    <3>2. ASSUME NEW w \in Workers, wstate' = [wstate EXCEPT ![w] = "idle"],
                 cancels' = Append(cancels, w)
          PROVE  cancels' \in Seq(Workers) /\ wstate' \in [Workers -> WStates]
      BY <3>2 DEF PoolTypeOK, WStates
    <3> QED BY <1>2, <3>1, <3>2 DEF ScaleUp
  <2> QED BY <1>2, <2>1 DEF ScaleUp, PoolTypeOK, WStates
<1>3. CASE ScaleDown
  <2>1. CASE cancels = <<>> BY <1>3, <2>1 DEF ScaleDown, PoolTypeOK
  <2>2. CASE cancels # <<>>
    <3>1. Len(cancels) \in Nat \ {0} /\ \A i \in 1..Len(cancels) : cancels[i] \in Workers
      BY <2>2 DEF PoolTypeOK
    <3>2. cancels[Len(cancels)] \in Workers BY <3>1
    <3>3. SubSeq(cancels, 1, Len(cancels) - 1) \in Seq(Workers)
      BY <3>1, SubSeqProperties
    <3> QED BY <1>3, <2>2, <3>2, <3>3 DEF ScaleDown, PoolTypeOK
  <2> QED BY <2>1, <2>2
<1>4. CASE CoolDown \/ AdjusterEnds
  BY <1>4 DEF CoolDown, AdjusterEnds, PoolTypeOK, workerVars
<1> QED BY <1>1, <1>2, <1>3, <1>4 DEF AdjusterStep

LEMMA PoolTypeOthers ==
  ASSUME PoolTypeOK, ClosePool \/ (\E k \in Configs : UpdateConfig(k)) \/ UNCHANGED poolVars
  PROVE  PoolTypeOK'
BY DEF ClosePool, UpdateConfig, PoolTypeOK, poolVars, workerVars

\* A pool alone is well typed: the channel never holds more than its capacity.
THEOREM PoolTypeCorrect == PoolSpec => []PoolTypeOK
<1>1. ASSUME PoolTypeOK, [PoolNext]_poolVars PROVE PoolTypeOK'
  BY <1>1, PoolTypeSubmitted, PoolTypeWorker, PoolTypeAdjuster, PoolTypeOthers
  DEF PoolNext, PoolStep
<1> QED BY <1>1, PoolTypeInit, PTL DEF PoolSpec

-----------------------------------------------------------------------------
\* The consumer

USE ConsumerAssumption

-----------------------------------------------------------------------------
\* What a step of the consumer does to the pool.

ChannelEmptied ==
  tasks' = <<>> /\ UNCHANGED <<workerVars, limits, closed, adjuster, cool>>

PoolUntouched == UNCHANGED poolVars

LEMMA StepsOfPool ==
  ASSUME [ConsumerNext]_allVars
  PROVE  \/ AdjusterStep
         \/ \E w \in Workers : WorkerStep(w)
         \/ \E e \in Events : Submitted(e) \/ SubmitRefused(e)
         \/ ClosePool \/ (\E k \in Configs : UpdateConfig(k))
         \/ newWorkerPool
         \/ ChannelEmptied \/ PoolUntouched
<1>1. ASSUME NEW p \in DebounceKeys, Publish(p) PROVE PoolUntouched BY <1>1 DEF Publish, PoolUntouched
<1>2. ASSUME NEW e \in Events, EventStep(e)
      PROVE  PoolUntouched \/ Submitted(e) \/ SubmitRefused(e)
  BY <1>2 DEF EventStep, Fire, ForgetTimer, FindPool, Submit, PoolUntouched
<1>3. ASSUME LoopStep PROVE PoolUntouched
  BY <1>3 DEF LoopStep, LoopEnds, Receive, Debounce, Ignore, PoolUntouched
<1>4. ASSUME StopStep
      PROVE  ClosePool \/ ChannelEmptied \/ PoolUntouched
  BY <1>4 DEF StopStep, StopTimers, StopPool, StopReturns, PoolUntouched,
     ChannelEmptied
<1>5. ASSUME UNCHANGED allVars PROVE PoolUntouched BY <1>5 DEF allVars, PoolUntouched
<1> QED BY <1>1, <1>2, <1>3, <1>4, <1>5 
  DEF ConsumerNext, Work, Adjust, Reconfigure, StopBegins, StartConsumer, PoolUntouched

LEMMA MaxKept == ASSUME MaxInv, [ConsumerNext]_allVars PROVE MaxInv'
<1>1. ASSUME NEW e \in Events, Submitted(e) \/ SubmitRefused(e) PROVE MaxInv'
  BY <1>1, MaxOthers DEF Submitted, SubmitRefused, MaxInv, workerVars, poolVars
<1>2. CASE ClosePool \/ ChannelEmptied \/ PoolUntouched
  BY <1>2, MaxOthers DEF ClosePool, ChannelEmptied, PoolUntouched, MaxInv, workerVars, poolVars
<1>3. ASSUME NEW k \in Configs, UpdateConfig(k) PROVE MaxInv'
  BY <1>3, MaxOthers DEF UpdateConfig, workerVars
<1>4. CASE AdjusterStep BY <1>4, MaxAdjuster
<1>5. ASSUME NEW w \in Workers, WorkerStep(w) PROVE MaxInv' BY <1>5, MaxWorker
<1>6. CASE newWorkerPool BY <1>6, MaxRenewed
<1> QED BY <1>1, <1>2, <1>3, <1>4, <1>5, <1>6, StepsOfPool

\* Through every Stop, Start, reconfiguration and burst of events, the pool never has
\* more workers than the largest maximum it was given (adjust in pool.go).
THEOREM MaxRespectedHolds == ConsumerSpec => []MaxRespected
<1>1. ConsumerInit => MaxInv BY MaxInit DEF ConsumerInit
<1>2. MaxInv => MaxRespected BY DEF MaxInv
<1> QED BY <1>1, <1>2, MaxKept, PTL DEF ConsumerSpec

-----------------------------------------------------------------------------
(***************************************************************************)
(* The invariant behind QuietWhenStopped and OnlyStopLoses: how far Stop   *)
(* has come tells what has ended.                                          *)
(***************************************************************************)
LifeInv ==
  /\ life \in {"running", "timers", "loop", "pool", "stopped"}
  /\ life \in {"pool", "stopped"} => loop = Ended
  /\ life = "stopped" => Live = {} /\ adjuster = "ended"
  /\ life \in {"running", "timers", "loop"} => ~closed

LEMMA LifeInit == ConsumerInit => LifeInv
BY DEF ConsumerInit, LifeInv, PoolInit

\* The loop moves only while it has not ended.
LEMMA LifeLoop == ASSUME LifeInv, LoopStep PROVE LifeInv'
<1>1. ASSUME NEW e \in Events, Receive(e) \/ Debounce(e) \/ Ignore(e) PROVE LifeInv'
  <2>1. loop # Ended BY <1>1 DEF Receive, Debounce, Ignore, Events, Ended
  <2> QED BY <1>1, <2>1 DEF LifeInv, Receive, Debounce, Ignore, Live, poolVars, workerVars
<1>2. CASE LoopEnds
  BY <1>2 DEF LoopEnds, LifeInv, Live, poolVars, workerVars
<1> QED BY <1>1, <1>2 DEF LoopStep

\* The pool moves only while it has not ended.
LEMMA LifePool ==
  ASSUME LifeInv, Adjust \/ (\E w \in Workers : Work(w)) \/ (\E k \in Configs : Reconfigure(k))
  PROVE  LifeInv'
<1>1. CASE Adjust
  <2>1. CASE life = "stopped"
    BY <1>1, <2>1 DEF Adjust, AdjusterStep, Decide, ScaleUp, ScaleDown, CoolDown,
       AdjusterEnds, LifeInv, Live, consumerVars, workerVars
  <2>2. CASE life # "stopped"
    BY <1>1, <2>2 DEF Adjust, AdjusterStep, Decide, ScaleUp, ScaleDown, CoolDown,
       AdjusterEnds, LifeInv, consumerVars
  <2> QED BY <2>1, <2>2
<1>2. ASSUME NEW w \in Workers, Work(w) PROVE LifeInv'
  <2>1. w \in Live
    BY <1>2 DEF Work, WorkerStep, Take, Executed, SeeStop, Leave, Live
  <2> QED BY <1>2, <2>1 DEF Work, WorkerStep, Take, Executed, SeeStop, Leave, LifeInv
<1>3. ASSUME NEW k \in Configs, Reconfigure(k) PROVE LifeInv'
  BY <1>3 DEF Reconfigure, UpdateConfig, LifeInv, Live, consumerVars, workerVars
<1> QED BY <1>1, <1>2, <1>3

LEMMA LifeStop == ASSUME LifeInv, StopBegins \/ StopStep \/ StartConsumer PROVE LifeInv'
<1>1. CASE StopBegins BY <1>1 DEF StopBegins, LifeInv, poolVars, workerVars
<1>2. CASE StopTimers BY <1>2 DEF StopTimers, LifeInv, poolVars, workerVars
<1>3. CASE StopPool BY <1>3 DEF StopPool, ClosePool, LifeInv, workerVars
<1>4. CASE StopReturns
  BY <1>4 DEF StopReturns, GoroutinesEnded, LifeInv, Live, workerVars
<1>5. CASE StartConsumer BY <1>5 DEF StartConsumer, newWorkerPool, LifeInv
<1> QED BY <1>1, <1>2, <1>3, <1>4, <1>5 DEF StopStep

LEMMA LifeEvents ==
  ASSUME LifeInv,
         \/ \E p \in DebounceKeys : Publish(p)
         \/ \E e \in Events : EventStep(e)
         \/ UNCHANGED allVars
  PROVE  LifeInv'
<1>1. UNCHANGED <<life, loop, wstate, adjuster, closed>>
  BY DEF Publish, EventStep, Fire, ForgetTimer, FindPool, Submit, Submitted, SubmitRefused,
     allVars, consumerVars, poolVars, workerVars
<1> QED BY <1>1 DEF LifeInv, Live

LEMMA LifeStep == ASSUME LifeInv, [ConsumerNext]_allVars PROVE LifeInv'
BY LifeLoop, LifePool, LifeStop, LifeEvents DEF ConsumerNext

\* When Stop has returned, no handler, no worker and no adjuster of the old pool runs
\* (stopInternal in consumer.go, Stop in pool.go).
THEOREM QuietWhenStoppedHolds == ConsumerSpec => []QuietWhenStopped
<1>1. LifeInv => QuietWhenStopped BY DEF LifeInv, QuietWhenStopped, Running, Live
<1> QED BY <1>1, LifeInit, LifeStep, PTL DEF ConsumerSpec

-----------------------------------------------------------------------------
\* Type correctness

OwnType ==
  /\ published \in 0..MaxEvents /\ stops \in 0..MaxStops
  /\ prOf \in [Events -> DebounceKeys] /\ fate \in [Events -> Fates]
  /\ timers \in [DebounceKeys -> Events \cup {NoTask}]
  /\ loop \in Events \cup {NoTask, Ended}
  /\ life \in {"running", "timers", "loop", "pool", "stopped"}

LEMMA TypeSplit == TypeOK <=> PoolTypeOK /\ OwnType
BY DEF TypeOK, OwnType

LEMMA PoolTypeKept == ASSUME PoolTypeOK, [ConsumerNext]_allVars PROVE PoolTypeOK'
<1>1. CASE AdjusterStep BY <1>1, PoolTypeAdjuster
<1>2. ASSUME NEW w \in Workers, WorkerStep(w) PROVE PoolTypeOK' BY <1>2, PoolTypeWorker
<1>3. ASSUME NEW e \in Events, Submitted(e) \/ SubmitRefused(e) PROVE PoolTypeOK'
  BY <1>3, PoolTypeSubmitted
<1>4. CASE ClosePool \/ PoolUntouched
  BY <1>4, PoolTypeOthers DEF PoolUntouched
<1>5. ASSUME NEW k \in Configs, UpdateConfig(k) PROVE PoolTypeOK' BY <1>5, PoolTypeOthers
<1>6. CASE newWorkerPool BY <1>6, PoolTypeRenewed
<1>7. CASE ChannelEmptied
  BY <1>7, EmptyChannel DEF ChannelEmptied, PoolTypeOK, workerVars
<1> QED BY <1>1, <1>2, <1>3, <1>4, <1>5, <1>6, <1>7, StepsOfPool

LEMMA FateType ==
  ASSUME OwnType, NEW e \in Events, NEW f \in Fates, Becomes(e, f)
  PROVE  fate' \in [Events -> Fates]
BY DEF OwnType, Becomes

LEMMA OwnEvents ==
  ASSUME OwnType, NEW e \in Events, EventStep(e) PROVE OwnType'
<1>1. CASE Fire(e) BY <1>1, FateType DEF Fire, OwnType, Fates
<1>2. CASE ForgetTimer(e)
  <2>1. timers' \in [DebounceKeys -> Events \cup {NoTask}] BY <1>2 DEF ForgetTimer, OwnType
  <2> QED BY <1>2, <2>1, FateType DEF ForgetTimer, OwnType, Fates
<1>3. CASE FindPool(e)
  <2>1. (IF life = "running" THEN "submitting" ELSE "lost") \in Fates BY DEF Fates
  <2> QED BY <1>3, <2>1, FateType DEF FindPool, OwnType
<1>4. CASE Submit(e)
  <2>1. fate' \in [Events -> Fates] BY <1>4, FateType DEF Submit, Fates
  <2> QED BY <1>4, <2>1 DEF Submit, OwnType
<1> QED BY <1>1, <1>2, <1>3, <1>4 DEF EventStep

LEMMA OwnPublish == ASSUME OwnType, NEW p \in DebounceKeys, Publish(p) PROVE OwnType'
<1>1. published + 1 \in Events BY DEF Publish, OwnType, Events
<1>2. fate' \in [Events -> Fates]
  BY <1>1, FateType DEF Publish, Fates
<1> QED BY <1>1, <1>2 DEF Publish, OwnType, Events

LEMMA OwnLoop == ASSUME OwnType, LoopStep PROVE OwnType'
<1>1. ASSUME NEW e \in Events, Receive(e) \/ Ignore(e) PROVE OwnType'
  <2>1. fate' \in [Events -> Fates] BY <1>1, FateType DEF Receive, Ignore, Fates
  <2> QED BY <1>1, <2>1 DEF Receive, Ignore, OwnType
<1>2. ASSUME NEW e \in Events, Debounce(e) PROVE OwnType'
  <2>1. fate' \in [Events -> Fates] BY <1>2 DEF Debounce, OwnType, Fates
  <2>2. timers' \in [DebounceKeys -> Events \cup {NoTask}] BY <1>2 DEF Debounce, OwnType
  <2> QED BY <1>2, <2>1, <2>2 DEF Debounce, OwnType
<1>3. CASE LoopEnds BY <1>3 DEF LoopEnds, OwnType, Fates
<1> QED BY <1>1, <1>2, <1>3 DEF LoopStep

LEMMA OwnStop == ASSUME OwnType, StopBegins \/ StopStep \/ StartConsumer PROVE OwnType'
<1>1. CASE StopBegins BY <1>1 DEF StopBegins, OwnType
<1>2. CASE StopTimers BY <1>2 DEF StopTimers, OwnType, Fates
<1>3. CASE StopPool BY <1>3 DEF StopPool, OwnType
<1>4. CASE StopReturns BY <1>4 DEF StopReturns, OwnType, Fates
<1>5. CASE StartConsumer BY <1>5 DEF StartConsumer, OwnType
<1> QED BY <1>1, <1>2, <1>3, <1>4, <1>5 DEF StopStep

LEMMA OwnPool ==
  ASSUME OwnType,
         \/ Adjust \/ (\E w \in Workers : Work(w))
         \/ (\E k \in Configs : Reconfigure(k)) \/ UNCHANGED allVars
  PROVE  OwnType'
<1>1. ASSUME NEW w \in Workers, Work(w) PROVE OwnType'
  BY <1>1 DEF Work, OwnType, Fates
<1>2. CASE Adjust \/ (\E k \in Configs : Reconfigure(k)) \/ UNCHANGED allVars
  BY <1>2 DEF Adjust, Reconfigure, allVars, consumerVars, OwnType
<1> QED BY <1>1, <1>2

LEMMA OwnInit == ConsumerInit => OwnType
BY DEF ConsumerInit, OwnType, Fates

\* The whole consumer is well typed, its pool's channel included: a Submit blocks and
\* never overfills it.
THEOREM TypeCorrect == ConsumerSpec => []TypeOK
<1>1. ConsumerInit => TypeOK BY OwnInit, PoolTypeInit, TypeSplit DEF ConsumerInit
<1>2. ASSUME OwnType, [ConsumerNext]_allVars PROVE OwnType'
  BY <1>2, OwnEvents, OwnPublish, OwnLoop, OwnStop, OwnPool DEF ConsumerNext
<1>3. ASSUME TypeOK, [ConsumerNext]_allVars PROVE TypeOK'
  BY <1>2, <1>3, PoolTypeKept, TypeSplit DEF TypeOK, OwnType
<1> QED BY <1>1, <1>3, PTL DEF ConsumerSpec

-----------------------------------------------------------------------------
\* Only Stop loses events

Keeps == \A e \in Events :
           fate'[e] = "lost" /\ fate[e] \notin {"lost", "unborn"} => life # "running"

LEMMA KeepsStep == ASSUME LifeInv, TypeOK, [ConsumerNext]_allVars PROVE Keeps
<1>1. ASSUME NEW p \in DebounceKeys, Publish(p) PROVE Keeps
  BY <1>1 DEF Publish, Becomes, Keeps, Events
<1>2. ASSUME NEW e \in Events, EventStep(e) PROVE Keeps
  <2>1. PICK f \in Fates : Becomes(e, f) /\ (f = "lost" => life # "running")
    BY <1>2 DEF EventStep, Fire, ForgetTimer, FindPool, Submit, SubmitRefused, LifeInv, Fates
  <2> QED BY <2>1 DEF Becomes, Keeps, TypeOK
<1>3. CASE LoopStep
  <2>1. CASE LoopEnds BY <2>1 DEF LoopEnds, Stopping, Keeps
  <2>2. ASSUME NEW e \in Events, Receive(e) \/ Ignore(e) PROVE Keeps
    <3>1. PICK f \in {"dispatching", "handled"} : Becomes(e, f)
      BY <2>2 DEF Receive, Ignore
    <3> QED BY <3>1 DEF Becomes, Keeps, TypeOK
  <2>3. ASSUME NEW e \in Events, Debounce(e) PROVE Keeps
    BY <2>3 DEF Debounce, Keeps
  <2> QED BY <1>3, <2>1, <2>2, <2>3 DEF LoopStep
<1>4. CASE StopBegins \/ StopStep \/ StartConsumer
  <2>1. CASE StopBegins BY <2>1 DEF StopBegins, Keeps
  <2>2. CASE StopTimers BY <2>2 DEF StopTimers, Keeps
  <2>3. CASE StopPool BY <2>3 DEF StopPool, Keeps
  <2>4. CASE StopReturns BY <2>4 DEF StopReturns, Keeps
  <2>5. CASE StartConsumer BY <2>5 DEF StartConsumer, Keeps
  <2> QED BY <1>4, <2>1, <2>2, <2>3, <2>4, <2>5 DEF StopStep
<1>5. ASSUME NEW w \in Workers, Work(w) PROVE Keeps
  BY <1>5 DEF Work, Keeps
<1>6. CASE Adjust \/ (\E k \in Configs : Reconfigure(k)) \/ UNCHANGED allVars
  BY <1>6 DEF Adjust, Reconfigure, allVars, consumerVars, Keeps
<1> QED BY <1>1, <1>2, <1>3, <1>4, <1>5, <1>6 DEF ConsumerNext

\* An event the loop received is lost only after a Stop has begun: no callback, no full
\* channel and no change of the pool loses one (debounce in consumer.go).
THEOREM OnlyStopLosesHolds == ConsumerSpec => OnlyStopLoses
<1>1. LifeInv /\ LifeInv' /\ TypeOK /\ [ConsumerNext]_allVars => [Keeps]_allVars BY KeepsStep
<1>2. ConsumerSpec => []LifeInv BY LifeInit, LifeStep, PTL DEF ConsumerSpec
<1> QED BY <1>1, <1>2, TypeCorrect, PTL DEF ConsumerSpec, OnlyStopLoses, Keeps
=============================================================================
