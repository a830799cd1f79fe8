----------------------------- MODULE Labelling -----------------------------
(***************************************************************************)
(* Labels: the rules that an opened pull request matches are applied one   *)
(* after the other (Labeler), commands add and remove labels, and people   *)
(* do so on the platform.  A client needs several calls for one label, and *)
(* others come in between.                                                 *)
(***************************************************************************)
EXTENDS Integers, Sequences, FiniteSets

CONSTANTS
  Forges,    \* kinds of platform that have labels; "gitea" is Forgejo and Codeberg too
  Labels,
  RuleBooks, \* the rules matched, of the group and of all: label, priority, exclusive
  Opened,    \* runs of HandlePROpened: the webhook's and the poller's events
  Commands,  \* AddLabel and RemoveLabel by handlers and bots
  Hands,     \* bound: what people do
  Breaks     \* bound: calls that fail

Rules == [label : Labels, priority : Int, exclusive : BOOLEAN]

ASSUME LabellingAssumption ==
  /\ Forges \subseteq {"github", "gitlab", "gitea"} /\ {Hands, Breaks} \subseteq Nat
  /\ Opened \cap Commands = {}
  /\ \A b \in RuleBooks : b.group \in Seq(Rules) /\ b.all \in Seq(Rules)

VARIABLES
  forge,
  order,    \* the rules matched, as they are sorted
  made,     \* labels the repository has
  on,       \* labels of the pull request
  task,      \* task[j]: where it is, the rules left, and the labels it has read (GitLab)
  hands, breaks,
  \* History: the labels as asked for, those a GitLab client has set back, the ones changed
  \* since task j read them, what rules have put on, and whether a call of theirs failed
  want, back, changed, put, hurt

labelVars == <<forge, order, made, on, task, hands, breaks, want, back, changed, put, hurt>>

Tasks == Opened \cup Commands
NoTask == [at |-> "idle", todo |-> <<>>, adds |-> TRUE, seen |-> {}]
Differ(S, U) == (S \ U) \cup (U \ S)

\* mergeRules, and sort.Slice by priority, which may put rules of equal priority in any order (it
\* keeps up to twelve as they were; what it does with more depends on nothing but the list).
MergeRules(b) == b.group \o b.all
Orders(b) == LET rules == MergeRules(b) IN
  {[n \in DOMAIN rules |-> rules[place[n]]] :
     place \in {f \in [DOMAIN rules -> DOMAIN rules] : \A m, n \in DOMAIN rules :
                  /\ m # n => f[m] # f[n]
                  /\ m < n => rules[f[m]].priority >= rules[f[n]].priority}}

Label(j) == Head(task[j].todo).label
Goes(j, at) == task' = [task EXCEPT ![j].at = at]

AfterRuleAnyway(j, done) ==
  LET left == Tail(task[j].todo) IN
  [task[j] EXCEPT !.at = IF left = <<>> THEN "done" ELSE "make", !.todo = left, !.seen = {}]

\* After a label: an exclusive rule ends the run only when its label has been put on.
AfterRule(j, done) ==
  LET left == IF done /\ Head(task[j].todo).exclusive THEN <<>> ELSE Tail(task[j].todo) IN
  [task[j] EXCEPT !.at = IF left = <<>> THEN "done" ELSE "make", !.todo = left, !.seen = {}]

\* Those of J that have read the labels have missed a change.
Missed(S, J) == [k \in Tasks |-> IF k \in J /\ forge = "gitlab" /\ task[k].at = "write" THEN changed[k] \cup S ELSE {}]

\* The labels of the pull request become S, of which j set one.
Set(j, S) ==
  /\ on' = S /\ changed' = Missed(Differ(on, S), Tasks \ {j})
  /\ want' = IF task[j].adds THEN want \cup {Label(j)} ELSE want \ {Label(j)}
  /\ back' = (IF forge = "gitlab" THEN back \cup changed[j] ELSE back) \ {Label(j)}
  /\ put' = IF j \in Opened THEN put \cup {Label(j)} ELSE put
  /\ task' = [task EXCEPT ![j] = AfterRule(j, TRUE)]
  /\ UNCHANGED <<forge, order, made, hands, breaks, hurt>>

\* The call was refused: labeler and handlers log it and go on.
Refused(j) ==
  /\ task' = [task EXCEPT ![j] = AfterRule(j, FALSE)] /\ hurt' = (hurt \/ j \in Opened)
  /\ UNCHANGED <<forge, order, made, on, hands, want, back, changed, put>>

Unmoved == UNCHANGED <<forge, order, on, hands, breaks, want, back, put, hurt>>

-----------------------------------------------------------------------------
HandlePROpened(j) ==
  /\ j \in Opened /\ task[j] = NoTask
  /\ task' = [task EXCEPT ![j].at = IF order = <<>> THEN "done" ELSE "make", ![j].todo = order]
  /\ UNCHANGED <<made, changed>> /\ Unmoved

Command(j) == \E l \in Labels, adds \in BOOLEAN :
  /\ j \in Commands /\ task[j] = NoTask
  /\ task' = [task EXCEPT ![j] = [NoTask EXCEPT !.at = "make", !.adds = adds,
                                             !.todo = <<[label |-> l, priority |-> 0, exclusive |-> FALSE]>>]]
  /\ UNCHANGED <<made, changed>> /\ Unmoved

\* The label must exist.  GitHub and GitLab are told to create it, and that it exists is no error;
\* Gitea's client looks whether it does, and creates it if not.
CreateLabel(j) ==
  /\ task[j].at = "make" /\ task[j].adds /\ forge # "gitea" /\ made' = made \cup {Label(j)}
  /\ Goes(j, IF forge = "gitlab" THEN "read" ELSE "write") /\ UNCHANGED changed /\ Unmoved
ListRepoLabels(j) ==
  /\ task[j].at = "make" /\ forge = "gitea"
  /\ \/ Label(j) \in made /\ Goes(j, "write") /\ UNCHANGED <<made, changed>> /\ Unmoved
     \/ Label(j) \notin made /\ task[j].adds /\ Goes(j, "create") /\ UNCHANGED <<made, changed>> /\ Unmoved
     \/ Label(j) \notin made /\ ~task[j].adds /\ Refused(j) /\ UNCHANGED breaks
CreateFound(j) ==
  /\ task[j].at = "create"
  /\ \/ Label(j) \notin made /\ made' = made \cup {Label(j)} /\ Goes(j, "write") /\ UNCHANGED changed /\ Unmoved
     \/ Label(j) \in made /\ Refused(j) /\ UNCHANGED breaks

\* GitLab's client reads all labels of the merge request and then sets them all.
GetMergeRequest(j) ==
  /\ forge = "gitlab" /\ task[j].at = (IF task[j].adds THEN "read" ELSE "make")
  /\ task' = [task EXCEPT ![j].at = "write", ![j].seen = on] /\ changed' = [changed EXCEPT ![j] = {}]
  /\ UNCHANGED made /\ Unmoved

WrittenAlone(j) == IF task[j].adds THEN {Label(j)} ELSE {}

Written(j) == IF task[j].adds THEN task[j].seen \cup {Label(j)} ELSE task[j].seen \ {Label(j)}
UpdateMergeRequest(j) == forge = "gitlab" /\ task[j].at = "write" /\ Set(j, Written(j))

\* The others set one label.  GitHub refuses to take off a label that is not on.
AddIssueLabel(j) == forge # "gitlab" /\ task[j].at = "write" /\ task[j].adds /\ Set(j, on \cup {Label(j)})
DeleteIssueLabel(j) ==
  /\ ~task[j].adds
  /\ \/ /\ task[j].at = (IF forge = "github" THEN "make" ELSE "write") /\ forge # "gitlab"
        /\ forge = "github" => Label(j) \in on
        /\ Set(j, on \ {Label(j)})
     \/ task[j].at = "make" /\ forge = "github" /\ Label(j) \notin on /\ Refused(j) /\ UNCHANGED breaks

CallBreaks(j) == task[j].at \notin {"idle", "done"} /\ breaks > 0 /\ breaks' = breaks - 1 /\ Refused(j)

\* People put a label on or take one off.
Relabel == \E l \in made :
  /\ hands > 0 /\ hands' = hands - 1
  /\ on' = (IF l \in on THEN on \ {l} ELSE on \cup {l}) /\ changed' = Missed({l}, Tasks)
  /\ want' = (IF l \in on THEN want \ {l} ELSE want \cup {l}) /\ back' = back \ {l}
  /\ UNCHANGED <<forge, order, made, task, breaks, put, hurt>>

LabelInit ==
  /\ forge \in Forges /\ (\E b \in RuleBooks : order \in Orders(b)) /\ made \in SUBSET Labels /\ on = {} /\ want = {} /\ back = {}
  /\ task = [j \in Tasks |-> NoTask] /\ hands = Hands /\ breaks = Breaks
  /\ changed = [j \in Tasks |-> {}] /\ put = {} /\ hurt = FALSE

LabelSteps(j) ==
  \/ HandlePROpened(j) \/ Command(j) \/ CreateLabel(j) \/ ListRepoLabels(j) \/ CreateFound(j)
  \/ GetMergeRequest(j) \/ UpdateMergeRequest(j) \/ AddIssueLabel(j) \/ DeleteIssueLabel(j) \/ CallBreaks(j)

LabelNext == Relabel \/ \E j \in Tasks : LabelSteps(j)

-----------------------------------------------------------------------------
\* A label is on or off as it was asked for last, by whomever, unless a GitLab client that had read
\* the labels before that has set them back.
LabelsAddUp == Differ(on, want) \subseteq back

\* Of the rules matched only those down to the first exclusive one put their labels on, and a run that
\* has ended has put on those, however the runs for one pull request interleave, unless a call failed
\* or was refused (Gitea refuses to create a label that another run has created since).
RulesApplied ==
  LET due == {order[i].label : i \in {k \in DOMAIN order : \A h \in 1..(k - 1) : ~order[h].exclusive}}
  IN ~hurt => /\ put \subseteq due
              /\ \A j \in Opened : task[j].at = "done" => put = due
=============================================================================
