------------------------------- MODULE Builds -------------------------------
(***************************************************************************)
(* CI: the commits of a pull request are listed, the status of one is      *)
(* asked for (checkCI), and the pull request is merged, while people push  *)
(* and runs start and end.  Each client makes one word of the runs that    *)
(* its platform has of a commit.                                           *)
(***************************************************************************)
EXTENDS Integers, Sequences, FiniteSets, Functions

CONSTANTS
  Servers,  \* kinds of platform; "gitea" is Forgejo and Codeberg too
  Pushes,   \* bound: commits of the pull request
  Runs      \* bound: runs of a commit

ASSUME BuildsAssumption ==
  /\ Servers \subseteq {"github", "gitlab", "gitea", "bitbucket", "gerrit"}
  /\ {Pushes, Runs} \subseteq Nat

VARIABLES
  server,
  runs,     \* runs[c]: of commit c, oldest first: statuses of contexts, pipelines, or votes
  judge,    \* checkCI and the merge: where they are, and the commit asked about (history: whether there
            \* were several commits, and whether the answer was in doubt)
  landed,   \* the commit that was the head when the pull request was merged, 0 before
  \* History since the listing: commits that have passed at some moment, and whether one was pushed
  passed, pushed

buildVars == <<server, runs, judge, landed, passed, pushed>>

\* stopped: canceled, or in error; odd: skipped, manual, paused, Gitea's warning
Outcomes == CASE server = "gerrit" -> {"passed", "failed"}
              [] server = "github" -> {"passed", "failed", "stopped"}
              [] OTHER             -> {"passed", "failed", "stopped", "odd"}
Nowhere == [at |-> "idle", sha |-> 0, many |-> FALSE, doubt |-> FALSE]

\* A commit passes when all its contexts do, or its newest pipeline.
Green(s, list) == list # <<>> /\ IF s \in {"gitlab", "bitbucket"} THEN list[Len(list)] = "passed"
                                 ELSE Range(list) = {"passed"}
Greens == {c \in DOMAIN runs : Green(server, runs[c])}
GreensThen == passed' = IF judge.at = "idle" THEN passed ELSE passed \cup {c \in DOMAIN runs' : Green(server, runs'[c])}

Push ==
  /\ landed = 0 /\ Len(runs) < Pushes /\ runs' = Append(runs, <<>>) /\ pushed' = TRUE
  /\ UNCHANGED <<server, judge, landed, passed>>

\* A run starts, starts again, or ends.
Build == \E c \in DOMAIN runs :
  /\ landed = 0
  /\ \/ Len(runs[c]) < Runs /\ runs' = [runs EXCEPT ![c] = Append(@, "running")]
     \/ \E i \in DOMAIN runs[c], o \in Outcomes :
          runs' = [runs EXCEPT ![c][i] = IF @ = "running" THEN o ELSE "running"]
  /\ GreensThen /\ UNCHANGED <<server, judge, landed, pushed>>

-----------------------------------------------------------------------------
\* GetPRCommits.  GitHub lists the oldest first, GitLab and Bitbucket the newest; Gitea's client
\* takes the head alone, Gerrit's the current revision.
Listing == CASE server = "github"                -> [i \in 1..Len(runs) |-> i]
             [] server \in {"gitlab", "bitbucket"} -> [i \in 1..Len(runs) |-> Len(runs) + 1 - i]
             [] OTHER                              -> <<Len(runs)>>

FirstOf(commits) == commits[1]

\* checkCI takes the last one for the newest.
LastOf(commits) == commits[Len(commits)]

GetPRCommits ==
  /\ judge = Nowhere /\ landed = 0
  /\ judge' = [at |-> "status", sha |-> LastOf(Listing), many |-> Len(runs) > 1, doubt |-> FALSE]
  /\ passed' = Greens /\ pushed' = FALSE /\ UNCHANGED <<server, runs, landed>>

\* GetCIStatus of the clients
Combined(list) ==
  IF Range(list) \cap {"failed", "stopped"} # {} \/ (server = "gitea" /\ "odd" \in Range(list)) THEN "failure"
  ELSE IF list = <<>> THEN IF server = "github" THEN "pending" ELSE "none"
  ELSE IF "running" \in Range(list) THEN "pending" ELSE "success"
NewestPipeline(list) ==
  IF list = <<>> THEN "none"
  ELSE CASE list[Len(list)] = "passed"  -> "success"
         [] list[Len(list)] = "running" -> "pending"
         [] list[Len(list)] = "odd"     -> "none"
         [] OTHER                       -> "failure"
\* Bitbucket: the newest in a state the client knows; whatever is complete and has not failed is a success.
KnownPipeline(list) ==
  LET known == {i \in DOMAIN list : list[i] # "odd"} IN
  IF known = {} THEN "none"
  ELSE LET i == CHOOSE k \in known : \A h \in known : h <= k IN
       CASE list[i] = "running" -> "pending" [] list[i] = "failed" -> "failure" [] OTHER -> "success"
\* Gerrit names one account that has approved and one that has rejected, and approval is looked at first.
Verified(list) ==
  IF "passed" \in Range(list) THEN "success" ELSE IF "failed" \in Range(list) THEN "failure" ELSE "unknown"

Status(c) == CASE server \in {"github", "gitea"} -> Combined(runs[c])
               [] server = "gitlab"              -> NewestPipeline(runs[c])
               [] server = "bitbucket"           -> KnownPipeline(runs[c])
               [] server = "gerrit"              -> Verified(runs[Len(runs)])   \* the votes are the change's

\* Bitbucket's pipeline was stopped or paused, Gerrit's voters disagree or have not all voted.
Doubt(c) == \/ server = "bitbucket" /\ Range(runs[c]) \cap {"stopped", "odd"} # {}
            \/ server = "gerrit" /\ Range(runs[Len(runs)]) # {"passed"}

\* Unless it is a success the pull request waits, and so it does when a call fails.
GetCIStatus ==
  /\ judge.at = "status"
  /\ judge' = IF Status(judge.sha) = "success" THEN [judge EXCEPT !.at = "merge", !.doubt = Doubt(judge.sha)] ELSE Nowhere
  /\ UNCHANGED <<server, runs, landed, passed, pushed>>
AskFails == judge.at \notin {"idle", "done"} /\ judge' = Nowhere /\ UNCHANGED <<server, runs, landed, passed, pushed>>

\* MergePR names no commit: what is the head then is merged.
MergeHead ==
  /\ judge.at = "merge" /\ landed' = Len(runs) /\ judge' = [judge EXCEPT !.at = "done"]
  /\ UNCHANGED <<server, runs, passed, pushed>>

BuildInit ==
  /\ server \in Servers /\ runs = <<<<>>>> /\ judge = Nowhere /\ landed = 0 /\ passed = {} /\ pushed = FALSE
BuildNext == Push \/ Build \/ GetPRCommits \/ GetCIStatus \/ AskFails \/ MergeHead

-----------------------------------------------------------------------------
\* With CI required the commit merged has passed at some moment between the listing and the merge,
\* unless it was pushed in between, or the platform lists the newest of several commits first, or
\* the answer of Bitbucket or Gerrit was in doubt.
LandedPassed ==
  landed # 0 => \/ landed \in passed \/ pushed \/ judge.doubt
                \/ server \in {"gitlab", "bitbucket"} /\ judge.many
=============================================================================
