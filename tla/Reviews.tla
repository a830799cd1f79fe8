------------------------------ MODULE Reviews ------------------------------
(***************************************************************************)
(* GetApprovals of the platform clients: who approves a pull request and   *)
(* who blocks it, put together from several calls while people go on       *)
(* reviewing.  GitHub and Gitea list every review ever submitted, page by  *)
(* page; GitLab, Bitbucket and Gerrit tell how people stand now.           *)
(***************************************************************************)
EXTENDS Integers, Sequences, FiniteSets, FiniteSetsExt

CONSTANTS
  Hosts,      \* kinds of platform; "gitea" is Forgejo and Codeberg too
  People,
  Page,       \* reviews a client asks for at once (100)
  Caps,       \* what a Gitea server gives at once, at most Page
  Submitted,  \* bound: reviews
  Turns       \* bound: what else people do

ASSUME ReviewsAssumption ==
  /\ Hosts \subseteq {"github", "gitlab", "gitea", "bitbucket", "gerrit"}
  /\ Page \in Nat \ {0} /\ Caps \subseteq 1..Page /\ {Submitted, Turns} \subseteq Nat

VARIABLES
  host, cap,
  reviews,   \* oldest first: who, what it says, and whether it has been dismissed
  asked,     \* GitHub: who is asked for a review
  assigned,
  turns,
  call,      \* the call to GetApprovals
  \* History: how each person stood during the call, who the client left out because assigned, and
  \* who GitHub waited for during the call, until a review of theirs came or was dismissed
  stood, out, late

reviewVars == <<host, cap, reviews, asked, assigned, turns, call, stood, out, late>>

\* What a person can say; "withdrawn" takes a vote back, "again" is Gitea's entry for a review asked for.
Says == CASE host = "github"    -> {"approve", "block", "comment"}
          [] host = "gitea"     -> {"approve", "block", "comment", "again"}
          [] host = "gitlab"    -> {"approve", "withdrawn"}
          [] host = "bitbucket" -> {"approve", "block", "withdrawn"}
          [] host = "gerrit"    -> {"approve", "recommend", "dislike", "block", "withdrawn"}

Stands(list, p) == {i \in DOMAIN list : list[i].who = p /\ list[i].says # "comment"}

\* How a person stands by the last review that takes a stand, unless dismissed or asked for again
Stance(list, waited, p) ==
  LET mine == Stands(list, p)   last == list[Max(mine)] IN
  IF mine = {} \/ p \in waited \/ last.dismissed THEN "none"
  ELSE CASE last.says \in {"approve", "recommend"} -> "approve"
         [] last.says \in {"block", "dislike"}     -> "block"
         [] OTHER                                  -> "none"

NoCall == [at |-> "idle", page |-> 1, yes |-> {}, no |-> {}, cut |-> FALSE, blind |-> FALSE]

\* People act on the platform until the answer is there; what they say during the call is noted.
Notes == call.at # "done" /\ stood' = IF call.at = "idle" THEN stood
                  ELSE [p \in People |-> stood[p] \cup {Stance(reviews', asked', p)}]

Submit == \E p \in People, s \in Says :
  /\ Len(reviews) < Submitted
  /\ reviews' = Append(reviews, [who |-> p, says |-> s, dismissed |-> FALSE])
  /\ asked' = IF s = "comment" THEN asked ELSE asked \ {p}
  /\ late' = IF call.at = "pr" /\ p \in asked THEN late \cup {p} ELSE late
  /\ Notes /\ UNCHANGED <<host, cap, assigned, turns, call, out>>

Turn == turns > 0 /\ turns' = turns - 1

Dismiss == \E i \in 1..Len(reviews) :
  /\ host \in {"github", "gitea"} /\ ~reviews[i].dismissed /\ reviews[i].says \in {"approve", "block"}
  /\ Turn /\ reviews' = [reviews EXCEPT ![i].dismissed = TRUE]
  /\ late' = IF call.at \in {"list", "pr"} THEN late \cup ({reviews[i].who} \cap asked) ELSE late
  /\ UNCHANGED asked /\ Notes /\ UNCHANGED <<host, cap, assigned, call, out>>

AskReview == \E p \in People :
  /\ host = "github" /\ Turn /\ asked' = IF p \in asked THEN asked \ {p} ELSE asked \cup {p}
  /\ UNCHANGED reviews /\ Notes /\ UNCHANGED <<host, cap, assigned, call, out, late>>

Assign == \E p \in People :
  /\ host \in {"gitlab", "gitea"} /\ call.at # "done" /\ Turn /\ assigned' = assigned \cup {p}
  /\ UNCHANGED <<host, cap, reviews, asked, call, stood, out, late>>

-----------------------------------------------------------------------------
GetApprovals ==
  /\ call.at = "idle" /\ call' = [NoCall EXCEPT !.at = "list"]
  /\ stood' = [p \in People |-> {Stance(reviews, asked, p)}] /\ late' = {}
  /\ UNCHANGED <<host, cap, reviews, asked, assigned, turns, out>>

\* Variants, which the properties tell from the code
ReplayedDeaf(c, r) ==
  CASE r.says = "approve" -> [c EXCEPT !.yes = @ \cup {r.who}, !.no = @ \ {r.who}]
    [] r.says = "block"   -> [c EXCEPT !.yes = @ \ {r.who}, !.no = @ \cup {r.who}]
    [] OTHER -> c

\* A review replayed over the earlier ones.  GitHub gives a dismissed review the state DISMISSED,
\* Gitea a flag that the client does not look at.
Replayed(c, r) ==
  LET says == IF host = "github" /\ r.dismissed THEN "again" ELSE r.says IN
  CASE says = "again"   -> [c EXCEPT !.yes = @ \ {r.who}, !.no = @ \ {r.who}]
    [] says = "approve" -> [c EXCEPT !.yes = @ \cup {r.who}, !.no = @ \ {r.who}]
    [] says = "block"   -> [c EXCEPT !.yes = @ \ {r.who}, !.no = @ \cup {r.who}]
    [] OTHER -> c

\* The reviews after place from, down to place upto.
Replay(c, from, upto) ==
  LET read[i \in from..upto] == IF i = from THEN c ELSE Replayed(read[i - 1], reviews[i]) IN read[upto]

\* GitHub tells whether there is a next page; the Gitea client asks for one after a page it
\* takes for full.
Reading == call.at = "list" /\ UNCHANGED <<host, cap, reviews, asked, assigned, stood, out, late>>
ListReviews ==
  /\ Reading /\ UNCHANGED turns /\ host \in {"github", "gitea"}
  /\ LET size == IF host = "gitea" THEN cap ELSE Page
         last == size * call.page
         upto == IF last < Len(reviews) THEN last ELSE Len(reviews)
         more == IF host = "gitea" THEN upto - (last - size) = Page ELSE last < Len(reviews)
         read == Replay(call, last - size, upto)
     IN call' = IF more THEN [read EXCEPT !.page = @ + 1]
                ELSE [read EXCEPT !.at = "pr", !.cut = last < Len(reviews)]

Standing(stance) == {p \in People : Stance(reviews, {}, p) = stance}

\* GitLab and Bitbucket say who approves and, through these clients, nothing of who does not.
ListApprovers ==
  /\ Reading /\ UNCHANGED turns /\ host \in {"gitlab", "bitbucket"}
  /\ call' = [call EXCEPT !.yes = Standing("approve"), !.at = IF host = "gitlab" THEN "pr" ELSE "done"]

\* Gerrit names one account for each of the four votes.
LastVote(p, v) == Stands(reviews, p) # {} /\ reviews[Max(Stands(reviews, p))].says = v
Named(v, S) == LET voters == {p \in People : LastVote(p, v)} IN
  IF voters = {} THEN S = {} ELSE \E p \in voters : S = {p}
SomeOf == {{}} \cup {{p} : p \in People}
ReadVotes ==
  /\ Reading /\ UNCHANGED turns /\ host = "gerrit"
  /\ \E a, r, d, b \in SomeOf :
       /\ Named("approve", a) /\ Named("recommend", r) /\ Named("dislike", d) /\ Named("block", b)
       /\ call' = [call EXCEPT !.yes = a \cup r, !.no = d \cup b, !.at = "done"]

\* Then the pull request is read, and who is asked (GitHub) or assigned (GitLab, Gitea) left out.
\* If it cannot be read nobody is.
GetPullRequest ==
  /\ call.at = "pr"
  /\ LET gone == IF host = "github" THEN asked ELSE assigned IN
       \/ /\ call' = [call EXCEPT !.at = "done", !.yes = @ \ gone, !.no = @ \ gone]
          /\ out' = IF host = "github" THEN {} ELSE gone
       \/ call' = [call EXCEPT !.at = "done", !.blind = TRUE] /\ UNCHANGED out
  /\ UNCHANGED <<host, cap, reviews, asked, assigned, turns, stood, late>>

\* A list that cannot be read is an error, which fetchApprovals may try again.
ListFails == Reading /\ Turn /\ call' = NoCall

ReviewsInit ==
  /\ host \in Hosts /\ cap \in (IF host = "gitea" THEN Caps ELSE {Page})
  /\ reviews = <<>> /\ asked = {} /\ assigned = {} /\ turns = Turns /\ call = NoCall
  /\ stood = [p \in People |-> {"none"}] /\ out = {} /\ late = {}

ReviewsNext == \/ Submit \/ Dismiss \/ AskReview \/ Assign
               \/ GetApprovals \/ ListReviews \/ ListApprovers \/ ReadVotes \/ GetPullRequest \/ ListFails

-----------------------------------------------------------------------------
\* What the answer may get wrong: Gitea's reviews that were dismissed or beyond a page the server
\* cut short; whom GitHub waited for when the reviews were listed, if the second call fails, or the
\* review comes in between, or the former review was dismissed in between; votes of one kind on Gerrit.
Excused(p) ==
  \/ host = "gitea" /\ (call.cut \/ \E i \in 1..Len(reviews) : reviews[i].who = p /\ reviews[i].dismissed)
  \/ host = "github" /\ (call.blind \/ p \in late)
Shadowed(p) == host = "gerrit" /\ \E q \in People \ {p}, v \in Says \ {"withdrawn"} : LastVote(p, v) /\ LastVote(q, v)

\* Whoever is reported as approving or blocking stood so at some moment of the call, and who stood
\* so all through it is reported, unless excused or assigned (and blockers where none are told).
StanceHeld == call.at = "done" =>
  \A p \in People :
    /\ p \in call.yes => "approve" \in stood[p] \/ Excused(p)
    /\ p \in call.no  => "block" \in stood[p] \/ Excused(p)
    /\ stood[p] = {"approve"} => p \in call.yes \cup out \/ Excused(p) \/ Shadowed(p)
    /\ stood[p] = {"block"}   => p \in call.no \cup out \/ Excused(p) \/ Shadowed(p)
                                 \/ host \in {"gitlab", "bitbucket"}
=============================================================================
