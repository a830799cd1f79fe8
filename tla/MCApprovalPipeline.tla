------------------------- MODULE MCApprovalPipeline -------------------------
(***************************************************************************)
(* Instances of ApprovalPipeline for TLC, and merge expressions with their *)
(* meaning.                                                                *)
(***************************************************************************)
EXTENDS ApprovalPipeline

CONSTANTS ann, bob, eve, urgent, alpha, beta

\* The groups of the PRs: one group, or two that have a PR each.
AllInAlpha == [p \in PRs |-> alpha]
OneInEach  == [p \in PRs |-> IF p = 1 THEN alpha ELSE beta]

OwnerRule == [approvers |-> {ann}, min |-> 0]

Plain == [required |-> 1, ciRequired |-> TRUE, core |-> {bob}, rules |-> {},
          sizeBlocks |-> FALSE, templateBlocks |-> FALSE, exempt |-> {},
          security |-> FALSE, expr |-> <<>>]
Strict == [Plain EXCEPT !.required = 2, !.rules = {OwnerRule}, !.security = TRUE,
                        !.sizeBlocks = TRUE, !.templateBlocks = TRUE]
Lax    == [Plain EXCEPT !.required = 0, !.ciRequired = FALSE]
Exempt == [Plain EXCEPT !.sizeBlocks = TRUE, !.exempt = {urgent}, !.ciRequired = FALSE]
ByExpr(k, e) == [k EXCEPT !.expr = e]

TheExample == <<"approvals >= 2", "AND", "ci == success", "AND", "NOT", "conflict">>
TheCoreExample == <<"core_approved >= 1", "OR", "author IN core_contributors">>

EveryConfig == {Plain, Strict, Lax, Exempt, ByExpr(Plain, TheExample),
                ByExpr(Lax, TheExample), ByExpr(Plain, TheCoreExample),
                ByExpr(Strict, <<"sometimes", "AND", "conflict">>)}
PlainConfig == {Plain}

Opening == [state |-> "open", draft |-> FALSE, conflict |-> FALSE,
            labels |-> {urgent}, author |-> eve]

\* eve approves without the right to write.
Base == [approvers |-> {}, writers |-> {ann, bob}, ci |-> "success", alerts |-> FALSE,
         big |-> FALSE, described |-> TRUE, touched |-> {OwnerRule}, rebases |-> FALSE,
         fault |-> "nothing", known |-> FALSE]
Reviewed == [Base EXCEPT !.approvers = {ann, bob}]
TwoFacts == {Base, Reviewed}

SomeFacts ==
  {Base, Reviewed,
   [Base EXCEPT !.approvers = {eve}], [Base EXCEPT !.approvers = {bob, eve}],
   [Reviewed EXCEPT !.touched = {}], [Reviewed EXCEPT !.approvers = {bob}],
   [Reviewed EXCEPT !.rebases = TRUE], [Reviewed EXCEPT !.alerts = TRUE],
   [Reviewed EXCEPT !.big = TRUE], [Reviewed EXCEPT !.described = FALSE]}
    \cup {[Reviewed EXCEPT !.ci = c] : c \in CIStates}
    \cup {[Reviewed EXCEPT !.fault = c, !.known = b] : c \in Calls, b \in BOOLEAN}

\* Enough for a PR to lose and regain the consent of every gate.
LaterFacts ==
  {Reviewed, [Reviewed EXCEPT !.approvers = {bob, eve}], [Reviewed EXCEPT !.ci = "failure"],
   [Reviewed EXCEPT !.alerts = TRUE], [Reviewed EXCEPT !.touched = {}, !.rebases = TRUE],
   [Reviewed EXCEPT !.fault = "merge"], [Reviewed EXCEPT !.fault = "ci", !.known = TRUE],
   [Reviewed EXCEPT !.fault = "approvals"]}

-----------------------------------------------------------------------------
\* Expressions with their meaning in context x: NOT binds tightest, then AND, then OR.
Form(text, means) == [text |-> text, means |-> means]

Atoms(x) == {Form(<<"approvals >= 2">>, x.approvals >= 2),
             Form(<<"ci == success">>, x.ci = "success")}
Nots(S)  == {Form(<<"NOT">> \o p.text, ~p.means) : p \in S}
Parens(S) == {Form(<<"(">> \o p.text \o <<")">>, p.means) : p \in S}
Both(p, q)   == Form(p.text \o <<"AND">> \o q.text, p.means /\ q.means)
Either(p, q) == Form(p.text \o <<"OR">> \o q.text, p.means \/ q.means)
Ands(S, T)   == {Both(p, q) : p \in S, q \in T}
Ors(S, T)    == {Either(p, q) : p \in S, q \in T}

Written(x) ==
  LET units == Atoms(x) \cup Nots(Atoms(x))
      flat  == units \cup Ands(units, units) \cup Ors(units, units)
                 \cup Ors(Ands(units, Atoms(x)), units) \cup Ors(units, Ands(units, Atoms(x)))
      deep  == Parens(flat)
  IN flat \cup deep \cup Nots(deep) \cup Ands(deep, units) \cup Ors(units, deep)
       \cup Ands(Parens(units), Parens(Ors(units, Atoms(x))))

\* Eval gives every written expression its meaning: split at the operator of least
\* precedence outside parentheses, two pairs of which may begin and end the text.
\* It depends on the facts only, so that the first states of one configuration do.
ExprMeaning ==
  changes = MaxChanges /\ cfg = Plain =>
    \A p \in PRs :
      LET x == Context(cfg, facts[p], facts[p].ci, rec[p].conflict)
      IN \A e \in Written(x) : Eval(e.text, x) = Truth(e.means)
=============================================================================
