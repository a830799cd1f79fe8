--------------------------- MODULE MergeDecision ---------------------------
(***************************************************************************)
(* The two judgements of daemon/queue/checker.go on a pull request:        *)
(* IsReadyToMerge, asked before it is queued, and ShouldMerge, asked by    *)
(* CheckQueue before it is merged, with the merge expressions of expr.go.  *)
(*                                                                         *)
(* Each is a sequence of gates that stops at the first one not passed.     *)
(* k is the configuration of the repo group, r the PR record and f what    *)
(* the platform answers.  An expression is a sequence of tokens, written   *)
(* with spaces around its operators; an atom is a comparison.              *)
(***************************************************************************)
EXTENDS Integers, Sequences, FiniteSets

CONSTANTS People, Labels

\* What ShouldMerge or IsReadyToMerge answers: yes, no, an error whose text
\* isTransientError knows, or another error.
Verdicts == {"yes", "no", "wait", "fail"}

\* "none": the PR has no commits; "unset": its last commit has no status, which the
\* platforms call none as well.
CIStates == {"none", "unset", "success", "failure", "pending"}
Calls    == {"approvals", "ci", "security", "files", "diff", "merge"}

\* What merge expressions are written with; the last comparison is an error.
Words       == {"(", ")", "NOT", "AND", "OR"}
Comparisons == {"approvals >= 2", "ci == success", "conflict", "core_approved >= 1",
                "author IN core_contributors", "sometimes"}
Tokens      == Words \cup Comparisons

Rule   == [approvers : SUBSET People, min : Nat]
Config == [required : Nat, ciRequired : BOOLEAN, core : SUBSET People,
           rules : SUBSET Rule, sizeBlocks : BOOLEAN, templateBlocks : BOOLEAN,
           exempt : SUBSET Labels, security : BOOLEAN,
           expr : Seq(Tokens)]
Record == [state : {"open", "closed", "merged"}, draft : BOOLEAN, conflict : BOOLEAN,
           labels : SUBSET Labels, author : People]
Facts  == [approvers : SUBSET People, writers : SUBSET People, ci : CIStates,
           alerts : BOOLEAN, big : BOOLEAN, described : BOOLEAN,
           touched : SUBSET Rule, rebases : BOOLEAN,
           fault : Calls \cup {"nothing"}, known : BOOLEAN]

-----------------------------------------------------------------------------
\* Merge expressions

\* The value of a comparison in context x: "true", "false" or "error".
Truth(b) == IF b THEN "true" ELSE "false"

AtomValue(a, x) ==
  CASE a = "approvals >= 2"     -> Truth(x.approvals >= 2)
    [] a = "ci == success"      -> Truth(x.ci = "success")
    [] a = "conflict"           -> Truth(x.conflict)
    [] a = "core_approved >= 1" -> Truth(x.core >= 1)
    \* resolve knows no variable core_contributors: it is a string, and IN is false.
    [] a = "author IN core_contributors" -> "false"
    [] OTHER                    -> "error"

Opened(e, i) == Cardinality({j \in 1..i : e[j] = "("})
                  - Cardinality({j \in 1..i : e[j] = ")"})

\* One pair of parentheses encloses the whole of e.
Wrapped(e) == /\ Len(e) > 1 /\ e[1] = "(" /\ e[Len(e)] = ")"
              /\ Opened(e, Len(e)) = 0
              /\ \A i \in 1..Len(e) - 1 : Opened(e, i) # 0

FirstAnyDepth(e, op) == {i \in 1..Len(e) : e[i] = op}
TopLevel(e, op) == {i \in 1..Len(e) : e[i] = op /\ Opened(e, i) = 0}
First(S)        == CHOOSE i \in S : \A j \in S : i <= j

Before(e, i) == SubSeq(e, 1, i - 1)
After(e, i)  == SubSeq(e, i + 1, Len(e))

Negated(v) == CASE v = "true" -> "false" [] v = "false" -> "true" [] OTHER -> v

\* evalExpr: split at the first OR, else at the first AND, outside parentheses.
Eval(expr, x) ==
  LET val[e \in Seq(Tokens)] ==
        IF Wrapped(e) THEN val[SubSeq(e, 2, Len(e) - 1)]
        ELSE IF TopLevel(e, "OR") # {} THEN
          LET i == First(TopLevel(e, "OR"))  l == val[Before(e, i)]
          IN IF l = "false" THEN val[After(e, i)] ELSE l
        ELSE IF TopLevel(e, "AND") # {} THEN
          LET i == First(TopLevel(e, "AND"))  l == val[Before(e, i)]
          IN IF l = "true" THEN val[After(e, i)] ELSE l
        ELSE IF Len(e) > 1 /\ e[1] = "NOT" THEN Negated(val[Tail(e)])
        ELSE IF Len(e) = 1 THEN AtomValue(e[1], x) ELSE "error"
  IN IF expr = <<>> THEN "true" ELSE val[expr]

-----------------------------------------------------------------------------
\* Gates

Gate(b) == IF b THEN "pass" ELSE "no"

\* A platform call that the gate needs may fail instead.
Call(f, c, g) == IF f.fault # c THEN g ELSE IF f.known THEN "wait" ELSE "fail"

\* The answer of a sequence of gates.
Stops(gates) == {i \in 1..Len(gates) : gates[i] # "pass"}
Answer(gates) == IF Stops(gates) = {} THEN "yes" ELSE gates[First(Stops(gates))]

\* filterWritePermission; an approver whose permission cannot be read is not counted.
AllApprovals(f) == f.approvers
Approvals(f)    == f.approvers \cap f.writers

\* checkCI: with no commits it is passed and has status "none".
Passed(f) == f.ci \in {"success", "none"}
CIAsks(k, f, g) == IF k.ciRequired THEN Call(f, "ci", g) ELSE "pass"

PathApproved(k, f) ==
  \A q \in k.rules \cap f.touched :
    Cardinality(q.approvers \cap Approvals(f)) >= (IF q.min = 0 THEN 1 ELSE q.min)
PathGate(k, f) == IF k.rules = {} THEN "pass" ELSE Call(f, "files", Gate(PathApproved(k, f)))

SizeGate(k, r, f) ==
  IF ~k.sizeBlocks THEN "pass"
  ELSE Call(f, "diff", Gate(r.labels \cap k.exempt # {} \/ ~f.big))
TemplateGate(k, r, f) ==
  Gate(~k.templateBlocks \/ r.labels \cap k.exempt # {} \/ f.described)
SecurityGate(k, f) == IF k.security THEN Call(f, "security", Gate(~f.alerts)) ELSE "pass"
CountGate(k, f) == Gate(Cardinality(Approvals(f)) >= k.required)

\* Drafts left to MarkDraft, which takes them out of the queue.
NoDraftGate(r) == "pass"
DraftGate(r)   == Gate(~r.draft)

CIText(ci) == IF ci = "unset" THEN "none" ELSE ci

Context(k, f, ci, conflict) ==
  [approvals |-> Cardinality(Approvals(f)), ci |-> ci, conflict |-> conflict,
   core |-> Cardinality(Approvals(f) \cap k.core)]

-----------------------------------------------------------------------------
\* IsReadyToMerge: every gate, then the expression, whose errors are a no.
IsReadyToMerge(k, r, f) ==
  Answer(<< Gate(r.state = "open" /\ ~r.draft), Gate(~r.conflict),
            Call(f, "approvals", CountGate(k, f)), PathGate(k, f),
            SizeGate(k, r, f), TemplateGate(k, r, f),
            CIAsks(k, f, Gate(Passed(f))), SecurityGate(k, f),
            Gate(Eval(k.expr, Context(k, f, "success", r.conflict)) = "true") >>)

\* The merge expression, which is given the CI status only if CI is required.
ByExpression(k, f) ==
  LET v == Eval(k.expr, Context(k, f, IF k.ciRequired THEN CIText(f.ci) ELSE "none", FALSE))
  IN IF v = "error" THEN "fail" ELSE IF v = "true" THEN "yes" ELSE "no"

ByDefault(k, r, f) ==
  Answer(<< CountGate(k, f), PathGate(k, f), SizeGate(k, r, f), TemplateGate(k, r, f),
            Gate(k.ciRequired => CIText(f.ci) \in {"none", "success"}) >>)

\* What comes before: a conflict may be rebased away, an expression excuses failed CI.
HardGates(k, r, f) ==
  Answer(<< DraftGate(r), Gate(~r.conflict \/ f.rebases), Call(f, "approvals", "pass"),
            CIAsks(k, f, Gate(Passed(f) \/ k.expr # <<>>)), SecurityGate(k, f) >>)

ShouldMerge(k, r, f) ==
  IF HardGates(k, r, f) # "yes" THEN HardGates(k, r, f)
  ELSE IF k.expr # <<>> THEN ByExpression(k, f) ELSE ByDefault(k, r, f)
=============================================================================
