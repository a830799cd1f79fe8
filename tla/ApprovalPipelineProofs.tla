----------------------- MODULE ApprovalPipelineProofs -----------------------
(***************************************************************************)
(* Proofs about ApprovalPipeline for any people, labels, configurations    *)
(* and platform answers, and about the merge expressions of any length.    *)
(* The first part leaves open what an expression evaluates to: nothing     *)
(* there depends on it.                                                    *)
(***************************************************************************)
EXTENDS MCApprovalPipeline, TLAPS, FiniteSetTheorems, SequenceTheorems, WellFoundedInduction

GateValues == {"pass", "no", "wait", "fail"}

\* The first member of a set of gate positions is one of them.
LEMMA FirstIsMember ==
  ASSUME NEW S, S \subseteq 1..9, S # {}
  PROVE  First(S) \in S
<1>1. \E i \in S : \A j \in S : i <= j
  <2>1. 1 \in S \/ 2 \in S \/ 3 \in S \/ 4 \in S \/ 5 \in S \/ 6 \in S \/ 7 \in S
          \/ 8 \in S \/ 9 \in S
    <3>1. PICK x \in S : TRUE
      OBVIOUS
    <3>2. x \in 1..9
      BY <3>1
    <3>3. x = 1 \/ x = 2 \/ x = 3 \/ x = 4 \/ x = 5 \/ x = 6 \/ x = 7 \/ x = 8 \/ x = 9
      BY <3>2
    <3> QED BY <3>1, <3>3
  <2>2. \A j \in S : j \in 1..9
    OBVIOUS
  <2> QED BY <2>1, <2>2, SMTT(30)
<1> QED BY <1>1 DEF First

\* A sequence of gates is answered yes exactly if each of them is passed.
LEMMA AnswerYes ==
  ASSUME NEW gates \in Seq(GateValues), Len(gates) <= 9
  PROVE  Answer(gates) = "yes" <=> \A i \in 1..Len(gates) : gates[i] = "pass"
<1>1. CASE Stops(gates) = {}
  BY <1>1 DEF Answer, Stops
<1>2. CASE Stops(gates) # {}
  <2>1. Stops(gates) \subseteq 1..9
    BY DEF Stops
  <2>2. First(Stops(gates)) \in Stops(gates)
    BY <1>2, <2>1, FirstIsMember
  <2>3. /\ First(Stops(gates)) \in 1..Len(gates)
        /\ gates[First(Stops(gates))] # "pass"
    BY <2>2 DEF Stops
  <2>4. gates[First(Stops(gates))] # "yes"
    BY <2>3 DEF GateValues
  <2> QED BY <1>2, <2>3, <2>4 DEF Answer
<1> QED BY <1>1, <1>2

\* Gates and calls answer with gate values; a call that must succeed has no fault.
LEMMA GateFacts ==
  /\ \A b \in BOOLEAN : Gate(b) \in GateValues /\ (Gate(b) = "pass" <=> b)
  /\ \A f, c : \A g \in GateValues :
       /\ Call(f, c, g) \in GateValues
       /\ Call(f, c, g) = "pass" <=> (f.fault # c /\ g = "pass")
BY DEF Gate, Call, GateValues

\* Every gate of the two tests has a gate value.
LEMMA GatesTyped ==
  ASSUME NEW k \in Config, NEW r \in Record, NEW f \in Facts
  PROVE  /\ CountGate(k, f) \in GateValues /\ PathGate(k, f) \in GateValues
         /\ SizeGate(k, r, f) \in GateValues /\ TemplateGate(k, r, f) \in GateValues
         /\ \A g \in GateValues : CIAsks(k, f, g) \in GateValues
         /\ CIAsks(k, f, Gate(Passed(f))) \in GateValues
         /\ SecurityGate(k, f) \in GateValues /\ DraftGate(r) \in GateValues
<1>2. \A b : Gate(b) \in GateValues
  BY DEF Gate, GateValues
<1>3. "pass" \in GateValues
  BY DEF GateValues
<1>4. PathGate(k, f) \in GateValues
  BY <1>2, <1>3, GateFacts DEF PathGate
<1>5. SizeGate(k, r, f) \in GateValues
  BY <1>2, <1>3, GateFacts DEF SizeGate
<1>6. \A g \in GateValues : CIAsks(k, f, g) \in GateValues
  BY <1>3, GateFacts DEF CIAsks
<1>7. SecurityGate(k, f) \in GateValues
  BY <1>2, <1>3, GateFacts DEF SecurityGate
<1>8. CountGate(k, f) \in GateValues /\ TemplateGate(k, r, f) \in GateValues
        /\ DraftGate(r) \in GateValues
  BY <1>2 DEF CountGate, TemplateGate, DraftGate
<1> QED BY <1>2, <1>4, <1>5, <1>6, <1>7, <1>8

-----------------------------------------------------------------------------
\* What CheckQueue, AddToQueue and the server do to an item keeps the items well typed:
\* an item fails only while it has retries left.
LEMMA ItemSteps ==
  ASSUME ItemsOK, NEW k \in Keys,
         \/ UNCHANGED queue
         \/ Queued(k)
         \/ Removed(k)
         \/ Becomes(k, "merging") /\ UNCHANGED tries /\ item[k] # "dead-letter" /\ ~Exhausted(k)
         \/ Becomes(k, "waiting") /\ UNCHANGED tries /\ item[k] # "dead-letter" /\ ~Exhausted(k)
         \/ Becomes(k, "dead-letter") /\ UNCHANGED tries
         \/ Failed(k) /\ item[k] # "dead-letter" /\ ~Exhausted(k)
  PROVE  ItemsOK'
<1> USE PipelineAssumption
<1>1. tries[k] \in 0..MaxRetryCount /\ item[k] \in ItemStates /\ 0 \in 0..MaxRetryCount
  BY DEF ItemsOK
<1>2. item[k] # "dead-letter" /\ ~Exhausted(k) => tries[k] < MaxRetryCount
  BY <1>1 DEF ItemsOK, Exhausted, ItemStates
<1>3. CASE UNCHANGED queue
  BY <1>3 DEF ItemsOK, queue
<1>4. CASE Removed(k) \/ (Queued(k) /\ item[k] = "none")
  BY <1>1, <1>4 DEF ItemsOK, ItemStates, Removed, Queued, Becomes
<1>5. CASE /\ Becomes(k, "merging") \/ Becomes(k, "waiting")
           /\ UNCHANGED tries /\ item[k] # "dead-letter" /\ ~Exhausted(k)
  BY <1>2, <1>5 DEF ItemsOK, ItemStates, Becomes
<1>6. CASE Becomes(k, "dead-letter") /\ UNCHANGED tries
  BY <1>6 DEF ItemsOK, ItemStates, Becomes
<1>7. CASE Failed(k) /\ item[k] # "dead-letter" /\ ~Exhausted(k)
  <2>1. tries[k] + 1 \in 0..MaxRetryCount
    BY <1>1, <1>2, <1>7
  <2> QED BY <2>1, <1>7 DEF ItemsOK, ItemStates, Failed, Becomes
<1> QED BY <1>3, <1>4, <1>5, <1>6, <1>7 DEF Queued

\* The type invariant: RetryCount stays within maxRetryCount although a failed item is
\* judged again and again, since CheckQueue looks at it before it judges.
THEOREM PipelineTypes == Spec => []TypeOK
<1>1. Init => TypeOK
  <2> SUFFICES ASSUME Init PROVE TypeOK
    OBVIOUS
  <2>1. cfg \in Config /\ rec \in [PRs -> Record] /\ facts \in [PRs -> Facts]
    BY PipelineAssumption DEF Init
  <2>2. 0 \in 0..MaxRetryCount /\ 0 < MaxRetryCount /\ MaxChanges \in 0..MaxChanges
    BY PipelineAssumption
  <2>3. ItemsOK
    BY <2>2 DEF Init, ItemsOK, ItemStates
  <2> QED BY <2>1, <2>2, <2>3 DEF Init, TypeOK
<1>2. TypeOK /\ [Next]_vars => TypeOK'
  <2> SUFFICES ASSUME TypeOK, [Next]_vars PROVE TypeOK'
    OBVIOUS
  <2> USE PipelineAssumption
  <2>0. /\ ItemsOK /\ \A p \in PRs : p \in Keys /\ GroupOf[p] \in Keys
        /\ UNCHANGED queue => ItemsOK'
    BY DEF TypeOK, Keys, ItemsOK, queue
  <2>1. ASSUME NEW p \in PRs, Approved(p) PROVE TypeOK'
    BY <2>0, <2>1 DEF TypeOK, Approved, Changed, OnApproval
  <2>2. ASSUME NEW p \in PRs, Handled(p) PROVE TypeOK'
    <3>1. ItemsOK'
      BY <2>0, <2>2, ItemSteps DEF Handled
    <3> QED BY <2>2, <3>1 DEF TypeOK, Handled
  <2>3. ASSUME NEW p \in PRs, ApprovePR(p) PROVE TypeOK'
    <3>1. ItemsOK'
      BY <2>0, <2>3, ItemSteps DEF ApprovePR
    <3> QED BY <2>3, <3>1 DEF TypeOK, ApprovePR, Changed
  <2>4. ASSUME NEW p \in PRs, CheckPending(p) PROVE TypeOK'
    BY <2>0, <2>4 DEF TypeOK, CheckPending, OnCheck
  <2>5. ASSUME NEW p \in PRs, Checked(p) PROVE TypeOK'
    <3>1. ItemsOK'
      BY <2>0, <2>5, ItemSteps DEF Checked
    <3> QED BY <2>5, <3>1 DEF TypeOK, Checked
  <2>6. ASSUME NEW k \in Keys, CheckItem(k) PROVE TypeOK'
    <3>1. ItemsOK'
      <4>1. item[k] # "dead-letter"
        BY <2>6 DEF CheckItem
      <4> QED BY <2>0, <2>6, <4>1, ItemSteps DEF CheckItem, Judge
    <3> QED BY <2>6, <3>1 DEF TypeOK, CheckItem
  <2>7. ASSUME NEW k \in Keys, MergeItem(k) PROVE TypeOK'
    <3>1. ItemsOK'
      <4>1. item[k] # "dead-letter" /\ ~Exhausted(k)
        BY <2>7 DEF MergeItem, Exhausted
      <4> QED BY <2>0, <2>7, <4>1, ItemSteps DEF MergeItem
    <3>2. rec' \in [PRs -> Record]
      <4>1. CASE UNCHANGED rec
        BY <4>1 DEF TypeOK
      <4>2. ASSUME NEW p \in PRs, rec' = [rec EXCEPT ![p].state = "merged"]
            PROVE  rec' \in [PRs -> Record]
        BY <4>2 DEF TypeOK, Record
      <4>3. Taken(k) \subseteq PRs
        BY DEF Taken, Earliest
      <4> QED BY <2>7, <4>1, <4>2, <4>3 DEF MergeItem
    <3> QED BY <2>7, <3>1, <3>2 DEF TypeOK, MergeItem
  <2>8. ASSUME NEW p \in PRs, FactsChange(p) PROVE TypeOK'
    BY <2>0, <2>8 DEF TypeOK, FactsChange, Changed
  <2>9. ASSUME NEW p \in PRs, RecordChanges(p) PROVE TypeOK'
    <3>1. rec' \in [PRs -> Record]
      <4>1. rec[p] \in Record /\ rec \in [PRs -> Record]
        BY DEF TypeOK
      <4>2. ASSUME NEW b \in BOOLEAN, rec' = [rec EXCEPT ![p].draft = b]
            PROVE  rec' \in [PRs -> Record]
        BY <4>1, <4>2 DEF Record
      <4>3. ASSUME NEW s \in {"open", "closed"}, rec' = [rec EXCEPT ![p].state = s]
            PROVE  rec' \in [PRs -> Record]
        BY <4>1, <4>3 DEF Record
      <4>4. CASE Edited(p)
        BY <4>2, <4>3, <4>4 DEF Edited
      <4>5. CASE Overwritten(p)
        <5>1. PICK s \in {"open", "closed"} :
                rec' = [rec EXCEPT ![p].state = s, ![p].conflict = FALSE]
          BY <4>5 DEF Overwritten
        <5>2. [rec[p] EXCEPT !.state = s, !.conflict = FALSE] \in Record
          BY <4>1 DEF Record
        <5>3. rec' = [rec EXCEPT ![p] = [rec[p] EXCEPT !.state = s, !.conflict = FALSE]]
          BY <4>1, <5>1
        <5> QED BY <4>1, <5>2, <5>3
      <4>6. CASE Polled(p)
        BY <4>1, <4>6 DEF Polled, Record
      <4> QED BY <2>9, <4>4, <4>5, <4>6 DEF RecordChanges
    <3>2. UNCHANGED queue \/ Removed(p)
      BY <2>9 DEF RecordChanges, Edited, Overwritten, Polled, Dequeued
    <3>3. ItemsOK'
      BY <2>0, <3>2, ItemSteps
    <3>4. named' \in [PRs -> BOOLEAN]
      BY <2>9 DEF TypeOK, RecordChanges, Edited, Overwritten, Polled
    <3> QED BY <2>9, <3>1, <3>3, <3>4 DEF TypeOK, RecordChanges, Changed
  <2>10. CASE UNCHANGED vars
    BY <2>0, <2>10 DEF TypeOK, vars, queue
  <2> QED BY <2>1, <2>2, <2>3, <2>4, <2>5, <2>6, <2>7, <2>8, <2>9, <2>10 DEF Next
<1> QED BY <1>1, <1>2, PTL DEF Spec

-----------------------------------------------------------------------------
\* Which gates an answer of yes passes.
LEMMA ReadyPasses ==
  ASSUME NEW k \in Config, NEW r \in Record, NEW f \in Facts
  PROVE  IsReadyToMerge(k, r, f) = "yes" <=>
           /\ r.state = "open" /\ ~r.draft /\ ~r.conflict /\ f.fault # "approvals"
           /\ CountGate(k, f) = "pass" /\ PathGate(k, f) = "pass"
           /\ SizeGate(k, r, f) = "pass" /\ TemplateGate(k, r, f) = "pass"
           /\ CIAsks(k, f, Gate(Passed(f))) = "pass" /\ SecurityGate(k, f) = "pass"
           /\ Eval(k.expr, Context(k, f, "success", r.conflict)) = "true"
<1> DEFINE ev == Eval(k.expr, Context(k, f, "success", r.conflict))
           gates == << Gate(r.state = "open" /\ ~r.draft), Gate(~r.conflict),
                       Call(f, "approvals", CountGate(k, f)), PathGate(k, f),
                       SizeGate(k, r, f), TemplateGate(k, r, f),
                       CIAsks(k, f, Gate(Passed(f))), SecurityGate(k, f),
                       Gate(ev = "true") >>
<1>1. /\ CountGate(k, f) \in GateValues /\ PathGate(k, f) \in GateValues
      /\ SizeGate(k, r, f) \in GateValues /\ TemplateGate(k, r, f) \in GateValues
      /\ CIAsks(k, f, Gate(Passed(f))) \in GateValues /\ SecurityGate(k, f) \in GateValues
  BY GatesTyped
<1>2. /\ Gate(r.state = "open" /\ ~r.draft) \in GateValues
      /\ Gate(~r.conflict) \in GateValues /\ Gate(ev = "true") \in GateValues
      /\ Call(f, "approvals", CountGate(k, f)) \in GateValues
  BY <1>1, GateFacts
<1>3. gates \in Seq(GateValues) /\ Len(gates) = 9
  BY <1>1, <1>2
<1>4. Answer(gates) = "yes" <=> \A i \in 1..9 : gates[i] = "pass"
  <2> HIDE DEF gates
  <2>1. gates \in Seq(GateValues) /\ Len(gates) <= 9 /\ 1..Len(gates) = 1..9
    BY <1>3
  <2>2. Answer(gates) = "yes" <=> \A i \in 1..Len(gates) : gates[i] = "pass"
    BY <2>1, AnswerYes
  <2> QED BY <2>1, <2>2
<1>5. (\A i \in 1..9 : gates[i] = "pass") <=>
        /\ gates[1] = "pass" /\ gates[2] = "pass" /\ gates[3] = "pass"
        /\ gates[4] = "pass" /\ gates[5] = "pass" /\ gates[6] = "pass"
        /\ gates[7] = "pass" /\ gates[8] = "pass" /\ gates[9] = "pass"
  <2> HIDE DEF gates
  <2> QED OBVIOUS
<1>6. /\ gates[1] = "pass" <=> (r.state = "open" /\ ~r.draft)
      /\ gates[2] = "pass" <=> ~r.conflict
      /\ gates[3] = "pass" <=> (f.fault # "approvals" /\ CountGate(k, f) = "pass")
      /\ gates[9] = "pass" <=> ev = "true"
  <2>1. gates[3] = Call(f, "approvals", CountGate(k, f))
    OBVIOUS
  <2>2. gates[3] = "pass" <=> (f.fault # "approvals" /\ CountGate(k, f) = "pass")
    BY <2>1, <1>1, GateFacts
  <2>3. /\ gates[1] = Gate(r.state = "open" /\ ~r.draft)
        /\ gates[2] = Gate(~r.conflict) /\ gates[9] = Gate(ev = "true")
    OBVIOUS
  <2> HIDE DEF gates, ev
  <2> QED BY <2>2, <2>3 DEF Gate
<1>7. /\ gates[4] = PathGate(k, f) /\ gates[5] = SizeGate(k, r, f)
      /\ gates[6] = TemplateGate(k, r, f) /\ gates[7] = CIAsks(k, f, Gate(Passed(f)))
      /\ gates[8] = SecurityGate(k, f)
  OBVIOUS
<1>8. IsReadyToMerge(k, r, f) = Answer(gates)
  BY DEF IsReadyToMerge
<1> HIDE DEF gates, ev
<1>9. QED BY <1>4, <1>5, <1>6, <1>7, <1>8 DEF ev

\* The gates ShouldMerge has before it comes to the expression or the default gates.
LEMMA HardPasses ==
  ASSUME NEW k \in Config, NEW r \in Record, NEW f \in Facts
  PROVE  HardGates(k, r, f) = "yes" <=>
           /\ DraftGate(r) = "pass" /\ (r.conflict => f.rebases) /\ f.fault # "approvals"
           /\ CIAsks(k, f, Gate(Passed(f) \/ k.expr # <<>>)) = "pass"
           /\ SecurityGate(k, f) = "pass"
<1> DEFINE gates == << DraftGate(r), Gate(~r.conflict \/ f.rebases),
                       Call(f, "approvals", "pass"),
                       CIAsks(k, f, Gate(Passed(f) \/ k.expr # <<>>)), SecurityGate(k, f) >>
<1>1. /\ DraftGate(r) \in GateValues /\ SecurityGate(k, f) \in GateValues
      /\ CIAsks(k, f, Gate(Passed(f) \/ k.expr # <<>>)) \in GateValues
      /\ Gate(~r.conflict \/ f.rebases) \in GateValues
      /\ Call(f, "approvals", "pass") \in GateValues
  <2>1. "pass" \in GateValues /\ \A b : Gate(b) \in GateValues
    BY DEF Gate, GateValues
  <2> QED BY <2>1, GatesTyped, GateFacts
<1>2. gates \in Seq(GateValues) /\ Len(gates) = 5
  BY <1>1
<1>3. Answer(gates) = "yes" <=> \A i \in 1..5 : gates[i] = "pass"
  <2> HIDE DEF gates
  <2>1. gates \in Seq(GateValues) /\ Len(gates) <= 9 /\ 1..Len(gates) = 1..5
    BY <1>2
  <2>2. Answer(gates) = "yes" <=> \A i \in 1..Len(gates) : gates[i] = "pass"
    BY <2>1, AnswerYes
  <2> QED BY <2>1, <2>2
<1>4. (\A i \in 1..5 : gates[i] = "pass") <=>
        /\ gates[1] = "pass" /\ gates[2] = "pass" /\ gates[3] = "pass"
        /\ gates[4] = "pass" /\ gates[5] = "pass"
  <2> HIDE DEF gates
  <2> QED OBVIOUS
<1>5. gates[2] = "pass" <=> (r.conflict => f.rebases)
  <2>1. gates[2] = Gate(~r.conflict \/ f.rebases)
    OBVIOUS
  <2> HIDE DEF gates
  <2> QED BY <2>1 DEF Gate
<1>6. gates[3] = "pass" <=> f.fault # "approvals"
  <2>1. gates[3] = Call(f, "approvals", "pass")
    OBVIOUS
  <2> HIDE DEF gates
  <2> QED BY <2>1 DEF Call
<1>7. /\ gates[1] = DraftGate(r) /\ gates[5] = SecurityGate(k, f)
      /\ gates[4] = CIAsks(k, f, Gate(Passed(f) \/ k.expr # <<>>))
  OBVIOUS
<1>8. HardGates(k, r, f) = Answer(gates)
  BY DEF HardGates
<1> HIDE DEF gates
<1> QED BY <1>3, <1>4, <1>5, <1>6, <1>7, <1>8

\* The default gates.
LEMMA DefaultPasses ==
  ASSUME NEW k \in Config, NEW r \in Record, NEW f \in Facts
  PROVE  ByDefault(k, r, f) = "yes" <=>
           /\ CountGate(k, f) = "pass" /\ PathGate(k, f) = "pass"
           /\ SizeGate(k, r, f) = "pass" /\ TemplateGate(k, r, f) = "pass"
           /\ k.ciRequired => CIText(f.ci) \in {"none", "success"}
<1> DEFINE last  == k.ciRequired => CIText(f.ci) \in {"none", "success"}
           gates == << CountGate(k, f), PathGate(k, f), SizeGate(k, r, f),
                       TemplateGate(k, r, f), Gate(last) >>
<1>1. /\ CountGate(k, f) \in GateValues /\ PathGate(k, f) \in GateValues
      /\ SizeGate(k, r, f) \in GateValues /\ TemplateGate(k, r, f) \in GateValues
      /\ Gate(last) \in GateValues
  <2>1. \A b : Gate(b) \in GateValues
    BY DEF Gate, GateValues
  <2> QED BY <2>1, GatesTyped
<1>2. gates \in Seq(GateValues) /\ Len(gates) = 5
  BY <1>1
<1>3. Answer(gates) = "yes" <=> \A i \in 1..5 : gates[i] = "pass"
  <2> HIDE DEF gates
  <2>1. gates \in Seq(GateValues) /\ Len(gates) <= 9 /\ 1..Len(gates) = 1..5
    BY <1>2
  <2>2. Answer(gates) = "yes" <=> \A i \in 1..Len(gates) : gates[i] = "pass"
    BY <2>1, AnswerYes
  <2> QED BY <2>1, <2>2
<1>4. (\A i \in 1..5 : gates[i] = "pass") <=>
        /\ gates[1] = "pass" /\ gates[2] = "pass" /\ gates[3] = "pass"
        /\ gates[4] = "pass" /\ gates[5] = "pass"
  <2> HIDE DEF gates
  <2> QED OBVIOUS
<1>5. gates[5] = "pass" <=> last
  <2>1. gates[5] = Gate(last)
    OBVIOUS
  <2> HIDE DEF gates, last
  <2> QED BY <2>1 DEF Gate
<1>6. /\ gates[1] = CountGate(k, f) /\ gates[2] = PathGate(k, f)
      /\ gates[3] = SizeGate(k, r, f) /\ gates[4] = TemplateGate(k, r, f)
  OBVIOUS
<1>7. ByDefault(k, r, f) = Answer(gates)
  BY DEF ByDefault
<1> HIDE DEF gates
<1> QED BY <1>3, <1>4, <1>5, <1>6, <1>7

-----------------------------------------------------------------------------
\* With no expression, IsReadyToMerge and ShouldMerge say yes to the same open PRs
\* without conflicts, whatever the configuration and whatever fails: a PR let into the
\* queue is not left there by a stricter second test.
THEOREM TestsAgree ==
  ASSUME NEW k \in Config, NEW r \in Record, NEW f \in Facts,
         k.expr = <<>>, r.state = "open", ~r.conflict
  PROVE  IsReadyToMerge(k, r, f) = "yes" <=> ShouldMerge(k, r, f) = "yes"
<1>1. Eval(k.expr, Context(k, f, "success", r.conflict)) = "true"
  BY DEF Eval
<1>2. DraftGate(r) = "pass" <=> ~r.draft
  BY DEF DraftGate, Gate
<1>3. CIAsks(k, f, Gate(Passed(f) \/ k.expr # <<>>)) = CIAsks(k, f, Gate(Passed(f)))
  <2>1. (Passed(f) \/ k.expr # <<>>) = Passed(f)
    BY DEF Passed
  <2> QED BY <2>1
<1>4. CIAsks(k, f, Gate(Passed(f))) = "pass"
        => (k.ciRequired => CIText(f.ci) \in {"none", "success"})
  BY GateFacts DEF CIAsks, Call, Gate, Passed, CIText
<1>5. ShouldMerge(k, r, f) = "yes"
        <=> HardGates(k, r, f) = "yes" /\ ByDefault(k, r, f) = "yes"
  BY DEF ShouldMerge
<1> QED BY <1>1, <1>2, <1>3, <1>4, <1>5, ReadyPasses, HardPasses, DefaultPasses

\* The invariant Agreement of the pipeline.
THEOREM PipelineAgreement == Spec => []Agreement
<1>1. TypeOK => Agreement
  <2> SUFFICES ASSUME TypeOK, NEW p \in PRs, cfg.expr = <<>>,
                      rec[p].state = "open", ~rec[p].conflict
               PROVE  IsReadyToMerge(cfg, rec[p], facts[p]) = "yes"
                        <=> ShouldMerge(cfg, rec[p], facts[p]) = "yes"
    BY DEF Agreement
  <2>1. cfg \in Config /\ rec[p] \in Record /\ facts[p] \in Facts
    BY DEF TypeOK
  <2> QED BY <2>1, TestsAgree
<1> QED BY <1>1, PipelineTypes, PTL

-----------------------------------------------------------------------------
\* ShouldMerge says yes only if the PR may be merged and the calls it needs succeeded.
LEMMA MergeableSound ==
  ASSUME NEW k \in Config, NEW r \in Record, NEW f \in Facts, ShouldMerge(k, r, f) = "yes"
  PROVE  /\ MayMerge(k, r, f) /\ f.fault # "approvals"
         /\ (k.security => f.fault # "security") /\ (k.ciRequired => f.fault # "ci")
<1>1. HardGates(k, r, f) = "yes"
  BY DEF ShouldMerge
<1>2. /\ DraftGate(r) = "pass" /\ (r.conflict => f.rebases) /\ f.fault # "approvals"
      /\ CIAsks(k, f, Gate(Passed(f) \/ k.expr # <<>>)) = "pass"
      /\ SecurityGate(k, f) = "pass"
  BY <1>1, HardPasses
<1>3. k.security => ~f.alerts /\ f.fault # "security"
  BY <1>2, GateFacts DEF SecurityGate, Gate, Call
<1>4. ~r.draft
  BY <1>2 DEF DraftGate, Gate
<1>5. k.ciRequired => f.fault # "ci" /\ (Passed(f) \/ k.expr # <<>>)
  BY <1>2, GateFacts DEF CIAsks, Gate, Call
<1>6. k.expr # <<>> => ByExpression(k, f) = "yes"
  BY <1>1 DEF ShouldMerge
<1>7. ASSUME k.expr = <<>>
      PROVE  /\ \E S \in SUBSET (f.approvers \cap f.writers) : Cardinality(S) >= k.required
             /\ \A q \in k.rules \cap f.touched :
                  q.approvers \cap f.approvers \cap f.writers # {}
             /\ k.ciRequired => f.ci \in {"success", "none"}
             /\ r.labels \cap k.exempt = {} => ~(k.sizeBlocks /\ f.big)
                                              /\ (k.templateBlocks => f.described)
  <2>1. ByDefault(k, r, f) = "yes"
    BY <1>1, <1>7 DEF ShouldMerge
  <2>2. /\ CountGate(k, f) = "pass" /\ PathGate(k, f) = "pass"
        /\ SizeGate(k, r, f) = "pass" /\ TemplateGate(k, r, f) = "pass"
    BY <2>1, DefaultPasses
  <2>3. Cardinality(Approvals(f)) >= k.required
    BY <2>2 DEF CountGate, Gate
  <2>4. \E S \in SUBSET (f.approvers \cap f.writers) : Cardinality(S) >= k.required
    BY <2>3 DEF Approvals
  <2>5. ASSUME NEW q \in k.rules \cap f.touched
        PROVE  q.approvers \cap f.approvers \cap f.writers # {}
    <3>1. PathApproved(k, f)
      BY <2>2, <2>5, GateFacts DEF PathGate, Call, Gate
    <3>2. q \in Rule
      BY <2>5 DEF Config
    <3>3. Cardinality(q.approvers \cap Approvals(f)) >= IF q.min = 0 THEN 1 ELSE q.min
      BY <2>5, <3>1 DEF PathApproved
    <3>4. q.approvers \cap Approvals(f) # {}
      <4>1. q.min \in Nat
        BY <3>2 DEF Rule
      <4>2. Cardinality({}) = 0
        BY FS_EmptySet
      <4> QED BY <3>3, <4>1, <4>2
    <3> QED BY <3>4 DEF Approvals
  <2>6. k.ciRequired => f.ci \in {"success", "none"}
    BY <1>5, <1>7 DEF Passed
  <2>7. r.labels \cap k.exempt = {} => ~(k.sizeBlocks /\ f.big)
    BY <2>2, GateFacts DEF SizeGate, Call, Gate
  <2>8. r.labels \cap k.exempt = {} => (k.templateBlocks => f.described)
    BY <2>2 DEF TemplateGate, Gate
  <2> QED BY <2>4, <2>5, <2>6, <2>7, <2>8
<1>8. MayMerge(k, r, f)
  BY <1>2, <1>3, <1>4, <1>6, <1>7 DEF MayMerge
<1> QED BY <1>2, <1>3, <1>5, <1>8

\* CheckQueue starts merging only what may be merged at that moment, for any
\* configuration: the gates, stopped at in their order, amount to all of them.
THEOREM MergesAreSound == Spec => OnlyMergeable
<1> DEFINE Sound == \A k \in Keys : item[k] # "merging" /\ item'[k] = "merging" => Mergeable(k)
<1>1. ASSUME TypeOK, [Next]_vars PROVE Sound
  <2> SUFFICES ASSUME NEW k \in Keys, item[k] # "merging", item'[k] = "merging"
               PROVE  Mergeable(k)
    OBVIOUS
  <2>1. item \in [Keys -> ItemStates]
    BY <1>1 DEF TypeOK, ItemsOK
  <2>2. \A j : Removed(j) \/ Queued(j) \/ Failed(j) \/ Becomes(j, "waiting")
                \/ Becomes(j, "dead-letter") \/ UNCHANGED queue => item'[k] # "merging"
    BY <2>1 DEF Removed, Queued, Failed, Becomes, queue
  <2>3. PICK j \in Keys : CheckItem(j)
    <3>1. ASSUME NEW p \in PRs, Approved(p) \/ Handled(p) \/ ApprovePR(p) \/ CheckPending(p)
                                 \/ Checked(p) \/ FactsChange(p)
          PROVE  FALSE
      BY <2>2, <3>1 DEF Approved, Handled, ApprovePR, CheckPending, Checked, FactsChange
    <3>2. ASSUME NEW p \in PRs, RecordChanges(p) PROVE FALSE
      BY <2>2, <3>2 DEF RecordChanges, Edited, Overwritten, Polled, Dequeued
    <3>3. ASSUME NEW j \in Keys, MergeItem(j) PROVE FALSE
      BY <2>2, <3>3 DEF MergeItem
    <3>4. CASE UNCHANGED vars
      BY <2>2, <3>4 DEF vars, queue
    <3> QED BY <1>1, <3>1, <3>2, <3>3, <3>4 DEF Next
  <2>4. /\ Becomes(j, "merging")
        /\ \E p \in Found(j) : ShouldMerge(cfg, rec[p], facts[p]) = "yes"
    BY <2>2, <2>3 DEF CheckItem, Judge
  <2>5. j = k
    BY <2>1, <2>4 DEF Becomes
  <2>6. PICK p \in Found(k) : ShouldMerge(cfg, rec[p], facts[p]) = "yes"
    BY <2>4, <2>5
  <2>7. p \in PRs
    BY <2>6 DEF Found, Earliest
  <2>8. cfg \in Config /\ rec[p] \in Record /\ facts[p] \in Facts
    BY <1>1, <2>7 DEF TypeOK
  <2> QED BY <2>6, <2>8, MergeableSound DEF Mergeable
<1>2. TypeOK /\ [Next]_vars => [Sound]_vars
  BY <1>1
<1> QED BY <1>2, PipelineTypes, PTL DEF Spec, OnlyMergeable

-----------------------------------------------------------------------------
\* Induction

\* A set of natural numbers has a least member, so that one with 0 and each successor has all.
LEMMA Least ==
  ASSUME NEW T \in SUBSET Nat, T # {}
  PROVE  \E x \in T : \A y \in T : ~(y < x)
<1>1. \E x \in T : \A y \in T : ~(<<y, x>> \in OpToRel(<, Nat))
  BY NatLessThanWellFounded, WFMin
<1> QED
  BY <1>1 DEF OpToRel

LEMMA Counting ==
  ASSUME NEW S, 0 \in S, \A n \in Nat : n \in S => n + 1 \in S
  PROVE  Nat \subseteq S
<1> DEFINE T == Nat \ S
<1>1. SUFFICES ASSUME T # {} PROVE FALSE
  OBVIOUS
<1>2. PICK x \in T : \A y \in T : ~(y < x)
  BY <1>1, Least
<1>3. x # 0
  OBVIOUS
<1>4. x - 1 \in Nat /\ x - 1 < x
  BY <1>3
<1>5. x - 1 \in S
  BY <1>2, <1>4
<1> QED
  BY <1>4, <1>5

-----------------------------------------------------------------------------
\* The first of some positions
LEMMA FirstIs ==
  ASSUME NEW T \in SUBSET Nat, T # {}
  PROVE  First(T) \in T /\ \A j \in T : First(T) <= j
<1>1. PICK i \in T : \A j \in T : ~(j < i)
  BY Least
<1>2. \A j \in T : i <= j
  BY <1>1
<1> QED
  BY <1>2 DEF First

-----------------------------------------------------------------------------
\* Parentheses

\* The tokens c among the first n, and one token more.
Among(e, c, n) == {j \in 1..n : e[j] = c}

LEMMA CountMore ==
  ASSUME NEW e, NEW c, NEW i \in Nat
  PROVE  /\ Cardinality(Among(e, c, i)) \in Nat
         /\ Cardinality(Among(e, c, 0)) = 0
         /\ Cardinality(Among(e, c, i + 1)) = Cardinality(Among(e, c, i)) + (IF e[i + 1] = c THEN 1 ELSE 0)
<1>1. IsFiniteSet(Among(e, c, i)) /\ Cardinality(Among(e, c, i)) \in Nat
  <2>1. IsFiniteSet(1..i)
    BY FS_Interval
  <2>2. Among(e, c, i) \subseteq 1..i
    BY DEF Among
  <2>3. IsFiniteSet(Among(e, c, i))
    BY <2>1, <2>2, FS_Subset
  <2> QED
    BY <2>3, FS_CardinalityType
<1>2. Among(e, c, 0) = {}
  BY DEF Among
<1>3. Cardinality(Among(e, c, 0)) = 0
  BY <1>2, FS_EmptySet
<1>4. CASE e[i + 1] = c
  <2>1. Among(e, c, i + 1) = Among(e, c, i) \cup {i + 1}
    BY <1>4 DEF Among
  <2>2. i + 1 \notin Among(e, c, i)
    BY DEF Among
  <2>3. Cardinality(Among(e, c, i) \cup {i + 1}) = Cardinality(Among(e, c, i)) + 1
    BY <1>1, <2>2, FS_AddElement
  <2> QED
    BY <1>1, <1>3, <1>4, <2>1, <2>3
<1>5. CASE e[i + 1] # c
  <2>1. Among(e, c, i + 1) = Among(e, c, i)
    BY <1>5 DEF Among
  <2>2. Cardinality(Among(e, c, i + 1)) = Cardinality(Among(e, c, i)) + 0
    BY <1>1, <2>1
  <2> QED
    BY <1>1, <1>3, <1>5, <2>2
<1> QED
  BY <1>4, <1>5

Turn(s) == IF s = "(" THEN 1 ELSE IF s = ")" THEN -1 ELSE 0

LEMMA OpenedMore ==
  ASSUME NEW e, NEW i \in Nat
  PROVE  /\ Opened(e, i) \in Int
         /\ Opened(e, 0) = 0
         /\ Opened(e, i + 1) = Opened(e, i) + Turn(e[i + 1])
<1>1. \A c : /\ Cardinality(Among(e, c, i)) \in Nat
             /\ Cardinality(Among(e, c, 0)) = 0
             /\ Cardinality(Among(e, c, i + 1)) = Cardinality(Among(e, c, i)) + (IF e[i + 1] = c THEN 1 ELSE 0)
  BY CountMore
<1>2. \A n : Opened(e, n) = Cardinality(Among(e, "(", n)) - Cardinality(Among(e, ")", n))
  BY DEF Opened, Among
<1>3. Opened(e, i) \in Int /\ Opened(e, 0) = 0
  BY <1>1, <1>2
<1>4. Opened(e, i + 1) = Opened(e, i) + Turn(e[i + 1])
  BY <1>1, <1>2 DEF Turn
<1> QED
  BY <1>3, <1>4

\* A text that continues e after its first k tokens goes on from what is open there.
Continues(e, k, t, m) == \A i \in 1..m : e[k + i] = t[i]

LEMMA OpenedOn ==
  ASSUME NEW e, NEW t, NEW k \in Nat, NEW m \in Nat, Continues(e, k, t, m)
  PROVE  \A i \in 0..m : Opened(e, k + i) = Opened(e, k) + Opened(t, i)
<1> DEFINE S == {i \in Nat : i <= m => Opened(e, k + i) = Opened(e, k) + Opened(t, i)}
<1>1. 0 \in S
  <2>1. Opened(e, k) \in Int /\ Opened(t, 0) = 0
    BY OpenedMore
  <2> QED
    BY <2>1
<1>2. ASSUME NEW i \in Nat, i \in S PROVE i + 1 \in S
  <2> SUFFICES ASSUME i + 1 <= m PROVE Opened(e, k + (i + 1)) = Opened(e, k) + Opened(t, i + 1)
    OBVIOUS
  <2>1. Opened(e, k + i) = Opened(e, k) + Opened(t, i)
    BY <1>2
  <2>2. k + i \in Nat /\ (k + i) + 1 = k + (i + 1) /\ i + 1 \in 1..m
    OBVIOUS
  <2>3. Opened(e, (k + i) + 1) = Opened(e, k + i) + Turn(e[(k + i) + 1])
    BY <2>2, OpenedMore
  <2>4. Opened(t, i + 1) = Opened(t, i) + Turn(t[i + 1])
    BY OpenedMore
  <2>5. e[k + (i + 1)] = t[i + 1]
    BY <2>2 DEF Continues
  <2>6. Opened(e, k) \in Int /\ Opened(t, i) \in Int /\ Turn(t[i + 1]) \in Int
    BY OpenedMore DEF Turn
  <2> HIDE DEF S
  <2>7. Opened(e, k + (i + 1)) = Opened(e, k + i) + Turn(t[i + 1])
    BY <2>2, <2>3, <2>5
  <2> QED
    BY <2>1, <2>4, <2>6, <2>7
<1> HIDE DEF S
<1>3. Nat \subseteq S
  BY <1>1, <1>2, Counting
<1> QED
  BY <1>3 DEF S

\* Parentheses are closed as often as they are opened, and never before.
Closed(e) == /\ e \in Seq(Tokens) /\ e # <<>>
             /\ Opened(e, Len(e)) = 0
             /\ \A i \in 0..Len(e) : Opened(e, i) >= 0

LEMMA NotEmpty ==
  ASSUME NEW e \in Seq(Tokens)
  PROVE  Len(e) \in Nat /\ (e # <<>> <=> Len(e) > 0)
<1>1. Len(e) \in Nat /\ (e # <<>> => Len(e) \in Nat \ {0})
  BY EmptySeq, LenProperties
<1>2. e = <<>> => Len(e) = 0
  BY EmptySeq
<1> QED
  BY <1>1, <1>2

-----------------------------------------------------------------------------
\* Texts put together

LEMMA SingleText ==
  ASSUME NEW S, NEW s \in S
  PROVE  <<s>> \in Seq(S) /\ Len(<<s>>) = 1 /\ <<s>>[1] = s
<1>1. <<s>> \in Seq(S)
  OBVIOUS
<1>2. Len(<<s>>) = 1
  OBVIOUS
<1>3. <<s>>[1] = s
  OBVIOUS
<1> QED
  BY <1>1, <1>2, <1>3

IsJoin(e, p, s, q) ==
  /\ Len(e) = Len(p) + 1 + Len(q)
  /\ \A i \in 1..Len(p) : e[i] = p[i]
  /\ e[Len(p) + 1] = s
  /\ \A i \in 1..Len(q) : e[Len(p) + 1 + i] = q[i]
  /\ Before(e, Len(p) + 1) = p
  /\ After(e, Len(p) + 1) = q

LEMMA Joined ==
  ASSUME NEW S, NEW p \in Seq(S), NEW q \in Seq(S), NEW s \in S
  PROVE  p \o <<s>> \o q \in Seq(S) /\ IsJoin(p \o <<s>> \o q, p, s, q)
<1> DEFINE one == <<s>>
           h == p \o one
           e == h \o q
           n == Len(p)
<1>0. one \in Seq(S) /\ Len(one) = 1 /\ one[1] = s
  BY SingleText
<1>1. n \in Nat /\ Len(q) \in Nat
  BY LenProperties
<1> HIDE DEF one
<1>2. /\ h \in Seq(S) /\ Len(h) = n + 1
      /\ \A i \in 1..n + 1 : h[i] = IF i <= n THEN p[i] ELSE one[i - n]
  <2>1. /\ h \in Seq(S) /\ Len(h) = Len(p) + Len(one)
        /\ \A i \in 1..Len(p) + Len(one) : h[i] = IF i <= Len(p) THEN p[i] ELSE one[i - Len(p)]
    BY <1>0, ConcatProperties
  <2> QED
    BY <1>0, <2>1
<1> HIDE DEF h
<1>3. /\ e \in Seq(S) /\ Len(e) = n + 1 + Len(q)
      /\ \A i \in 1..n + 1 + Len(q) : e[i] = IF i <= n + 1 THEN h[i] ELSE q[i - (n + 1)]
  <2>1. /\ e \in Seq(S) /\ Len(e) = Len(h) + Len(q)
        /\ \A i \in 1..Len(h) + Len(q) : e[i] = IF i <= Len(h) THEN h[i] ELSE q[i - Len(h)]
    <3>1. h \in Seq(S)
      BY <1>2
    <3> QED
      BY <3>1, ConcatProperties
  <2> QED
    BY <1>2, <2>1
<1> HIDE DEF e, n
<1>4. \A i \in 1..n : e[i] = p[i]
  <2> TAKE i \in 1..n
  <2>1. i \in 1..n + 1 /\ i \in 1..n + 1 + Len(q) /\ i <= n /\ i <= n + 1
    BY <1>1
  <2> QED
    BY <1>2, <1>3, <2>1
<1>5. e[n + 1] = s
  <2>1. n + 1 \in 1..n + 1 /\ n + 1 \in 1..n + 1 + Len(q) /\ ~(n + 1 <= n) /\ n + 1 <= n + 1 /\ (n + 1) - n = 1
    BY <1>1
  <2> QED
    BY <1>0, <1>2, <1>3, <2>1
<1>6. \A i \in 1..Len(q) : e[n + 1 + i] = q[i]
  <2> TAKE i \in 1..Len(q)
  <2>1. n + 1 + i \in 1..n + 1 + Len(q) /\ ~(n + 1 + i <= n + 1) /\ (n + 1 + i) - (n + 1) = i
    BY <1>1
  <2> QED
    BY <1>3, <2>1
<1>7. Before(e, n + 1) = p
  <2> DEFINE b == SubSeq(e, 1, n)
  <2>1. \A i \in 1..n : e[i] \in S
    <3>1. \A i \in 1..n : i \in 1..Len(e)
      BY <1>1, <1>3
    <3> QED
      BY <3>1, <1>3, ElementOfSeq
  <2>2. /\ b \in Seq(S) /\ Len(b) = IF 1 <= n THEN n - 1 + 1 ELSE 0
        /\ \A i \in 1..n - 1 + 1 : b[i] = e[1 + i - 1]
    BY <1>1, <2>1, SubSeqProperties
  <2> HIDE DEF b
  <2>3. Len(b) = n
    BY <1>1, <2>2
  <2>4. \A i \in 1..Len(b) : b[i] = p[i]
    <3> TAKE i \in 1..Len(b)
    <3>1. i \in 1..n /\ i \in 1..n - 1 + 1 /\ 1 + i - 1 = i
      BY <1>1, <2>3
    <3> QED
      BY <1>4, <2>2, <3>1
  <2>5. b = p
    BY <2>2, <2>3, <2>4, SeqEqual DEF n
  <2>6. Before(e, n + 1) = SubSeq(e, 1, n)
    <3>1. (n + 1) - 1 = n
      BY <1>1
    <3>2. Before(e, n + 1) = SubSeq(e, 1, (n + 1) - 1)
      BY DEF Before
    <3> QED
      BY <3>1, <3>2
  <2> QED
    BY <2>5, <2>6 DEF Before, b
<1>8. After(e, n + 1) = q
  <2> DEFINE m == Len(e)
             b == SubSeq(e, n + 2, m)
  <2>0. m = n + 1 + Len(q) /\ m \in Nat /\ m - (n + 2) + 1 = Len(q)
    BY <1>1, <1>3
  <2>1. \A i \in n + 2..m : e[i] \in S
    <3>1. \A i \in n + 2..m : i \in 1..Len(e)
      BY <1>1, <2>0
    <3> QED
      BY <3>1, <1>3, ElementOfSeq
  <2> HIDE DEF m
  <2>2. /\ b \in Seq(S) /\ Len(b) = IF n + 2 <= m THEN m - (n + 2) + 1 ELSE 0
        /\ \A i \in 1..m - (n + 2) + 1 : b[i] = e[n + 2 + i - 1]
    BY <1>1, <2>0, <2>1, SubSeqProperties
  <2> HIDE DEF b
  <2>3. Len(b) = Len(q)
    BY <1>1, <2>0, <2>2
  <2>4. \A i \in 1..Len(b) : b[i] = q[i]
    <3> TAKE i \in 1..Len(b)
    <3>1. i \in 1..Len(q) /\ i \in 1..m - (n + 2) + 1 /\ n + 2 + i - 1 = n + 1 + i
      BY <1>1, <2>0, <2>3
    <3> QED
      BY <1>6, <2>2, <3>1
  <2>5. b = q
    BY <2>2, <2>3, <2>4, SeqEqual
  <2>6. n + 1 + 1 = n + 2
    BY <1>1
  <2> QED
    BY <2>5, <2>6, Zenon DEF After, b, m
<1> QED
  BY <1>3, <1>4, <1>5, <1>6, <1>7, <1>8 DEF e, n, h, one, IsJoin

\* Two closed texts with a word between them.
LEMMA JoinClosed ==
  ASSUME NEW p, NEW q, NEW s \in Tokens, NEW e \in Seq(Tokens), Closed(p), Closed(q), s \notin {"(", ")"},
         IsJoin(e, p, s, q)
  PROVE  /\ Closed(e) /\ ~Wrapped(e) /\ Len(p) + 1 \in 1..Len(e)
         /\ \A op : /\ \A i \in 1..Len(p) : i \in TopLevel(e, op) <=> i \in TopLevel(p, op)
                    /\ Len(p) + 1 \in TopLevel(e, op) <=> s = op
                    /\ \A i \in 1..Len(q) : Len(p) + 1 + i \in TopLevel(e, op) <=> i \in TopLevel(q, op)
<1> DEFINE n == Len(p)
           m == Len(q)
<1>1. n \in Nat \ {0} /\ m \in Nat \ {0} /\ Len(e) = n + 1 + m
  BY NotEmpty DEF Closed, IsJoin
<1>2. /\ \A i \in 1..n : e[i] = p[i]
      /\ e[n + 1] = s
      /\ \A i \in 1..m : e[n + 1 + i] = q[i]
  BY DEF IsJoin
<1>3. /\ Opened(p, n) = 0 /\ \A i \in 0..n : Opened(p, i) >= 0
      /\ Opened(q, m) = 0 /\ \A i \in 0..m : Opened(q, i) >= 0
  BY DEF Closed
<1> HIDE DEF n, m
<1>4. \A i \in 0..n : Opened(e, i) = Opened(p, i)
  <2>1. Continues(e, 0, p, n)
    BY <1>2 DEF Continues
  <2>2. \A i \in 0..n : Opened(e, 0 + i) = Opened(e, 0) + Opened(p, i)
    BY <1>1, <2>1, OpenedOn
  <2>3. Opened(e, 0) = 0 /\ \A i \in 0..n : Opened(p, i) \in Int /\ 0 + i = i
    BY OpenedMore
  <2> QED
    BY <2>2, <2>3
<1>5. Opened(e, n) = 0
  BY <1>1, <1>3, <1>4
<1>6. Opened(e, n + 1) = 0
  <2>1. Opened(e, n + 1) = Opened(e, n) + Turn(e[n + 1])
    BY <1>1, OpenedMore
  <2>2. Turn(e[n + 1]) = 0
    BY <1>2 DEF Turn
  <2> QED
    BY <1>5, <2>1, <2>2
<1>7. \A i \in 0..m : Opened(e, n + 1 + i) = Opened(q, i)
  <2>1. \A i \in 0..m : Opened(e, (n + 1) + i) = Opened(e, n + 1) + Opened(q, i)
    <3> DEFINE k == n + 1
    <3>1. k \in Nat /\ m \in Nat
      BY <1>1
    <3>2. Continues(e, k, q, m)
      BY <1>2 DEF Continues
    <3> HIDE DEF k
    <3>3. \A i \in 0..m : Opened(e, k + i) = Opened(e, k) + Opened(q, i)
      BY <3>1, <3>2, OpenedOn
    <3> QED
      BY <3>3 DEF k
  <2>2. \A i \in 0..m : Opened(q, i) \in Int
    BY OpenedMore
  <2> QED
    BY <1>6, <2>1, <2>2
<1>8. \A i \in 0..Len(e) : i \in 0..n \/ (i - (n + 1) \in 0..m /\ i = n + 1 + (i - (n + 1)))
  BY <1>1
<1>9. Closed(e)
  <2>1. \A i \in 0..Len(e) : Opened(e, i) >= 0
    <3> TAKE i \in 0..Len(e)
    <3>1. CASE i \in 0..n
      BY <1>3, <1>4, <3>1
    <3>2. CASE i - (n + 1) \in 0..m /\ i = n + 1 + (i - (n + 1))
      <4> DEFINE k == i - (n + 1)
      <4>1. k \in 0..m /\ i = n + 1 + k
        BY <3>2
      <4> HIDE DEF k
      <4>2. Opened(e, i) = Opened(q, k)
        BY <1>7, <4>1
      <4> QED
        BY <1>3, <4>1, <4>2
    <3> QED
      BY <1>8, <3>1, <3>2
  <2>2. Opened(e, Len(e)) = 0
    <3>1. m \in 0..m
      BY <1>1
    <3> QED
      BY <1>1, <1>3, <1>7, <3>1
  <2>3. e # <<>>
    BY <1>1, NotEmpty
  <2> QED
    BY <2>1, <2>2, <2>3 DEF Closed
<1>10. ~Wrapped(e)
  <2>1. n \in 1..Len(e) - 1
    BY <1>1
  <2> QED
    BY <1>5, <2>1 DEF Wrapped
<1>11. ASSUME NEW op
       PROVE /\ \A i \in 1..n : i \in TopLevel(e, op) <=> i \in TopLevel(p, op)
             /\ n + 1 \in TopLevel(e, op) <=> s = op
             /\ \A i \in 1..m : n + 1 + i \in TopLevel(e, op) <=> i \in TopLevel(q, op)
  <2>1. ASSUME NEW i \in 1..n PROVE i \in TopLevel(e, op) <=> i \in TopLevel(p, op)
    <3>1. i \in 1..Len(e) /\ i \in 0..n
      BY <1>1
    <3>2. e[i] = p[i] /\ Opened(e, i) = Opened(p, i)
      BY <1>2, <1>4, <3>1
    <3> QED
      BY <3>1, <3>2 DEF TopLevel, n
  <2>2. n + 1 \in TopLevel(e, op) <=> s = op
    <3>1. n + 1 \in 1..Len(e)
      BY <1>1
    <3> QED
      BY <1>2, <1>6, <3>1 DEF TopLevel
  <2>3. ASSUME NEW i \in 1..m PROVE n + 1 + i \in TopLevel(e, op) <=> i \in TopLevel(q, op)
    <3>1. n + 1 + i \in 1..Len(e) /\ i \in 0..m
      BY <1>1
    <3>2. e[n + 1 + i] = q[i] /\ Opened(e, n + 1 + i) = Opened(q, i)
      BY <1>2, <1>7, <3>1
    <3> QED
      BY <3>1, <3>2 DEF TopLevel, m
  <2> QED
    BY <2>1, <2>2, <2>3
<1>12. n + 1 \in 1..Len(e)
  BY <1>1
<1> QED
  BY <1>9, <1>10, <1>11, <1>12 DEF n, m

\* The operator between two texts is the first of its kind outside parentheses, if the left text has none.
LEMMA JoinSplit ==
  ASSUME NEW p, NEW q, NEW s \in Tokens, NEW e \in Seq(Tokens), Closed(p), Closed(q), s \notin {"(", ")"},
         IsJoin(e, p, s, q), TopLevel(p, s) = {}
  PROVE  TopLevel(e, s) # {} /\ First(TopLevel(e, s)) = Len(p) + 1
<1> DEFINE n == Len(p)
           T == TopLevel(e, s)
           f == First(T)
<1>1. n \in Nat /\ Len(e) \in Nat
  BY NotEmpty DEF Closed
<1>2. n + 1 \in T /\ \A i \in 1..n : i \notin T
  BY JoinClosed
<1>3. T \subseteq 1..Len(e)
  BY DEF TopLevel
<1> HIDE DEF T
<1>4. T \in SUBSET Nat /\ T # {}
  BY <1>1, <1>2, <1>3
<1>5. f \in T /\ \A j \in T : f <= j
  BY <1>4, FirstIs
<1> HIDE DEF f
<1>6. f \in Nat /\ f >= 1 /\ f <= n + 1
  <2>1. f \in 1..Len(e)
    BY <1>3, <1>5
  <2>2. f <= n + 1
    BY <1>2, <1>5
  <2> QED
    BY <1>1, <2>1, <2>2
<1>7. ~(f <= n)
  BY <1>1, <1>2, <1>5, <1>6
<1>8. f = n + 1
  BY <1>1, <1>6, <1>7
<1> QED
  BY <1>4, <1>8 DEF f, T, n

\* Two texts without an operator outside parentheses have none together.
LEMMA JoinWithout ==
  ASSUME NEW p, NEW q, NEW s \in Tokens, NEW e \in Seq(Tokens), Closed(p), Closed(q), s \notin {"(", ")"},
         IsJoin(e, p, s, q), NEW op, s # op, TopLevel(p, op) = {}, TopLevel(q, op) = {}
  PROVE  TopLevel(e, op) = {}
<1> DEFINE n == Len(p)
           m == Len(q)
<1>1. n \in Nat /\ m \in Nat /\ Len(e) = n + 1 + m
  BY NotEmpty DEF Closed, IsJoin
<1>2. /\ \A i \in 1..n : i \notin TopLevel(e, op)
      /\ n + 1 \notin TopLevel(e, op)
      /\ \A i \in 1..m : n + 1 + i \notin TopLevel(e, op)
  BY JoinClosed
<1> HIDE DEF n, m
<1>3. ASSUME NEW i \in TopLevel(e, op) PROVE FALSE
  <2>1. i \in 1..n + 1 + m
    BY <1>1, <1>3 DEF TopLevel
  <2>2. i \in 1..n \/ i = n + 1 \/ i - (n + 1) \in 1..m
    BY <1>1, <2>1
  <2>3. i = n + 1 + (i - (n + 1))
    BY <1>1, <2>1
  <2> QED
    BY <1>2, <1>3, <2>2, <2>3
<1> QED
  BY <1>3

-----------------------------------------------------------------------------
\* What evalExpr computes: the value of a text from the values of shorter ones.

Short(n) == {e \in Seq(Tokens) : Len(e) <= n}

ValueFrom(v, e, x) ==
  IF Wrapped(e) THEN v[SubSeq(e, 2, Len(e) - 1)]
  ELSE IF TopLevel(e, "OR") # {} THEN
    LET i == First(TopLevel(e, "OR"))  l == v[Before(e, i)]
    IN IF l = "false" THEN v[After(e, i)] ELSE l
  ELSE IF TopLevel(e, "AND") # {} THEN
    LET i == First(TopLevel(e, "AND"))  l == v[Before(e, i)]
    IN IF l = "true" THEN v[After(e, i)] ELSE l
  ELSE IF Len(e) > 1 /\ e[1] = "NOT" THEN Negated(v[Tail(e)])
  ELSE IF Len(e) = 1 THEN AtomValue(e[1], x) ELSE "error"

Shorter(e) == {d \in Seq(Tokens) : Len(d) < Len(e)}

\* What follows or precedes a position of a text is shorter than it.
LEMMA PartsShorter ==
  ASSUME NEW e \in Seq(Tokens)
  PROVE  /\ Wrapped(e) => SubSeq(e, 2, Len(e) - 1) \in Shorter(e)
         /\ \A i \in 1..Len(e) : Before(e, i) \in Shorter(e) /\ After(e, i) \in Shorter(e)
         /\ Len(e) > 1 => Tail(e) \in Shorter(e)
<1> DEFINE n == Len(e)
<1>1. n \in Nat /\ \A i \in 1..n : e[i] \in Tokens
  BY LenProperties, ElementOfSeq
<1> HIDE DEF n
<1>2. ASSUME NEW a \in Nat, NEW b \in Nat, 1 <= a, b <= n, b - a + 1 < n, n > 0
      PROVE  SubSeq(e, a, b) \in Shorter(e)
  <2>1. \A i \in a..b : e[i] \in Tokens
    BY <1>1, <1>2
  <2>2. /\ SubSeq(e, a, b) \in Seq(Tokens)
        /\ Len(SubSeq(e, a, b)) = IF a <= b THEN b - a + 1 ELSE 0
    BY <2>1, SubSeqProperties
  <2>3. Len(SubSeq(e, a, b)) < n
    BY <1>1, <1>2, <2>2
  <2> QED
    BY <2>2, <2>3 DEF Shorter, n
<1>3. Wrapped(e) => SubSeq(e, 2, n - 1) \in Shorter(e)
  <2> SUFFICES ASSUME n > 1 PROVE SubSeq(e, 2, n - 1) \in Shorter(e)
    BY DEF Wrapped, n
  <2>1. n - 1 \in Nat /\ n - 1 <= n /\ (n - 1) - 2 + 1 < n /\ n > 0
    BY <1>1
  <2> QED
    BY <1>2, <2>1
<1>4. ASSUME NEW i \in 1..n PROVE Before(e, i) \in Shorter(e) /\ After(e, i) \in Shorter(e)
  <2>1. /\ i - 1 \in Nat /\ i - 1 <= n /\ (i - 1) - 1 + 1 < n /\ n > 0
        /\ i + 1 \in Nat /\ 1 <= i + 1 /\ n - (i + 1) + 1 < n
    BY <1>1
  <2>2. SubSeq(e, 1, i - 1) \in Shorter(e)
    BY <1>1, <1>2, <2>1
  <2>3. SubSeq(e, i + 1, n) \in Shorter(e)
    BY <1>1, <1>2, <2>1
  <2> QED
    BY <2>2, <2>3 DEF Before, After, n
<1>5. n > 1 => Tail(e) \in Shorter(e)
  <2> SUFFICES ASSUME n > 1 PROVE Tail(e) \in Shorter(e)
    OBVIOUS
  <2>1. e # <<>>
    BY NotEmpty DEF n
  <2>2. Tail(e) = SubSeq(e, 2, n)
    BY <2>1, TailIsSubSeq DEF n
  <2>3. n <= n /\ n - 2 + 1 < n /\ n > 0
    BY <1>1
  <2>4. SubSeq(e, 2, n) \in Shorter(e)
    BY <1>1, <1>2, <2>3
  <2> QED
    BY <2>2, <2>4
<1> QED
  BY <1>3, <1>4, <1>5 DEF n

LEMMA ValueFromShorter ==
  ASSUME NEW e \in Seq(Tokens), NEW x, NEW v, NEW w, \A d \in Shorter(e) : v[d] = w[d]
  PROVE  ValueFrom(v, e, x) = ValueFrom(w, e, x)
<1>1. ASSUME NEW op, TopLevel(e, op) # {}
      PROVE  /\ v[Before(e, First(TopLevel(e, op)))] = w[Before(e, First(TopLevel(e, op)))]
             /\ v[After(e, First(TopLevel(e, op)))] = w[After(e, First(TopLevel(e, op)))]
  <2> DEFINE i == First(TopLevel(e, op))
  <2>1. TopLevel(e, op) \subseteq 1..Len(e) /\ Len(e) \in Nat
    BY LenProperties DEF TopLevel
  <2>2. TopLevel(e, op) \in SUBSET Nat
    BY <2>1
  <2>3. i \in TopLevel(e, op)
    BY <1>1, <2>2, FirstIs
  <2>4. i \in 1..Len(e)
    BY <2>1, <2>3
  <2> HIDE DEF i
  <2>5. Before(e, i) \in Shorter(e) /\ After(e, i) \in Shorter(e)
    BY <2>4, PartsShorter
  <2>6. v[Before(e, i)] = w[Before(e, i)] /\ v[After(e, i)] = w[After(e, i)]
    BY <2>5
  <2> QED
    BY <2>6 DEF i
<1>2. Wrapped(e) => v[SubSeq(e, 2, Len(e) - 1)] = w[SubSeq(e, 2, Len(e) - 1)]
  BY PartsShorter
<1>3. Len(e) > 1 => v[Tail(e)] = w[Tail(e)]
  BY PartsShorter
<1>4. CASE Wrapped(e)
  BY <1>2, <1>4, Zenon DEF ValueFrom
<1>5. CASE ~Wrapped(e) /\ TopLevel(e, "OR") # {}
  BY <1>1, <1>5, Zenon DEF ValueFrom
<1>6. CASE ~Wrapped(e) /\ TopLevel(e, "OR") = {} /\ TopLevel(e, "AND") # {}
  BY <1>1, <1>6, Zenon DEF ValueFrom
<1>7. CASE ~Wrapped(e) /\ TopLevel(e, "OR") = {} /\ TopLevel(e, "AND") = {}
  BY <1>3, <1>7, Zenon DEF ValueFrom
<1> QED
  BY <1>4, <1>5, <1>6, <1>7

\* The values of the texts of at most n tokens.
Values(g, n, x) == g = [e \in Short(n) |-> ValueFrom(g, e, x)]

LEMMA ShorterIsShort ==
  ASSUME NEW e \in Seq(Tokens), NEW n \in Nat, Len(e) <= n + 1
  PROVE  Shorter(e) \subseteq Short(n)
<1> SUFFICES ASSUME NEW d \in Shorter(e) PROVE d \in Short(n)
  OBVIOUS
<1>1. d \in Seq(Tokens) /\ Len(d) < Len(e)
  BY DEF Shorter
<1>2. Len(d) \in Nat /\ Len(e) \in Nat
  BY <1>1, LenProperties
<1>3. Len(d) <= n
  BY <1>1, <1>2
<1> QED
  BY <1>1, <1>3 DEF Short

LEMMA ValuesAgree ==
  ASSUME NEW x, NEW g, NEW h, NEW n \in Nat, NEW m \in Nat, Values(g, n, x), Values(h, m, x)
  PROVE  \A k \in Nat : k <= n /\ k <= m => \A e \in Short(k) : g[e] = h[e]
<1> DEFINE S == {k \in Nat : k <= n /\ k <= m => \A e \in Short(k) : g[e] = h[e]}
<1>1. ASSUME NEW k \in Nat, k <= n, k <= m, NEW e \in Short(k), \A d \in Shorter(e) : g[d] = h[d]
      PROVE  g[e] = h[e]
  <2>1. e \in Seq(Tokens) /\ Len(e) <= k /\ Len(e) \in Nat
    BY LenProperties DEF Short
  <2>2. e \in Short(n) /\ e \in Short(m)
    <3>1. Len(e) <= n /\ Len(e) <= m
      BY <1>1, <2>1
    <3> QED
      BY <2>1, <3>1 DEF Short
  <2>3. g[e] = ValueFrom(g, e, x)
    BY <2>2, Zenon DEF Values
  <2>4. h[e] = ValueFrom(h, e, x)
    BY <2>2, Zenon DEF Values
  <2>5. ValueFrom(g, e, x) = ValueFrom(h, e, x)
    BY <1>1, <2>1, ValueFromShorter
  <2> QED
    BY <2>3, <2>4, <2>5
<1>2. 0 \in S
  <2> SUFFICES ASSUME NEW e \in Short(0) PROVE g[e] = h[e]
    OBVIOUS
  <2>1. Shorter(e) = {}
    <3>1. e \in Seq(Tokens) /\ Len(e) <= 0 /\ Len(e) \in Nat
      BY LenProperties DEF Short
    <3>2. \A d \in Shorter(e) : Len(d) < Len(e) /\ Len(d) \in Nat
      BY LenProperties DEF Shorter
    <3> QED
      BY <3>1, <3>2
  <2> QED
    BY <1>1, <2>1
<1>3. ASSUME NEW k \in Nat, k \in S PROVE k + 1 \in S
  <2> SUFFICES ASSUME k + 1 <= n, k + 1 <= m, NEW e \in Short(k + 1) PROVE g[e] = h[e]
    OBVIOUS
  <2>1. k <= n /\ k <= m /\ k + 1 \in Nat
    OBVIOUS
  <2>2. e \in Seq(Tokens) /\ Len(e) <= k + 1
    BY DEF Short
  <2>3. \A d \in Shorter(e) : d \in Short(k)
    BY <2>2, ShorterIsShort
  <2>4. \A d \in Shorter(e) : g[d] = h[d]
    BY <1>3, <2>1, <2>3
  <2> QED
    BY <1>1, <2>1, <2>4
<1> HIDE DEF S
<1>4. Nat \subseteq S
  BY <1>2, <1>3, Counting
<1> QED
  BY <1>4 DEF S

LEMMA ValuesExist ==
  ASSUME NEW x, NEW n \in Nat
  PROVE  \E g : Values(g, n, x)
<1> DEFINE S == {k \in Nat : \E g : Values(g, k, x)}
<1>1. 0 \in S
  <2> DEFINE g == [e \in Short(0) |-> ValueFrom(<<>>, e, x)]
  <2>1. ASSUME NEW e \in Short(0) PROVE ValueFrom(<<>>, e, x) = ValueFrom(g, e, x)
    <3>1. e \in Seq(Tokens) /\ Len(e) <= 0 /\ Len(e) \in Nat
      BY LenProperties DEF Short
    <3>2. \A d \in Shorter(e) : Len(d) < Len(e) /\ Len(d) \in Nat
      BY LenProperties DEF Shorter
    <3>3. Shorter(e) = {}
      BY <3>1, <3>2
    <3> HIDE DEF g
    <3> QED
      BY <3>1, <3>3, ValueFromShorter
  <2>2. g = [e \in Short(0) |-> ValueFrom(g, e, x)]
    BY <2>1
  <2> HIDE DEF g
  <2>3. Values(g, 0, x)
    BY <2>2 DEF Values
  <2> QED
    BY <2>3
<1>2. ASSUME NEW k \in Nat, k \in S PROVE k + 1 \in S
  <2>1. PICK g : Values(g, k, x)
    BY <1>2
  <2> DEFINE h == [e \in Short(k + 1) |-> ValueFrom(g, e, x)]
  <2>2. ASSUME NEW d \in Short(k) PROVE h[d] = g[d]
    <3>1. d \in Short(k + 1)
      BY LenProperties DEF Short
    <3>2. h[d] = ValueFrom(g, d, x)
      BY <3>1
    <3>3. g[d] = ValueFrom(g, d, x)
      BY <2>1, Zenon DEF Values
    <3> QED
      BY <3>2, <3>3
  <2>3. ASSUME NEW e \in Short(k + 1) PROVE ValueFrom(g, e, x) = ValueFrom(h, e, x)
    <3>1. e \in Seq(Tokens) /\ Len(e) <= k + 1
      BY DEF Short
    <3>2. \A d \in Shorter(e) : d \in Short(k)
      BY <3>1, ShorterIsShort
    <3>3. \A d \in Shorter(e) : g[d] = h[d]
      BY <2>2, <3>2
    <3> HIDE DEF h
    <3> QED
      BY <3>1, <3>3, ValueFromShorter
  <2>4. h = [e \in Short(k + 1) |-> ValueFrom(h, e, x)]
    BY <2>3
  <2> HIDE DEF h
  <2>5. Values(h, k + 1, x)
    BY <2>4 DEF Values
  <2> QED
    BY <2>5
<1> HIDE DEF S
<1>3. Nat \subseteq S
  BY <1>1, <1>2, Counting
<1> QED
  BY <1>3 DEF S

\* The recursion of Eval has a value for every text, the one its text says.
LEMMA EvalUnfolds ==
  ASSUME NEW x
  PROVE  \E v : /\ \A e \in Seq(Tokens) : e # <<>> => Eval(e, x) = v[e]
                /\ v = [e \in Seq(Tokens) |-> ValueFrom(v, e, x)]
<1> DEFINE G == [n \in Nat |-> CHOOSE g : Values(g, n, x)]
           w == [e \in Seq(Tokens) |-> G[Len(e)][e]]
<1>1. \A n \in Nat : Values(G[n], n, x)
  BY ValuesExist
<1> HIDE DEF G
<1>2. ASSUME NEW e \in Seq(Tokens) PROVE w[e] = ValueFrom(w, e, x)
  <2> DEFINE n == Len(e)
  <2>1. n \in Nat /\ e \in Short(n)
    BY LenProperties DEF Short
  <2>2. w[e] = ValueFrom(G[n], e, x)
    <3>1. w[e] = G[n][e]
      OBVIOUS
    <3>2. Values(G[n], n, x)
      BY <1>1, <2>1
    <3>3. G[n][e] = ValueFrom(G[n], e, x)
      BY <2>1, <3>2, Zenon DEF Values
    <3> QED
      BY <3>1, <3>3
  <2>3. ASSUME NEW d \in Shorter(e) PROVE G[n][d] = w[d]
    <3> DEFINE m == Len(d)
    <3>1. d \in Seq(Tokens) /\ m < n
      BY DEF Shorter
    <3>2. m \in Nat /\ m <= n /\ d \in Short(m)
      BY <2>1, <3>1, LenProperties DEF Short
    <3>3. w[d] = G[m][d]
      BY <3>1
    <3> HIDE DEF m, n, w
    <3>4. Values(G[m], m, x) /\ Values(G[n], n, x)
      BY <1>1, <2>1, <3>2
    <3>5. G[m][d] = G[n][d]
      <4>1. m <= m
        BY <3>2
      <4> QED
        BY <2>1, <3>2, <3>4, <4>1, ValuesAgree
    <3> QED
      BY <3>3, <3>5
  <2> HIDE DEF w, n
  <2>4. ValueFrom(G[n], e, x) = ValueFrom(w, e, x)
    BY <2>3, ValueFromShorter
  <2> QED
    BY <2>2, <2>4
<1>3. w = [e \in Seq(Tokens) |-> ValueFrom(w, e, x)]
  BY <1>2
<1> HIDE DEF w
<1> DEFINE v == CHOOSE f : f = [e \in Seq(Tokens) |-> ValueFrom(f, e, x)]
<1>4. v = [e \in Seq(Tokens) |-> ValueFrom(v, e, x)]
  BY <1>3
<1>5. \A e : e # <<>> => Eval(e, x) = v[e]
  BY DEF Eval, ValueFrom
<1> QED
  BY <1>4, <1>5

-----------------------------------------------------------------------------
\* Texts with a meaning b: any, one without OR outside parentheses, one without AND as well.
IsSum(e, b, x)  == b \in BOOLEAN /\ Closed(e) /\ Eval(e, x) = Truth(b)
IsTerm(e, b, x) == IsSum(e, b, x) /\ TopLevel(e, "OR") = {}
IsUnit(e, b, x) == IsTerm(e, b, x) /\ TopLevel(e, "AND") = {}

LEMMA EvalRules ==
  ASSUME NEW x, NEW e \in Seq(Tokens), e # <<>>
  PROVE  /\ Wrapped(e) /\ SubSeq(e, 2, Len(e) - 1) # <<>> => Eval(e, x) = Eval(SubSeq(e, 2, Len(e) - 1), x)
         /\ \A i \in 1..Len(e) :
              ~Wrapped(e) /\ TopLevel(e, "OR") # {} /\ First(TopLevel(e, "OR")) = i /\ Before(e, i) # <<>> /\ After(e, i) # <<>> =>
                Eval(e, x) = IF Eval(Before(e, i), x) = "false" THEN Eval(After(e, i), x) ELSE Eval(Before(e, i), x)
         /\ \A i \in 1..Len(e) :
              ~Wrapped(e) /\ TopLevel(e, "OR") = {} /\ TopLevel(e, "AND") # {} /\ First(TopLevel(e, "AND")) = i
                /\ Before(e, i) # <<>> /\ After(e, i) # <<>> =>
                Eval(e, x) = IF Eval(Before(e, i), x) = "true" THEN Eval(After(e, i), x) ELSE Eval(Before(e, i), x)
         /\ ~Wrapped(e) /\ TopLevel(e, "OR") = {} /\ TopLevel(e, "AND") = {} /\ Len(e) > 1 /\ e[1] = "NOT" /\ Tail(e) # <<>> =>
              Eval(e, x) = Negated(Eval(Tail(e), x))
         /\ ~Wrapped(e) /\ TopLevel(e, "OR") = {} /\ TopLevel(e, "AND") = {} /\ Len(e) = 1 => Eval(e, x) = AtomValue(e[1], x)
<1>1. PICK v : /\ \A d \in Seq(Tokens) : d # <<>> => Eval(d, x) = v[d]
               /\ v = [d \in Seq(Tokens) |-> ValueFrom(v, d, x)]
  BY EvalUnfolds
<1>2. Eval(e, x) = ValueFrom(v, e, x)
  <2>1. v[e] = ValueFrom(v, e, x)
    BY <1>1, Zenon
  <2> QED
    BY <1>1, <2>1
<1>3. ASSUME NEW d \in Shorter(e), d # <<>> PROVE v[d] = Eval(d, x)
  BY <1>1, <1>3 DEF Shorter
<1>4. ASSUME Wrapped(e), SubSeq(e, 2, Len(e) - 1) # <<>> PROVE Eval(e, x) = Eval(SubSeq(e, 2, Len(e) - 1), x)
  <2>1. v[SubSeq(e, 2, Len(e) - 1)] = Eval(SubSeq(e, 2, Len(e) - 1), x)
    BY <1>3, <1>4, PartsShorter
  <2>2. ValueFrom(v, e, x) = v[SubSeq(e, 2, Len(e) - 1)]
    BY <1>4, Zenon DEF ValueFrom
  <2> QED
    BY <1>2, <2>1, <2>2, Zenon
<1>5. ASSUME NEW i \in 1..Len(e), ~Wrapped(e), TopLevel(e, "OR") # {}, First(TopLevel(e, "OR")) = i, Before(e, i) # <<>>, After(e, i) # <<>>
      PROVE  Eval(e, x) = IF Eval(Before(e, i), x) = "false" THEN Eval(After(e, i), x) ELSE Eval(Before(e, i), x)
  <2>1. v[Before(e, i)] = Eval(Before(e, i), x) /\ v[After(e, i)] = Eval(After(e, i), x)
    BY <1>3, <1>5, PartsShorter
  <2>2. ValueFrom(v, e, x) = IF v[Before(e, i)] = "false" THEN v[After(e, i)] ELSE v[Before(e, i)]
    BY <1>5, Zenon DEF ValueFrom
  <2> QED
    BY <1>2, <2>1, <2>2, Zenon
<1>6. ASSUME NEW i \in 1..Len(e), ~Wrapped(e), TopLevel(e, "OR") = {}, TopLevel(e, "AND") # {}, First(TopLevel(e, "AND")) = i,
             Before(e, i) # <<>>, After(e, i) # <<>>
      PROVE  Eval(e, x) = IF Eval(Before(e, i), x) = "true" THEN Eval(After(e, i), x) ELSE Eval(Before(e, i), x)
  <2>1. v[Before(e, i)] = Eval(Before(e, i), x) /\ v[After(e, i)] = Eval(After(e, i), x)
    BY <1>3, <1>6, PartsShorter
  <2>2. ValueFrom(v, e, x) = IF v[Before(e, i)] = "true" THEN v[After(e, i)] ELSE v[Before(e, i)]
    BY <1>6, Zenon DEF ValueFrom
  <2> QED
    BY <1>2, <2>1, <2>2, Zenon
<1>7. ASSUME ~Wrapped(e), TopLevel(e, "OR") = {}, TopLevel(e, "AND") = {}, Len(e) > 1, e[1] = "NOT", Tail(e) # <<>>
      PROVE  Eval(e, x) = Negated(Eval(Tail(e), x))
  <2>1. v[Tail(e)] = Eval(Tail(e), x)
    BY <1>3, <1>7, PartsShorter
  <2>2. ValueFrom(v, e, x) = Negated(v[Tail(e)])
    BY <1>7, Zenon DEF ValueFrom
  <2> QED
    BY <1>2, <2>1, <2>2, Zenon
<1>8. ASSUME ~Wrapped(e), TopLevel(e, "OR") = {}, TopLevel(e, "AND") = {}, Len(e) = 1
      PROVE  Eval(e, x) = AtomValue(e[1], x)
  <2>1. ~(Len(e) > 1)
    BY <1>8
  <2>2. ValueFrom(v, e, x) = AtomValue(e[1], x)
    BY <1>8, <2>1, Zenon DEF ValueFrom
  <2> QED
    BY <1>2, <2>2, Zenon
<1> QED
  BY <1>4, <1>5, <1>6, <1>7, <1>8

LEMMA AreTokens ==
  /\ "OR" \in Tokens /\ "AND" \in Tokens /\ "NOT" \in Tokens /\ "(" \in Tokens /\ ")" \in Tokens
  /\ "approvals >= 2" \in Tokens /\ "ci == success" \in Tokens /\ "conflict" \in Tokens
  /\ "core_approved >= 1" \in Tokens /\ "author IN core_contributors" \in Tokens
BY DEF Tokens, Words, Comparisons

LEMMA TruthOr ==
  ASSUME NEW b \in BOOLEAN, NEW c \in BOOLEAN
  PROVE  /\ Truth(b \/ c) = IF Truth(b) = "false" THEN Truth(c) ELSE Truth(b)
         /\ Truth(b /\ c) = IF Truth(b) = "true" THEN Truth(c) ELSE Truth(b)
         /\ Truth(~b) = Negated(Truth(b))
BY DEF Truth, Negated

\* p OR q, and p AND q
LEMMA OrMeans ==
  ASSUME NEW x, NEW p, NEW q, NEW b, NEW c, IsTerm(p, b, x), IsSum(q, c, x)
  PROVE  IsSum(p \o <<"OR">> \o q, b \/ c, x)
<1> DEFINE e == p \o <<"OR">> \o q
           i == Len(p) + 1
<1>1. p \in Seq(Tokens) /\ q \in Seq(Tokens) /\ p # <<>> /\ q # <<>> /\ Closed(p) /\ Closed(q) /\ "OR" \in Tokens /\ "OR" \notin {"(", ")"}
  <2>1. Closed(p) /\ Closed(q)
    BY DEF IsTerm, IsSum
  <2>2. p \in Seq(Tokens) /\ q \in Seq(Tokens) /\ p # <<>> /\ q # <<>>
    BY <2>1, Zenon DEF Closed
  <2>3. "OR" \notin {"(", ")"}
    OBVIOUS
  <2> QED
    BY <2>1, <2>2, <2>3, AreTokens
<1>2. e \in Seq(Tokens) /\ IsJoin(e, p, "OR", q)
  BY <1>1, Joined
<1> HIDE DEF e
<1>3. Closed(e) /\ ~Wrapped(e) /\ i \in 1..Len(e)
  BY <1>1, <1>2, JoinClosed
<1>4. TopLevel(e, "OR") # {} /\ First(TopLevel(e, "OR")) = i
  BY <1>1, <1>2, JoinSplit DEF IsTerm
<1>5. Before(e, i) = p /\ After(e, i) = q
  BY <1>2 DEF IsJoin
<1> HIDE DEF i
<1>6. Eval(e, x) = IF Eval(p, x) = "false" THEN Eval(q, x) ELSE Eval(p, x)
  <2>1. e # <<>>
    BY <1>3 DEF Closed
  <2>2. Eval(e, x) = IF Eval(Before(e, i), x) = "false" THEN Eval(After(e, i), x) ELSE Eval(Before(e, i), x)
    BY <1>1, <1>2, <1>3, <1>4, <1>5, <2>1, EvalRules
  <2> QED
    BY <1>5, <2>2, Zenon
<1>7. b \in BOOLEAN /\ c \in BOOLEAN /\ Eval(p, x) = Truth(b) /\ Eval(q, x) = Truth(c)
  BY DEF IsTerm, IsSum
<1>8. Eval(e, x) = Truth(b \/ c)
  <2>1. Truth(b \/ c) = IF Truth(b) = "false" THEN Truth(c) ELSE Truth(b)
    BY <1>7, TruthOr
  <2> QED
    BY <1>6, <1>7, <2>1, Zenon
<1>9. (b \/ c) \in BOOLEAN
  OBVIOUS
<1>10. IsSum(e, b \/ c, x)
  BY <1>3, <1>8, <1>9 DEF IsSum
<1> QED
  BY <1>10 DEF e

LEMMA AndMeans ==
  ASSUME NEW x, NEW p, NEW q, NEW b, NEW c, IsUnit(p, b, x), IsTerm(q, c, x)
  PROVE  IsTerm(p \o <<"AND">> \o q, b /\ c, x)
<1> DEFINE e == p \o <<"AND">> \o q
           i == Len(p) + 1
<1>1. p \in Seq(Tokens) /\ q \in Seq(Tokens) /\ p # <<>> /\ q # <<>> /\ Closed(p) /\ Closed(q) /\ "AND" \in Tokens /\ "AND" \notin {"(", ")"}
  <2>1. Closed(p) /\ Closed(q)
    BY DEF IsUnit, IsTerm, IsSum
  <2>2. p \in Seq(Tokens) /\ q \in Seq(Tokens) /\ p # <<>> /\ q # <<>>
    BY <2>1, Zenon DEF Closed
  <2>3. "AND" \notin {"(", ")"}
    OBVIOUS
  <2> QED
    BY <2>1, <2>2, <2>3, AreTokens
<1>2. e \in Seq(Tokens) /\ IsJoin(e, p, "AND", q)
  BY <1>1, Joined
<1> HIDE DEF e
<1>3. Closed(e) /\ ~Wrapped(e) /\ i \in 1..Len(e)
  BY <1>1, <1>2, JoinClosed
<1>4. TopLevel(e, "AND") # {} /\ First(TopLevel(e, "AND")) = i
  BY <1>1, <1>2, JoinSplit DEF IsUnit
<1>5. TopLevel(e, "OR") = {}
  BY <1>1, <1>2, JoinWithout DEF IsUnit, IsTerm
<1>6. Before(e, i) = p /\ After(e, i) = q
  BY <1>2 DEF IsJoin
<1> HIDE DEF i
<1>7. Eval(e, x) = IF Eval(p, x) = "true" THEN Eval(q, x) ELSE Eval(p, x)
  <2>1. e # <<>>
    BY <1>3 DEF Closed
  <2>2. Eval(e, x) = IF Eval(Before(e, i), x) = "true" THEN Eval(After(e, i), x) ELSE Eval(Before(e, i), x)
    BY <1>1, <1>2, <1>3, <1>4, <1>5, <1>6, <2>1, EvalRules
  <2> QED
    BY <1>6, <2>2, Zenon
<1>8. b \in BOOLEAN /\ c \in BOOLEAN /\ Eval(p, x) = Truth(b) /\ Eval(q, x) = Truth(c)
  BY DEF IsUnit, IsTerm, IsSum
<1>9. Eval(e, x) = Truth(b /\ c)
  <2>1. Truth(b /\ c) = IF Truth(b) = "true" THEN Truth(c) ELSE Truth(b)
    BY <1>8, TruthOr
  <2> QED
    BY <1>7, <1>8, <2>1, Zenon
<1>10. (b /\ c) \in BOOLEAN
  OBVIOUS
<1>11. IsTerm(e, b /\ c, x)
  BY <1>3, <1>5, <1>9, <1>10 DEF IsTerm, IsSum
<1> QED
  BY <1>11 DEF e

\* A comparison alone
LEMMA AtomMeans ==
  ASSUME NEW x, NEW s \in Tokens, NEW b \in BOOLEAN, s \notin {"(", ")", "OR", "AND"}, AtomValue(s, x) = Truth(b)
  PROVE  IsUnit(<<s>>, b, x)
<1> DEFINE e == <<s>>
<1>1. e \in Seq(Tokens) /\ Len(e) = 1 /\ e[1] = s
  BY SingleText
<1> HIDE DEF e
<1>2. e # <<>>
  <2>1. Len(e) > 0
    BY <1>1
  <2> QED
    BY <1>1, <2>1, NotEmpty
<1>3. Opened(e, 0) = 0 /\ Opened(e, 1) = 0
  <2>1. Opened(e, 0) = 0 /\ Opened(e, 0 + 1) = Opened(e, 0) + Turn(e[0 + 1])
    BY OpenedMore
  <2>2. 0 + 1 = 1 /\ Turn(s) = 0
    BY DEF Turn
  <2> QED
    BY <1>1, <2>1, <2>2
<1>4. Closed(e)
  <2>1. \A i \in 0..1 : i = 0 \/ i = 1
    OBVIOUS
  <2>2. \A i \in 0..1 : Opened(e, i) >= 0
    BY <1>3, <2>1
  <2> QED
    BY <1>1, <1>2, <1>3, <2>2 DEF Closed
<1>5. ~Wrapped(e)
  BY <1>1 DEF Wrapped
<1>6. TopLevel(e, "OR") = {} /\ TopLevel(e, "AND") = {}
  <2>1. \A i \in 1..Len(e) : e[i] = s
    BY <1>1
  <2> QED
    BY <2>1 DEF TopLevel
<1>7. Eval(e, x) = AtomValue(s, x)
  BY <1>1, <1>2, <1>5, <1>6, EvalRules
<1>8. IsUnit(e, b, x)
  BY <1>4, <1>6, <1>7 DEF IsUnit, IsTerm, IsSum
<1> QED
  BY <1>8 DEF e

\* One part after another
IsPrefixed(e, s, p) ==
  Len(e) = 1 + Len(p) /\ e[1] = s /\ \A i \in 1..Len(p) : e[1 + i] = p[i]

LEMMA Prefixed ==
  ASSUME NEW S, NEW p \in Seq(S), NEW s \in S
  PROVE  <<s>> \o p \in Seq(S) /\ IsPrefixed(<<s>> \o p, s, p)
<1> DEFINE one == <<s>>
           e == one \o p
<1>1. one \in Seq(S) /\ Len(one) = 1 /\ one[1] = s
  BY SingleText
<1> HIDE DEF one
<1>2. /\ e \in Seq(S) /\ Len(e) = Len(one) + Len(p)
      /\ \A i \in 1..Len(one) + Len(p) : e[i] = IF i <= Len(one) THEN one[i] ELSE p[i - Len(one)]
  BY <1>1, ConcatProperties
<1>3. Len(p) \in Nat
  BY LenProperties
<1> HIDE DEF e
<1>4. e[1] = s
  <2>1. 1 \in 1..Len(one) + Len(p) /\ 1 <= Len(one)
    BY <1>1, <1>3
  <2> QED
    BY <1>1, <1>2, <2>1
<1>5. \A i \in 1..Len(p) : e[1 + i] = p[i]
  <2> TAKE i \in 1..Len(p)
  <2>1. 1 + i \in 1..Len(one) + Len(p) /\ ~(1 + i <= Len(one)) /\ (1 + i) - Len(one) = i
    BY <1>1, <1>3
  <2> QED
    BY <1>2, <2>1
<1> QED
  BY <1>1, <1>2, <1>4, <1>5 DEF e, one, IsPrefixed

\* NOT p
LEMMA NotMeans ==
  ASSUME NEW x, NEW p, NEW b, IsUnit(p, b, x)
  PROVE  IsUnit(<<"NOT">> \o p, ~b, x)
<1> DEFINE e == <<"NOT">> \o p
           m == Len(p)
<1>1. Closed(p) /\ p \in Seq(Tokens) /\ p # <<>> /\ b \in BOOLEAN /\ Eval(p, x) = Truth(b)
  <2>1. Closed(p) /\ b \in BOOLEAN /\ Eval(p, x) = Truth(b)
    BY DEF IsUnit, IsTerm, IsSum
  <2> QED
    BY <2>1, Zenon DEF Closed
<1>2. e \in Seq(Tokens) /\ Len(e) = 1 + m /\ e[1] = "NOT" /\ \A i \in 1..m : e[1 + i] = p[i]
  <2>1. e \in Seq(Tokens) /\ IsPrefixed(e, "NOT", p)
    BY <1>1, AreTokens, Prefixed
  <2> QED
    BY <2>1 DEF IsPrefixed
<1>3. m \in Nat /\ m > 0
  BY <1>1, NotEmpty
<1>4. \A i \in 0..m : Opened(p, i) >= 0 /\ Opened(p, i) \in Int
  BY <1>1, OpenedMore DEF Closed
<1>5. Opened(p, m) = 0
  BY <1>1 DEF Closed
<1> HIDE DEF e, m
<1>6. Opened(e, 0) = 0 /\ Opened(e, 1) = 0
  <2>1. Opened(e, 0) = 0 /\ Opened(e, 0 + 1) = Opened(e, 0) + Turn(e[0 + 1])
    BY OpenedMore
  <2>2. 0 + 1 = 1 /\ Turn("NOT") = 0
    BY DEF Turn
  <2> QED
    BY <1>2, <2>1, <2>2
<1>7. \A i \in 0..m : Opened(e, 1 + i) = Opened(p, i)
  <2>1. Continues(e, 1, p, m)
    BY <1>2 DEF Continues
  <2>2. \A i \in 0..m : Opened(e, 1 + i) = Opened(e, 1) + Opened(p, i)
    BY <1>3, <2>1, OpenedOn
  <2> QED
    BY <1>4, <1>6, <2>2
<1>8. e # <<>>
  <2>1. Len(e) > 0
    BY <1>2, <1>3
  <2> QED
    BY <1>2, <2>1, NotEmpty
<1>9. Closed(e)
  <2>1. \A i \in 0..1 + m : Opened(e, i) >= 0
    <3> TAKE i \in 0..1 + m
    <3>1. CASE i = 0
      BY <1>6, <3>1
    <3>2. CASE i # 0
      <4> DEFINE k == i - 1
      <4>1. k \in 0..m /\ i = 1 + k
        BY <1>3, <3>2
      <4> HIDE DEF k
      <4>2. Opened(e, i) = Opened(p, k)
        BY <1>7, <4>1
      <4> QED
        BY <1>4, <4>1, <4>2
    <3> QED
      BY <3>1, <3>2
  <2>2. Opened(e, 1 + m) = 0
    <3>1. m \in 0..m
      BY <1>3
    <3> QED
      BY <1>5, <1>7, <3>1
  <2> QED
    BY <1>2, <1>8, <2>1, <2>2 DEF Closed
<1>10. ~Wrapped(e)
  <2>1. "NOT" # "("
    OBVIOUS
  <2> QED
    BY <1>2, <2>1 DEF Wrapped
<1>11. ASSUME NEW op, op # "NOT", TopLevel(p, op) = {} PROVE TopLevel(e, op) = {}
  <2>1. ASSUME NEW i \in TopLevel(e, op) PROVE FALSE
    <3>1. i \in 1..1 + m /\ e[i] = op /\ Opened(e, i) = 0
      BY <1>2, <2>1 DEF TopLevel
    <3> DEFINE k == i - 1
    <3>2. i # 1
      BY <1>2, <1>11, <3>1
    <3>3. k \in 1..m /\ k \in 0..m /\ i = 1 + k
      BY <1>3, <3>1, <3>2
    <3> HIDE DEF k
    <3>4. p[k] = op /\ Opened(p, k) = 0
      BY <1>2, <1>7, <3>1, <3>3
    <3>5. k \in TopLevel(p, op)
      BY <3>3, <3>4 DEF TopLevel, m
    <3> QED
      BY <1>11, <3>5
  <2> QED
    BY <2>1
<1>12. TopLevel(e, "OR") = {} /\ TopLevel(e, "AND") = {}
  <2>1. "OR" # "NOT" /\ "AND" # "NOT"
    OBVIOUS
  <2>2. TopLevel(p, "OR") = {} /\ TopLevel(p, "AND") = {}
    BY DEF IsUnit, IsTerm
  <2> QED
    BY <1>11, <2>1, <2>2
<1>13. Tail(e) = p
  <2> DEFINE t == Tail(e)
  <2>1. t \in Seq(Tokens) /\ Len(t) = Len(e) - 1 /\ \A i \in 1..Len(t) : t[i] = e[i + 1]
    BY <1>2, <1>8, HeadTailProperties
  <2> HIDE DEF t
  <2>2. Len(t) = m
    BY <1>2, <1>3, <2>1
  <2>3. \A i \in 1..Len(t) : t[i] = p[i]
    <3> TAKE i \in 1..Len(t)
    <3>1. i \in 1..m /\ i + 1 = 1 + i
      BY <2>2
    <3> QED
      BY <1>2, <2>1, <3>1
  <2>4. t = p
    BY <1>1, <2>1, <2>2, <2>3, SeqEqual DEF m
  <2> QED
    BY <2>4 DEF t
<1>14. Eval(e, x) = Truth(~b)
  <2>1. Len(e) > 1
    BY <1>2, <1>3
  <2>2. Eval(e, x) = Negated(Eval(Tail(e), x))
    BY <1>1, <1>2, <1>8, <1>10, <1>12, <1>13, <2>1, EvalRules
  <2>3. Truth(~b) = Negated(Truth(b))
    BY <1>1, TruthOr
  <2> QED
    BY <1>1, <1>13, <2>2, <2>3, Zenon
<1>15. (~b) \in BOOLEAN
  OBVIOUS
<1>16. IsUnit(e, ~b, x)
  BY <1>9, <1>12, <1>14, <1>15 DEF IsUnit, IsTerm, IsSum
<1> QED
  BY <1>16 DEF e

\* (p)
LEMMA ParenMeans ==
  ASSUME NEW x, NEW p, NEW b, IsSum(p, b, x)
  PROVE  IsUnit(<<"(">> \o p \o <<")">>, b, x)
<1> DEFINE h == <<"(">> \o p
           one == <<")">>
           e == h \o one
           m == Len(p)
<1>1. Closed(p) /\ p \in Seq(Tokens) /\ p # <<>> /\ b \in BOOLEAN /\ Eval(p, x) = Truth(b)
  <2>1. Closed(p) /\ b \in BOOLEAN /\ Eval(p, x) = Truth(b)
    BY DEF IsSum
  <2> QED
    BY <2>1, Zenon DEF Closed
<1>2. h \in Seq(Tokens) /\ Len(h) = 1 + m /\ h[1] = "(" /\ \A i \in 1..m : h[1 + i] = p[i]
  <2>1. h \in Seq(Tokens) /\ IsPrefixed(h, "(", p)
    BY <1>1, AreTokens, Prefixed
  <2> QED
    BY <2>1 DEF IsPrefixed
<1>3. one \in Seq(Tokens) /\ Len(one) = 1 /\ one[1] = ")"
  BY AreTokens, SingleText
<1>4. m \in Nat /\ m > 0
  BY <1>1, NotEmpty
<1>5. \A i \in 0..m : Opened(p, i) >= 0 /\ Opened(p, i) \in Int
  BY <1>1, OpenedMore DEF Closed
<1>6. Opened(p, m) = 0
  BY <1>1 DEF Closed
<1> HIDE DEF h, one
<1>7. e \in Seq(Tokens) /\ Len(e) = m + 2 /\ e[1] = "(" /\ e[m + 2] = ")" /\ \A i \in 1..m : e[1 + i] = p[i]
  <2>1. h \in Seq(Tokens) /\ one \in Seq(Tokens)
    BY <1>2, <1>3
  <2>2. /\ e \in Seq(Tokens) /\ Len(e) = Len(h) + Len(one)
        /\ \A i \in 1..Len(h) + Len(one) : e[i] = IF i <= Len(h) THEN h[i] ELSE one[i - Len(h)]
    BY <2>1, ConcatProperties
  <2> HIDE DEF e, m
  <2>3. Len(h) = 1 + m /\ Len(one) = 1 /\ Len(e) = m + 2
    BY <1>2, <1>3, <1>4, <2>2
  <2>4. e[1] = "("
    <3>1. 1 \in 1..Len(h) + Len(one) /\ 1 <= Len(h)
      BY <1>4, <2>3
    <3> QED
      BY <1>2, <2>2, <3>1
  <2>5. e[m + 2] = ")"
    <3>1. m + 2 \in 1..Len(h) + Len(one) /\ ~(m + 2 <= Len(h)) /\ (m + 2) - Len(h) = 1
      BY <1>4, <2>3
    <3> QED
      BY <1>3, <2>2, <3>1
  <2>6. \A i \in 1..m : e[1 + i] = p[i]
    <3> TAKE i \in 1..m
    <3>1. 1 + i \in 1..Len(h) + Len(one) /\ 1 + i <= Len(h)
      BY <1>4, <2>3
    <3> QED
      BY <1>2, <2>2, <3>1
  <2> QED
    BY <2>2, <2>3, <2>4, <2>5, <2>6
<1> HIDE DEF e, m
<1>8. Opened(e, 0) = 0 /\ Opened(e, 1) = 1
  <2>1. Opened(e, 0) = 0 /\ Opened(e, 0 + 1) = Opened(e, 0) + Turn(e[0 + 1])
    BY OpenedMore
  <2>2. 0 + 1 = 1 /\ Turn("(") = 1
    BY DEF Turn
  <2> QED
    BY <1>7, <2>1, <2>2
<1>9. \A i \in 0..m : Opened(e, 1 + i) = 1 + Opened(p, i)
  <2>1. Continues(e, 1, p, m)
    BY <1>7 DEF Continues
  <2>2. \A i \in 0..m : Opened(e, 1 + i) = Opened(e, 1) + Opened(p, i)
    BY <1>4, <2>1, OpenedOn
  <2> QED
    BY <1>8, <2>2
<1>10. Opened(e, m + 2) = 0
  <2> DEFINE k == 1 + m
  <2>1. k \in Nat /\ k + 1 = m + 2 /\ m \in 0..m
    BY <1>4
  <2>2. Opened(e, k) = 1
    BY <1>6, <1>9, <2>1
  <2> HIDE DEF k
  <2>3. Opened(e, k + 1) = Opened(e, k) + Turn(e[k + 1])
    BY <2>1, OpenedMore
  <2>4. Turn(")") = -1
    BY DEF Turn
  <2> QED
    BY <1>7, <2>1, <2>2, <2>3, <2>4
<1>11. ASSUME NEW i \in 1..m + 1 PROVE Opened(e, i) >= 1
  <2> DEFINE k == i - 1
  <2>1. k \in 0..m /\ i = 1 + k
    BY <1>4
  <2> HIDE DEF k
  <2>2. Opened(e, i) = 1 + Opened(p, k)
    BY <1>9, <2>1
  <2>3. Opened(p, k) >= 0 /\ Opened(p, k) \in Int
    BY <1>5, <2>1
  <2> QED
    BY <2>2, <2>3
<1>12. e # <<>>
  <2>1. Len(e) > 0
    BY <1>4, <1>7
  <2> QED
    BY <1>7, <2>1, NotEmpty
<1>13. Closed(e)
  <2>1. \A i \in 0..m + 2 : Opened(e, i) >= 0
    <3> TAKE i \in 0..m + 2
    <3>1. i = 0 \/ i = m + 2 \/ i \in 1..m + 1
      BY <1>4
    <3>2. CASE i \in 1..m + 1
      <4>1. Opened(e, i) >= 1 /\ Opened(e, i) \in Int
        BY <1>11, <3>2, OpenedMore
      <4> QED
        BY <4>1
    <3> QED
      BY <1>8, <1>10, <3>1, <3>2
  <2> QED
    BY <1>7, <1>10, <1>12, <2>1 DEF Closed
<1>14. Wrapped(e)
  <2>1. Len(e) > 1 /\ Len(e) - 1 = m + 1
    BY <1>4, <1>7
  <2>2. \A i \in 1..m + 1 : Opened(e, i) # 0
    BY <1>11
  <2> QED
    BY <1>7, <1>10, <2>1, <2>2 DEF Wrapped
<1>15. ASSUME NEW op, op \notin {"(", ")"} PROVE TopLevel(e, op) = {}
  <2>1. ASSUME NEW i \in TopLevel(e, op) PROVE FALSE
    <3>1. i \in 1..m + 2 /\ e[i] = op /\ Opened(e, i) = 0
      BY <1>7, <2>1 DEF TopLevel
    <3>2. i = m + 2 \/ i \in 1..m + 1
      BY <1>4, <3>1
    <3>3. i # m + 2
      BY <1>7, <1>15, <3>1
    <3>4. Opened(e, i) >= 1
      BY <1>11, <3>2, <3>3
    <3> QED
      BY <3>1, <3>4
  <2> QED
    BY <2>1
<1>16. TopLevel(e, "OR") = {} /\ TopLevel(e, "AND") = {}
  <2>1. "OR" \notin {"(", ")"} /\ "AND" \notin {"(", ")"}
    OBVIOUS
  <2> QED
    BY <1>15, <2>1
<1>17. SubSeq(e, 2, Len(e) - 1) = p
  <2> DEFINE n == m + 1
             t == SubSeq(e, 2, n)
  <2>1. n \in Nat /\ n = m + 1 /\ Len(e) - 1 = n
    BY <1>4, <1>7
  <2>2. \A i \in 2..n : e[i] \in Tokens
    <3>1. \A i \in 2..n : i \in 1..Len(e)
      BY <1>4, <1>7, <2>1
    <3> QED
      BY <3>1, <1>7, ElementOfSeq
  <2> HIDE DEF n
  <2>3. /\ t \in Seq(Tokens) /\ Len(t) = IF 2 <= n THEN n - 2 + 1 ELSE 0
        /\ \A i \in 1..n - 2 + 1 : t[i] = e[2 + i - 1]
    BY <2>1, <2>2, SubSeqProperties
  <2> HIDE DEF t
  <2>4. Len(t) = m
    BY <1>4, <2>1, <2>3
  <2>5. \A i \in 1..Len(t) : t[i] = p[i]
    <3> TAKE i \in 1..Len(t)
    <3>1. i \in 1..m /\ i \in 1..n - 2 + 1 /\ 2 + i - 1 = 1 + i
      BY <1>4, <2>1, <2>4
    <3> QED
      BY <1>7, <2>3, <3>1
  <2>6. t = p
    BY <1>1, <2>3, <2>4, <2>5, SeqEqual DEF m
  <2> QED
    BY <2>1, <2>6 DEF t
<1>18. Eval(e, x) = Truth(b)
  <2>1. Eval(e, x) = Eval(SubSeq(e, 2, Len(e) - 1), x)
    BY <1>1, <1>7, <1>12, <1>14, <1>17, EvalRules
  <2> QED
    BY <1>1, <1>17, <2>1, Zenon
<1>19. IsUnit(e, b, x)
  BY <1>1, <1>13, <1>16, <1>18 DEF IsUnit, IsTerm, IsSum
<1> QED
  BY <1>19 DEF e, h, one

-----------------------------------------------------------------------------
\* The language of merge expressions, each with its meaning in context x

Sentences == [text : Seq(Tokens), means : BOOLEAN]

Simple(x) == Atoms(x) \cup {Form(<<"conflict">>, x.conflict), Form(<<"core_approved >= 1">>, x.core >= 1),
                            Form(<<"author IN core_contributors">>, FALSE)}

\* u, t and s have what the grammar makes of them: NOT and parentheses, AND, OR.
Grammar(u, t, s, x) ==
  /\ Simple(x) \subseteq u /\ Nots(u) \subseteq u /\ Parens(s) \subseteq u
  /\ u \subseteq t /\ Ands(u, t) \subseteq t
  /\ t \subseteq s /\ Ors(t, s) \subseteq s

\* What every such set has, and therefore all that can be written.
Expressions(x) ==
  {f \in Sentences : \A u, t, s \in SUBSET Sentences : Grammar(u, t, s, x) => f \in s}

Units(x) == {f \in Sentences : IsUnit(f.text, f.means, x)}
Terms(x) == {f \in Sentences : IsTerm(f.text, f.means, x)}
Sums(x)  == {f \in Sentences : IsSum(f.text, f.means, x)}

LEMMA Pairs ==
  ASSUME NEW S, NEW T, NEW f
  PROVE  /\ f \in Ands(S, T) <=> \E p \in S, q \in T : f = Both(p, q)
         /\ f \in Ors(S, T) <=> \E p \in S, q \in T : f = Either(p, q)
BY DEF Ands, Ors

LEMMA IsSentence ==
  ASSUME NEW x, NEW e, NEW b, IsSum(e, b, x)
  PROVE  Form(e, b) \in Sentences /\ Form(e, b).text = e /\ Form(e, b).means = b
BY DEF IsSum, Closed, Form, Sentences

LEMMA SimpleMeans ==
  ASSUME NEW x, x.conflict \in BOOLEAN
  PROVE  Simple(x) \subseteq Units(x)
<1>1. ASSUME NEW s \in Comparisons, NEW b \in BOOLEAN, AtomValue(s, x) = Truth(b)
      PROVE  Form(<<s>>, b) \in Units(x)
  <2>1. s \in Tokens /\ s \notin {"(", ")", "OR", "AND"}
    BY DEF Comparisons, Tokens
  <2>2. IsUnit(<<s>>, b, x)
    BY <1>1, <2>1, AtomMeans
  <2>3. IsSum(<<s>>, b, x)
    BY <2>2 DEF IsUnit, IsTerm
  <2>4. Form(<<s>>, b) \in Sentences /\ Form(<<s>>, b).text = <<s>> /\ Form(<<s>>, b).means = b
    BY <2>3, IsSentence
  <2> QED
    BY <2>2, <2>4, Zenon DEF Units
<1>2. Form(<<"approvals >= 2">>, x.approvals >= 2) \in Units(x)
  <2>1. (x.approvals >= 2) \in BOOLEAN
    OBVIOUS
  <2>2. AtomValue("approvals >= 2", x) = Truth(x.approvals >= 2)
    BY DEF AtomValue
  <2>3. "approvals >= 2" \in Comparisons
    BY DEF Comparisons
  <2> QED
    BY <1>1, <2>1, <2>2, <2>3
<1>3. Form(<<"ci == success">>, x.ci = "success") \in Units(x)
  <2>1. (x.ci = "success") \in BOOLEAN
    OBVIOUS
  <2>2. AtomValue("ci == success", x) = Truth(x.ci = "success")
    BY DEF AtomValue
  <2>3. "ci == success" \in Comparisons
    BY DEF Comparisons
  <2> QED
    BY <1>1, <2>1, <2>2, <2>3
<1>4. Form(<<"conflict">>, x.conflict) \in Units(x)
  <2>1. AtomValue("conflict", x) = Truth(x.conflict)
    BY DEF AtomValue
  <2>2. "conflict" \in Comparisons
    BY DEF Comparisons
  <2> QED
    BY <1>1, <2>1, <2>2
<1>5. Form(<<"core_approved >= 1">>, x.core >= 1) \in Units(x)
  <2>1. (x.core >= 1) \in BOOLEAN
    OBVIOUS
  <2>2. AtomValue("core_approved >= 1", x) = Truth(x.core >= 1)
    BY DEF AtomValue
  <2>3. "core_approved >= 1" \in Comparisons
    BY DEF Comparisons
  <2> QED
    BY <1>1, <2>1, <2>2, <2>3
<1>6. Form(<<"author IN core_contributors">>, FALSE) \in Units(x)
  <2>1. AtomValue("author IN core_contributors", x) = Truth(FALSE)
    BY DEF AtomValue, Truth
  <2>2. "author IN core_contributors" \in Comparisons
    BY DEF Comparisons
  <2> QED
    BY <1>1, <2>1, <2>2
<1> QED
  BY <1>2, <1>3, <1>4, <1>5, <1>6, Zenon DEF Simple, Atoms

\* What evaluates as it should is closed under the grammar.
LEMMA MeaningGrammar ==
  ASSUME NEW x, x.conflict \in BOOLEAN
  PROVE  Grammar(Units(x), Terms(x), Sums(x), x)
<1>1. Units(x) \subseteq Terms(x) /\ Terms(x) \subseteq Sums(x)
  BY Zenon DEF Units, Terms, Sums, IsUnit, IsTerm
<1>2. Nots(Units(x)) \subseteq Units(x)
  <2>1. ASSUME NEW p \in Units(x) PROVE Form(<<"NOT">> \o p.text, ~p.means) \in Units(x)
    <3> DEFINE e == <<"NOT">> \o p.text
               b == ~p.means
    <3>1. IsUnit(p.text, p.means, x)
      BY DEF Units
    <3>2. IsUnit(e, b, x)
      BY <3>1, NotMeans
    <3> HIDE DEF e, b
    <3>3. Form(e, b) \in Sentences /\ Form(e, b).text = e /\ Form(e, b).means = b
      BY <3>2, IsSentence DEF IsUnit, IsTerm
    <3>4. Form(e, b) \in Units(x)
      BY <3>2, <3>3, Zenon DEF Units
    <3> QED
      BY <3>4 DEF e, b
  <2> QED
    BY <2>1, Zenon DEF Nots
<1>3. Parens(Sums(x)) \subseteq Units(x)
  <2>1. ASSUME NEW p \in Sums(x) PROVE Form(<<"(">> \o p.text \o <<")">>, p.means) \in Units(x)
    <3> DEFINE e == <<"(">> \o p.text \o <<")">>
               b == p.means
    <3>1. IsSum(p.text, b, x)
      BY DEF Sums
    <3> HIDE DEF b
    <3>2. IsUnit(e, b, x)
      BY <3>1, ParenMeans
    <3> HIDE DEF e
    <3>3. Form(e, b) \in Sentences /\ Form(e, b).text = e /\ Form(e, b).means = b
      BY <3>2, IsSentence DEF IsUnit, IsTerm
    <3>4. Form(e, b) \in Units(x)
      BY <3>2, <3>3, Zenon DEF Units
    <3> QED
      BY <3>4 DEF e, b
  <2> QED
    BY <2>1, Zenon DEF Parens
<1>4. Ands(Units(x), Terms(x)) \subseteq Terms(x)
  <2>1. ASSUME NEW p \in Units(x), NEW q \in Terms(x)
        PROVE  Both(p, q) \in Terms(x)
    <3> DEFINE e == p.text \o <<"AND">> \o q.text
               b == p.means /\ q.means
    <3>1. IsUnit(p.text, p.means, x) /\ IsTerm(q.text, q.means, x)
      BY Zenon DEF Units, Terms
    <3>2. IsTerm(e, b, x)
      BY <3>1, AndMeans
    <3> HIDE DEF e, b
    <3>3. Form(e, b) \in Sentences /\ Form(e, b).text = e /\ Form(e, b).means = b
      BY <3>2, IsSentence DEF IsTerm
    <3>4. Form(e, b) \in Terms(x)
      BY <3>2, <3>3, Zenon DEF Terms
    <3> QED
      BY <3>4 DEF e, b, Both
  <2> QED
    BY <2>1, Pairs
<1>5. Ors(Terms(x), Sums(x)) \subseteq Sums(x)
  <2>1. ASSUME NEW p \in Terms(x), NEW q \in Sums(x)
        PROVE  Either(p, q) \in Sums(x)
    <3> DEFINE e == p.text \o <<"OR">> \o q.text
               b == p.means \/ q.means
    <3>1. IsTerm(p.text, p.means, x) /\ IsSum(q.text, q.means, x)
      BY Zenon DEF Terms, Sums
    <3>2. IsSum(e, b, x)
      BY <3>1, OrMeans
    <3> HIDE DEF e, b
    <3>3. Form(e, b) \in Sentences /\ Form(e, b).text = e /\ Form(e, b).means = b
      BY <3>2, IsSentence
    <3>4. Form(e, b) \in Sums(x)
      BY <3>2, <3>3, Zenon DEF Sums
    <3> QED
      BY <3>4 DEF e, b, Either
  <2> QED
    BY <2>1, Pairs
<1> QED
  <2>1. Simple(x) \subseteq Units(x)
    BY SimpleMeans
  <2> QED
    BY <1>1, <1>2, <1>3, <1>4, <1>5, <2>1, Zenon DEF Grammar

\* evalExpr (expr.go:34-89) gives every expression of the language its meaning, however long or
\* deeply nested: NOT binds tightest, then AND, then OR.
THEOREM EveryExpression ==
  ASSUME NEW x, x.conflict \in BOOLEAN
  PROVE  \A f \in Expressions(x) : Eval(f.text, x) = Truth(f.means)
<1>1. Grammar(Units(x), Terms(x), Sums(x), x)
  BY MeaningGrammar
<1>2. Units(x) \in SUBSET Sentences /\ Terms(x) \in SUBSET Sentences /\ Sums(x) \in SUBSET Sentences
  BY Zenon DEF Units, Terms, Sums
<1>3. Expressions(x) \subseteq Sums(x)
  BY <1>1, <1>2, Zenon DEF Expressions
<1> QED
  BY <1>3, Zenon DEF Sums, IsSum

-----------------------------------------------------------------------------
\* The expressions of the runs are expressions of the language.

LEMMA AllSentences ==
  ASSUME NEW x, x.conflict \in BOOLEAN
  PROVE  Grammar(Sentences, Sentences, Sentences, x)
<1>1. ASSUME NEW e \in Seq(Tokens), NEW b \in BOOLEAN PROVE Form(e, b) \in Sentences
  BY DEF Form, Sentences
<1>2. \A p \in Sentences : p.text \in Seq(Tokens) /\ p.means \in BOOLEAN
  BY DEF Sentences
<1>3. ASSUME NEW e \in Seq(Tokens), NEW d \in Seq(Tokens) PROVE e \o d \in Seq(Tokens)
  BY ConcatProperties
<1>4. \A s \in Tokens : <<s>> \in Seq(Tokens)
  BY SingleText
<1>5. Simple(x) \subseteq Sentences
  <2>1. Simple(x) \subseteq Units(x)
    BY SimpleMeans
  <2>2. Units(x) \subseteq Sentences
    BY Zenon DEF Units
  <2> QED
    BY <2>1, <2>2, Zenon
<1>6. Nots(Sentences) \subseteq Sentences
  <2>1. ASSUME NEW p \in Sentences PROVE Form(<<"NOT">> \o p.text, ~p.means) \in Sentences
    BY <1>1, <1>2, <1>3, <1>4, AreTokens
  <2> QED
    BY <2>1, Zenon DEF Nots
<1>7. Parens(Sentences) \subseteq Sentences
  <2>1. ASSUME NEW p \in Sentences PROVE Form(<<"(">> \o p.text \o <<")">>, p.means) \in Sentences
    <3>1. <<"(">> \o p.text \in Seq(Tokens)
      BY <1>2, <1>3, <1>4, AreTokens
    <3>2. <<"(">> \o p.text \o <<")">> \in Seq(Tokens)
      BY <3>1, <1>3, <1>4, AreTokens
    <3> QED
      BY <1>1, <1>2, <3>2
  <2> QED
    BY <2>1, Zenon DEF Parens
<1>8. ASSUME NEW s \in Tokens, NEW p \in Sentences, NEW q \in Sentences PROVE p.text \o <<s>> \o q.text \in Seq(Tokens)
  <2>1. p.text \o <<s>> \in Seq(Tokens)
    BY <1>2, <1>3, <1>4
  <2> QED
    BY <2>1, <1>2, <1>3
<1>9. Ands(Sentences, Sentences) \subseteq Sentences
  <2>1. ASSUME NEW p \in Sentences, NEW q \in Sentences
        PROVE  Both(p, q) \in Sentences
    <3>1. p.text \o <<"AND">> \o q.text \in Seq(Tokens)
      BY <1>8, AreTokens
    <3>2. (p.means /\ q.means) \in BOOLEAN
      OBVIOUS
    <3> QED
      BY <1>1, <3>1, <3>2 DEF Both
  <2> QED
    BY <2>1, Pairs
<1>10. Ors(Sentences, Sentences) \subseteq Sentences
  <2>1. ASSUME NEW p \in Sentences, NEW q \in Sentences
        PROVE  Either(p, q) \in Sentences
    <3>1. p.text \o <<"OR">> \o q.text \in Seq(Tokens)
      BY <1>8, AreTokens
    <3>2. (p.means \/ q.means) \in BOOLEAN
      OBVIOUS
    <3> QED
      BY <1>1, <3>1, <3>2 DEF Either
  <2> QED
    BY <2>1, Pairs
<1> QED
  BY <1>5, <1>6, <1>7, <1>9, <1>10, Zenon DEF Grammar

LEMMA WrittenInGrammar ==
  ASSUME NEW x, NEW u, NEW t, NEW s, Grammar(u, t, s, x)
  PROVE  Written(x) \subseteq s
<1> DEFINE A      == Atoms(x)
           units  == A \cup Nots(A)
           flat   == units \cup Ands(units, units) \cup Ors(units, units)
                       \cup Ors(Ands(units, A), units) \cup Ors(units, Ands(units, A))
           deep   == Parens(flat)
           others == Ands(Parens(units), Parens(Ors(units, A)))
<1>1. A \subseteq u /\ Nots(u) \subseteq u /\ Parens(s) \subseteq u /\ u \subseteq t /\ Ands(u, t) \subseteq t /\ t \subseteq s
        /\ Ors(t, s) \subseteq s
  BY Zenon DEF Grammar, Simple
<1>2. \A S, T : S \subseteq T => Nots(S) \subseteq Nots(T) /\ Parens(S) \subseteq Parens(T)
  BY Zenon DEF Nots, Parens
<1>3. \A S, T, V, W : S \subseteq T /\ V \subseteq W => Ands(S, V) \subseteq Ands(T, W) /\ Ors(S, V) \subseteq Ors(T, W)
  BY Pairs
<1>4. Written(x) = flat \cup deep \cup Nots(deep) \cup Ands(deep, units) \cup Ors(units, deep) \cup others
  BY Zenon DEF Written
<1> HIDE DEF A
<1>5. ASSUME NEW S, S \subseteq u PROVE Nots(S) \subseteq u /\ S \subseteq t /\ S \subseteq s
  <2>1. Nots(S) \subseteq Nots(u)
    BY <1>2, <1>5
  <2> QED
    BY <1>1, <1>5, <2>1, Zenon
<1>6. ASSUME NEW S, S \subseteq s PROVE Parens(S) \subseteq u
  <2>1. Parens(S) \subseteq Parens(s)
    BY <1>2, <1>6
  <2> QED
    BY <1>1, <2>1, Zenon
<1>7. ASSUME NEW S, NEW T, S \subseteq u, T \subseteq t PROVE Ands(S, T) \subseteq t /\ Ands(S, T) \subseteq s
  <2>1. Ands(S, T) \subseteq Ands(u, t)
    BY <1>3, <1>7
  <2> QED
    BY <1>1, <2>1, Zenon
<1>8. ASSUME NEW S, NEW T, S \subseteq t, T \subseteq s PROVE Ors(S, T) \subseteq s
  <2>1. Ors(S, T) \subseteq Ors(t, s)
    BY <1>3, <1>8
  <2> QED
    BY <1>1, <2>1, Zenon
<1>9. units \subseteq u /\ units \subseteq t /\ units \subseteq s /\ A \subseteq t /\ A \subseteq s
  <2>1. Nots(A) \subseteq u /\ A \subseteq t /\ A \subseteq s
    BY <1>1, <1>5
  <2>2. units \subseteq u
    BY <1>1, <2>1, Zenon
  <2> HIDE DEF units
  <2> QED
    BY <1>5, <2>1, <2>2
<1> HIDE DEF units
<1>10. flat \subseteq s
  <2>1. Ands(units, units) \subseteq s /\ Ands(units, A) \subseteq t /\ Ands(units, A) \subseteq s
    BY <1>7, <1>9
  <2>2. Ors(units, units) \subseteq s
    BY <1>8, <1>9
  <2>3. Ors(Ands(units, A), units) \subseteq s
    BY <1>8, <1>9, <2>1
  <2>4. Ors(units, Ands(units, A)) \subseteq s
    BY <1>8, <1>9, <2>1
  <2> QED
    BY <1>9, <2>1, <2>2, <2>3, <2>4, Zenon
<1> HIDE DEF flat
<1>11. deep \subseteq u
  BY <1>6, <1>10
<1> HIDE DEF deep
<1>12. deep \subseteq t /\ deep \subseteq s /\ Nots(deep) \subseteq u
  BY <1>5, <1>11
<1>13. Nots(deep) \subseteq s
  BY <1>5, <1>12
<1>14. Ands(deep, units) \subseteq s /\ Ors(units, deep) \subseteq s
  BY <1>7, <1>8, <1>9, <1>11, <1>12
<1>15. others \subseteq s
  <2>1. Parens(units) \subseteq u
    BY <1>6, <1>9
  <2>2. Ors(units, A) \subseteq s
    BY <1>8, <1>9
  <2>3. Parens(Ors(units, A)) \subseteq u
    BY <1>6, <2>2
  <2>4. Parens(Ors(units, A)) \subseteq t
    BY <1>5, <2>3
  <2> QED
    BY <1>7, <2>1, <2>4
<1> HIDE DEF others
<1> QED
  BY <1>4, <1>10, <1>12, <1>13, <1>14, <1>15, Zenon DEF flat

LEMMA WrittenIsLanguage ==
  ASSUME NEW x, x.conflict \in BOOLEAN
  PROVE  Written(x) \subseteq Expressions(x)
<1>1. Written(x) \subseteq Sentences
  BY AllSentences, WrittenInGrammar
<1>2. \A u, t, s \in SUBSET Sentences : Grammar(u, t, s, x) => Written(x) \subseteq s
  BY WrittenInGrammar
<1> QED
  BY <1>1, <1>2, Zenon DEF Expressions

\* Every expression of the runs is given its meaning, for the answers of any platform.
THEOREM ExprMeaningHolds == Spec => []ExprMeaning
<1>1. TypeOK => ExprMeaning
  <2> SUFFICES ASSUME TypeOK, NEW p \in PRs
               PROVE  LET x == Context(cfg, facts[p], facts[p].ci, rec[p].conflict)
                      IN \A e \in Written(x) : Eval(e.text, x) = Truth(e.means)
    BY DEF ExprMeaning
  <2> DEFINE x == Context(cfg, facts[p], facts[p].ci, rec[p].conflict)
  <2>1. x.conflict \in BOOLEAN
    <3>1. rec[p] \in Record
      BY DEF TypeOK
    <3>2. rec[p].conflict \in BOOLEAN
      BY <3>1 DEF Record
    <3> QED
      BY <3>2 DEF Context
  <2> HIDE DEF x
  <2>2. \A e \in Written(x) : Eval(e.text, x) = Truth(e.means)
    BY <2>1, WrittenIsLanguage, EveryExpression
  <2> QED
    BY <2>2 DEF x
<1> QED
  BY <1>1, PipelineTypes, PTL
=============================================================================
