----------------------------- MODULE GateProofs -----------------------------
(***************************************************************************)
(* Proofs about a run of the gate, for any graph, any allowlist and any    *)
(* behaviour of the policy engine.  They rest on PolicyProofs.             *)
(***************************************************************************)
EXTENDS Gate, PolicyProofs

-----------------------------------------------------------------------------
(* The run of the gate.                                                    *)

\* What parse makes of an answer is a decision, and an admission is the answer.
LEMMA ParsedType ==
  ASSUME NEW out \in Output
  PROVE  /\ Parsed(out) \in Decision
         /\ Parsed(out).result = "admit" =>
              Parsed(out) = out /\ out.result = "admit" /\ out.violations = {}
BY DEF Parsed, Decision, Output, denial, Answer, NoAnswer, GateClass

\* A denial is a decision, and no admission.
LEMMA DenialType ==
  ASSUME NEW class \in GateClass
  PROVE  denial(class) \in Decision /\ denial(class).result = "deny"
BY DEF denial, Answer, Decision, Output

\* Everything an engine can print is an output.
LEMMA OutputsType ==
  ASSUME input.bundle \in {"gate", "empty", "foreign"}
  PROVE  Outputs \subseteq Output
<1>1. CASE input.bundle = "gate"
  <2>1. Outputs = {AnswerOf(input.artifact, input.allowlist)}
    BY <1>1 DEF Outputs
  <2>2. Violations(input.artifact, input.allowlist) \subseteq ViolationClass
    BY DEF Violations, ViolationClass
  <2> QED
    BY <2>1, <2>2 DEF Output, AnswerOf, Answer
<1>2. CASE input.bundle = "empty"
  BY <1>2 DEF Outputs, NoAnswer, Output, Answer
<1>3. CASE input.bundle = "foreign"
  BY <1>3 DEF Outputs, ForeignOutput, Unread, NoAnswer, Output, Answer, ViolationClass
<1> QED
  BY <1>1, <1>2, <1>3

\* The gate starts in its invariant.
LEMMA InitInv == Init => GateInv
<1> SUFFICES ASSUME Init PROVE GateInv
  OBVIOUS
<1>1. TypeOK
  BY NoneAssumption DEF Init, TypeOK
<1> QED
  BY <1>1 DEF Init, GateInv, PcInv, OutputIsTheAnswer, FailsClosed, admitted

\* Returning a denial keeps the invariant, whatever happened to the engine.
LEMMA ReturnDenial ==
  ASSUME GateInv, NEW class \in GateClass, Return(denial(class)),
         UNCHANGED <<input, output, timer>>,
         engine' = engine \/ (engine = "running" /\ engine' = "killed"),
         engine # "running" \/ engine' = "killed",
         pc # "done"
  PROVE  GateInv'
<1>1. denial(class) \in Decision /\ denial(class).result = "deny"
  BY DenialType
<1>2. decision' \in Decision /\ decision' # None /\ pc' = "done"
  BY <1>1, NoneAssumption DEF Return, Decision
<1>3. TypeOK'
  BY <1>2 DEF GateInv, TypeOK
<1>4. PcInv' /\ OutputIsTheAnswer'
  BY <1>2 DEF GateInv, TypeOK, PcInv, OutputIsTheAnswer
<1>5. FailsClosed'
  BY <1>1 DEF Return, FailsClosed, admitted
<1> QED
  BY <1>3, <1>4, <1>5 DEF GateInv

\* Every step of the gate, the engine and the timer keeps the invariant.
LEMMA StepInv == GateInv /\ [Next]_vars => GateInv'
<1> SUFFICES ASSUME GateInv, [Next]_vars
             PROVE  GateInv'
  OBVIOUS
<1> USE DEF GateInv
<1>0. /\ input.bundle \in {"gate", "empty", "foreign"}
      /\ input.artifact \in Graph \cup {Unparsable}
  BY InputsAssumption DEF TypeOK, Input
<1>1. CASE Normalize
  <2>1. CASE input.artifact = Unparsable
    BY <1>1, <2>1, NoneAssumption, ReturnDenial DEF Normalize, GateClass, PcInv
  <2>2. CASE input.artifact # Unparsable
    BY <1>0, <1>1, <2>2
       DEF Normalize, TypeOK, PcInv, OutputIsTheAnswer, FailsClosed, admitted
  <2> QED
    BY <2>1, <2>2
<1>2. CASE ReadAllowlist
  <2>1. engine # "running" /\ pc # "done"
    BY <1>2 DEF ReadAllowlist, PcInv
  <2>2. CASE input.file = "absent"
    BY <1>2, <2>1, <2>2, ReturnDenial DEF ReadAllowlist, GateClass
  <2>3. CASE input.file # "absent"
    BY <1>2, <2>3
       DEF ReadAllowlist, TypeOK, PcInv, OutputIsTheAnswer, FailsClosed, admitted
  <2> QED
    BY <2>2, <2>3
<1>3. CASE StartEngine
  BY <1>3 DEF StartEngine, TypeOK, PcInv, OutputIsTheAnswer, FailsClosed, admitted
<1>4. CASE FailStart
  BY <1>4, ReturnDenial DEF FailStart, GateClass, PcInv
<1>5. CASE EngineAnswers
  <2>1. pc = "wait" /\ decision = None /\ output' \in Output /\ output' # None
    BY <1>0, <1>5, OutputsType, NoneAssumption DEF EngineAnswers, PcInv, TypeOK
  <2>2. TypeOK'
    BY <1>5, <2>1 DEF EngineAnswers, TypeOK
  <2>3. PcInv'
    BY <1>5, <2>1 DEF EngineAnswers, PcInv
  <2>4. OutputIsTheAnswer'
    BY <1>5 DEF EngineAnswers, OutputIsTheAnswer, Outputs
  <2>5. FailsClosed'
    BY <1>5, <2>1 DEF EngineAnswers, FailsClosed, admitted
  <2> QED
    BY <2>2, <2>3, <2>4, <2>5
<1>6. CASE EngineFails
  BY <1>6 DEF EngineFails, TypeOK, PcInv, OutputIsTheAnswer, FailsClosed, admitted
<1>7. CASE TimerFires
  BY <1>7 DEF TimerFires, TypeOK, PcInv, OutputIsTheAnswer, FailsClosed, admitted
<1>8. CASE TakeExit
  <2>1. CASE engine = "failed"
    BY <1>8, <2>1, ReturnDenial DEF TakeExit, GateClass
  <2>2. CASE engine = "exited"
    BY <1>8, <2>2 DEF TakeExit, TypeOK, PcInv, OutputIsTheAnswer, FailsClosed, admitted
  <2> QED
    BY <1>8, <2>1, <2>2 DEF TakeExit
<1>9. CASE GiveUp
  BY <1>9, ReturnDenial DEF GiveUp, GateClass
<1>10. CASE Parse
  <2>1. output \in Output /\ engine = "exited"
    BY <1>10 DEF Parse, PcInv, TypeOK
  <2>2. decision' = Parsed(output) /\ decision' \in Decision /\ decision' # None
    BY <1>10, <2>1, ParsedType, NoneAssumption DEF Parse, Return, Decision
  <2>3. TypeOK'
    BY <1>10, <2>2 DEF Parse, Return, TypeOK
  <2>4. PcInv' /\ OutputIsTheAnswer'
    BY <1>10 DEF Parse, Return, PcInv, OutputIsTheAnswer
  <2>5. FailsClosed'
    BY <1>10, <2>1, <2>2, ParsedType DEF Parse, FailsClosed, admitted
  <2> QED
    BY <2>3, <2>4, <2>5
<1>11. CASE UNCHANGED vars
  BY <1>11 DEF vars, TypeOK, PcInv, OutputIsTheAnswer, FailsClosed, admitted
<1> QED
  BY <1>1, <1>2, <1>3, <1>4, <1>5, <1>6, <1>7, <1>8, <1>9, <1>10, <1>11 DEF Next, Evaluate

\* The conjunction the properties follow from holds in every run of the gate.
THEOREM GateInvariant == Spec => []GateInv
<1>1. Init => GateInv
  BY InitInv
<1>2. GateInv /\ [Next]_vars => GateInv'
  BY StepInv
<1> QED
  BY <1>1, <1>2, PTL DEF Spec

\* Types: every variable keeps its type and a decision is there exactly when
\* Evaluate has returned (TypeOK).
THEOREM GateTypes == Spec => []TypeOK
<1>1. GateInv => TypeOK
  BY DEF GateInv
<1> QED
  BY <1>1, GateInvariant, PTL

\* Every failure around the policy is a denial (gate.go:4-8).
THEOREM GateFailsClosed == Spec => []FailsClosed
<1>1. GateInv => FailsClosed
  BY DEF GateInv
<1> QED
  BY <1>1, GateInvariant, PTL

\* What the gate admits exposes nothing that the allowlist does not name, as the
\* platform's own authorizer computes exposure.
THEOREM GateSoundness == Spec => []GateSound
<1>1. GateInv => GateSound
  <2> SUFFICES ASSUME GateInv, admitted, input.bundle = "gate"
               PROVE  ExposuresNamed(input.artifact.st, input.allowlist)
    BY DEF GateSound
  <2>1. engine = "exited" /\ output.violations = {}
    BY DEF GateInv, FailsClosed
  <2>2. /\ output = AnswerOf(input.artifact, input.allowlist)
        /\ ~Conflicting(input.artifact.st, input.allowlist)
    BY <2>1 DEF GateInv, OutputIsTheAnswer
  <2>3. Admits(input.artifact, input.allowlist)
    BY <2>1, <2>2 DEF AnswerOf, Answer, Admits
  <2>4. input.artifact \in Graph /\ input.allowlist \in Allowlist
    BY <2>1, InputsAssumption DEF GateInv, PcInv, TypeOK, Input
  <2> QED
    BY <2>3, <2>4, PolicySound
<1> QED
  BY <1>1, GateInvariant, PTL

\* A denial is a verdict about any question.
LEMMA DenialIsVerdict ==
  ASSUME GateInv, pc # "done", NEW class \in GateClass, Return(denial(class)), UNCHANGED input
  PROVE  V!Next
<1>1. decision = None
  BY DEF GateInv, TypeOK
<1>2. decision' # None /\ decision'.result = "deny"
  BY DenialType, NoneAssumption DEF Return, Decision
<1> QED
  BY <1>1, <1>2 DEF V!Next, V!Decide, V!Verdicts, V!Denied, verdictOf

\* Every step is a verdict or leaves it open.
LEMMA StepIsVerdict ==
  ASSUME GateInv, [Next]_vars, input.bundle # "foreign"
  PROVE  V!Next \/ UNCHANGED verdictOf(decision)
<1> USE DEF GateInv
<1>1. CASE Normalize
  BY <1>1, DenialIsVerdict DEF Normalize, GateClass, verdictOf
<1>2. CASE ReadAllowlist
  BY <1>2, DenialIsVerdict DEF ReadAllowlist, GateClass, verdictOf
<1>3. CASE FailStart
  BY <1>3, DenialIsVerdict DEF FailStart, GateClass
<1>4. CASE TakeExit
  BY <1>4, DenialIsVerdict DEF TakeExit, GateClass, verdictOf
<1>5. CASE GiveUp
  BY <1>5, DenialIsVerdict DEF GiveUp, GateClass
<1>6. CASE StartEngine \/ EngineAnswers \/ EngineFails \/ TimerFires
  BY <1>6 DEF StartEngine, EngineAnswers, EngineFails, TimerFires, verdictOf
<1>7. CASE UNCHANGED vars
  BY <1>7 DEF vars, verdictOf
<1>8. CASE Parse
  <2>1. /\ engine = "exited" /\ decision = None /\ output \in Output
        /\ input.artifact \in Graph /\ UNCHANGED input
    BY <1>8 DEF Parse, PcInv, TypeOK
  <2>2. decision' = Parsed(output) /\ decision' \in Decision
    BY <1>8, <2>1, ParsedType DEF Parse, Return
  <2>3. decision' # None /\ decision'.result \in {"deny", "admit"}
    BY <2>2, NoneAssumption DEF Decision
  <2>4. CASE decision'.result = "deny"
    BY <2>1, <2>3, <2>4, NoneAssumption DEF V!Next, V!Decide, V!Verdicts, V!Denied, verdictOf
  <2>5. CASE decision'.result = "admit"
    <3>1. output.result = "admit" /\ output.violations = {}
      BY <2>1, <2>2, <2>5, ParsedType
    <3>2. input.bundle = "gate"
      BY <2>1, <3>1, InputsAssumption DEF TypeOK, Input, OutputIsTheAnswer, NoAnswer, Answer
    <3>3. Admits(input.artifact, input.allowlist)
      BY <2>1, <3>1, <3>2 DEF OutputIsTheAnswer, AnswerOf, Answer, Admits
    <3>4. V!Admitted \in V!Verdicts(input.artifact, input.allowlist)
      BY <3>3 DEF V!Verdicts
    <3>5. verdictOf(decision) = None /\ verdictOf(decision)' = V!Admitted
      BY <2>1, <2>3, <2>5 DEF verdictOf, V!Admitted
    <3>6. input.artifact # Unparsable
      BY <2>1, NoneAssumption
    <3> QED
      BY <2>1, <3>4, <3>5, <3>6 DEF V!Next, V!Decide
  <2> QED
    BY <2>3, <2>4, <2>5
<1> QED
  BY <1>1, <1>2, <1>3, <1>4, <1>5, <1>6, <1>7, <1>8 DEF Next, Evaluate

\* Whatever the engine does, a run of the gate is at most one verdict in the sense
\* of GateVerdict, for the artifact and the allowlist it was given.
THEOREM GateRefinesVerdict == Spec => VerdictPromise
<1>1. Init => V!Init
  BY DEF Init, V!Init, verdictOf
<1>2. GateInv /\ [Next]_vars =>
        [input.bundle # "foreign" => V!Next \/ UNCHANGED verdictOf(decision)]_<<input, decision>>
  BY StepIsVerdict
<1> QED
  BY <1>1, <1>2, GateInvariant, PTL DEF Spec, VerdictPromise

-----------------------------------------------------------------------------
(* A decision does not depend on how sources are spelled.                  *)

\* Beside GateInv: a decision that carries an evaluation is what the engine of
\* this run printed, as parse reads it.
DecisionIsTheAnswer ==
  decision # None /\ decision.class = "evaluated" =>
    engine = "exited" /\ decision = Parsed(output)

LEMMA DenialIsNoAnswer ==
  ASSUME NEW class \in GateClass, Return(denial(class))
  PROVE  DecisionIsTheAnswer'
BY DEF Return, denial, Answer, GateClass, DecisionIsTheAnswer

LEMMA DecisionStep == GateInv /\ DecisionIsTheAnswer /\ [Next]_vars => DecisionIsTheAnswer'
<1> SUFFICES ASSUME GateInv, DecisionIsTheAnswer, [Next]_vars
             PROVE  DecisionIsTheAnswer'
  OBVIOUS
<1>1. CASE UNCHANGED <<engine, output, decision>>
  BY <1>1 DEF DecisionIsTheAnswer, Parsed
<1>2. CASE Normalize
  BY <1>1, <1>2, DenialIsNoAnswer DEF Normalize, GateClass
<1>3. CASE ReadAllowlist
  BY <1>1, <1>3, DenialIsNoAnswer DEF ReadAllowlist, GateClass
<1>4. CASE FailStart
  BY <1>4, DenialIsNoAnswer DEF FailStart, GateClass
<1>5. CASE TakeExit
  BY <1>1, <1>5, DenialIsNoAnswer DEF TakeExit, GateClass
<1>6. CASE GiveUp
  BY <1>6, DenialIsNoAnswer DEF GiveUp, GateClass
<1>7. CASE Parse
  BY <1>7 DEF Parse, Return, GateInv, PcInv, DecisionIsTheAnswer, Parsed
<1>8. CASE StartEngine \/ EngineAnswers \/ EngineFails
  <2>1. pc \in {"start", "wait"} /\ UNCHANGED decision
    BY <1>8 DEF StartEngine, EngineAnswers, EngineFails, GateInv, PcInv
  <2>2. decision' = None
    BY <2>1 DEF GateInv, TypeOK
  <2> QED
    BY <2>2 DEF DecisionIsTheAnswer
<1>9. CASE TimerFires \/ UNCHANGED vars
  BY <1>1, <1>9 DEF TimerFires, vars
<1> QED
  BY <1>2, <1>3, <1>4, <1>5, <1>6, <1>7, <1>8, <1>9 DEF Next, Evaluate

\* The decision on an evaluated graph is the policy's answer.
LEMMA EvaluatedIsAnswer ==
  ASSUME GateInv, DecisionIsTheAnswer, evaluated
  PROVE  /\ decision = AnswerOf(input.artifact, input.allowlist)
         /\ input.artifact \in Graph
<1>1. engine = "exited" /\ decision = Parsed(output)
  BY DEF DecisionIsTheAnswer, evaluated
<1>2. output = AnswerOf(input.artifact, input.allowlist)
  BY <1>1 DEF GateInv, OutputIsTheAnswer, evaluated
<1>3. Parsed(output) = output
  BY <1>2 DEF Parsed, AnswerOf, Answer, NoAnswer
<1> QED
  BY <1>1, <1>2, <1>3 DEF GateInv, PcInv

\* The addresses of a list of blocks, one block each, are the same sources.
LEMMA SplitRanges ==
  ASSUME NEW ranges \in SUBSET Cidr, Parses(ranges)
  PROVE  SameRanges(ranges, {{a} : a \in Addresses(ranges)})
<1> DEFINE single == {{a} : a \in Addresses(ranges)}
<1>1. Addresses(ranges) \subseteq Addr
  BY AddrAssumption DEF Addresses, Cidr
<1>2. \A a \in Addresses(ranges) : {a} \in Block
  BY <1>1, BlocksAssumption
<1>3. Unparsable \notin single
  BY <1>2, AddrAssumption
<1>4. single \ {Unparsable} = single
  BY <1>3
<1>5. UNION single = Addresses(ranges)
  OBVIOUS
<1>6. Addresses(single) = UNION single
  BY <1>4 DEF Addresses
<1> QED
  BY <1>3, <1>5, <1>6 DEF SameRanges, Parses

\* A grant whose sources are split keeps everything else.
LEMMA SplitGrant ==
  ASSUME NEW grant \in Grant, NEW split, split = SplitIntoAddresses(grant)
  PROVE  /\ split # None /\ split.target = grant.target
         /\ split.actions = grant.actions /\ split.principals = grant.principals
         /\ SameRanges(grant.source_ranges, split.source_ranges)
<1>1. CASE ~Parses(grant.source_ranges)
  BY <1>1, NoneAssumption DEF SplitIntoAddresses, SameRanges, Resource
<1>2. CASE Parses(grant.source_ranges)
  <2> DEFINE single == {{a} : a \in Addresses(grant.source_ranges)}
  <2>1. split = [grant EXCEPT !.source_ranges = single]
    BY <1>2 DEF SplitIntoAddresses
  <2>2. single \subseteq Cidr
    BY BlocksAssumption, AddrAssumption DEF Grant, Cidr, Addresses
  <2>3. SameRanges(grant.source_ranges, single)
    BY <1>2, SplitRanges DEF Grant
  <2> HIDE DEF single
  <2>4. split \in Grant /\ split.source_ranges = single
    BY <2>1, <2>2 DEF Grant
  <2>5. /\ split.target = grant.target
        /\ split.actions = grant.actions /\ split.principals = grant.principals
    BY <2>1 DEF Grant
  <2> QED
    BY <2>3, <2>4, <2>5, NoneAssumption DEF Resource
<1> QED
  BY <1>1, <1>2

\* So does a network rule.
LEMMA SplitRule ==
  ASSUME NEW rule \in NetworkRule, NEW split, split = SplitIntoAddresses(rule)
  PROVE  /\ split # None /\ split.workload = rule.workload /\ split.port = rule.port
         /\ SameRanges(rule.source_ranges, split.source_ranges)
<1>1. CASE ~Parses(rule.source_ranges)
  BY <1>1, NoneAssumption DEF SplitIntoAddresses, SameRanges, Resource
<1>2. CASE Parses(rule.source_ranges)
  <2> DEFINE single == {{a} : a \in Addresses(rule.source_ranges)}
  <2>1. split = [rule EXCEPT !.source_ranges = single]
    BY <1>2 DEF SplitIntoAddresses
  <2>2. single \subseteq Cidr
    BY BlocksAssumption, AddrAssumption DEF NetworkRule, Cidr, Addresses
  <2>3. SameRanges(rule.source_ranges, single)
    BY <1>2, SplitRanges DEF NetworkRule
  <2> HIDE DEF single
  <2>4. split \in NetworkRule /\ split.source_ranges = single
    BY <2>1, <2>2 DEF NetworkRule
  <2>5. split.workload = rule.workload /\ split.port = rule.port
    BY <2>1 DEF NetworkRule
  <2> QED
    BY <2>3, <2>4, <2>5, NoneAssumption DEF Resource
<1> QED
  BY <1>1, <1>2

\* A graph with every grant and rule split is the same reachability.
LEMMA SplitAlike ==
  ASSUME NEW st, IsState(st)
  PROVE  SpelledAlike(st, [s \in Slot |-> IF s.kind \in {"grant", "network_rule"} /\ st[s] # None
                                          THEN SplitIntoAddresses(st[s]) ELSE st[s]])
<1> DEFINE tt == [s \in Slot |-> IF s.kind \in {"grant", "network_rule"} /\ st[s] # None
                                 THEN SplitIntoAddresses(st[s]) ELSE st[s]]
<1>1. ASSUME NEW s \in Slot, s.kind = "grant", st[s] # None
      PROVE  tt[s] = SplitIntoAddresses(st[s]) /\ st[s] \in Grant
  BY <1>1 DEF IsState, ValueOf
<1>2. ASSUME NEW s \in Slot, s.kind = "network_rule", st[s] # None
      PROVE  tt[s] = SplitIntoAddresses(st[s]) /\ st[s] \in NetworkRule
  BY <1>2 DEF IsState, ValueOf
<1>3. ASSUME NEW s \in Slot, s.kind \notin {"grant", "network_rule"} \/ st[s] = None
      PROVE  tt[s] = st[s]
  BY <1>3
<1> HIDE DEF tt
<1>4. \A slot \in Slot : tt[slot] = None <=> st[slot] = None
  BY <1>1, <1>2, <1>3, SplitGrant, SplitRule
<1>5. ASSUME NEW g \in GrantId, st[GrantSlot(g)] # None
      PROVE  /\ tt[GrantSlot(g)].target = st[GrantSlot(g)].target
             /\ tt[GrantSlot(g)].actions = st[GrantSlot(g)].actions
             /\ tt[GrantSlot(g)].principals = st[GrantSlot(g)].principals
             /\ SameRanges(st[GrantSlot(g)].source_ranges, tt[GrantSlot(g)].source_ranges)
  BY <1>1, <1>5, SlotKinds, SplitGrant
<1>6. ASSUME NEW n \in RuleId, st[RuleSlot(n)] # None
      PROVE  /\ tt[RuleSlot(n)].workload = st[RuleSlot(n)].workload
             /\ tt[RuleSlot(n)].port = st[RuleSlot(n)].port
             /\ SameRanges(st[RuleSlot(n)].source_ranges, tt[RuleSlot(n)].source_ranges)
  BY <1>2, <1>6, SlotKinds, SplitRule
<1>7. SpelledAlike(st, tt)
  BY <1>3, <1>4, <1>5, <1>6 DEF SpelledAlike
<1> QED
  BY <1>7 DEF tt

\* Two spellings of the same sources are decided identically: the decision on a
\* graph is the one on the graph whose blocks are split into their addresses
\* (gate.rego:7-8), whatever the engine and the timer do meanwhile.
THEOREM SpellingTheorem == Spec => []SameSourcesSameDecision
<1>1. GateInv /\ DecisionIsTheAnswer => SameSourcesSameDecision
  <2> SUFFICES ASSUME GateInv, DecisionIsTheAnswer, evaluated
               PROVE  decision.result
                        = AnswerRespelled(SplitIntoAddresses, {"grant", "network_rule"}).result
    BY DEF SameSourcesSameDecision
  <2> DEFINE st == input.artifact.st
             tt == [s \in Slot |-> IF s.kind \in {"grant", "network_rule"} /\ st[s] # None
                                   THEN SplitIntoAddresses(st[s]) ELSE st[s]]
             other == [input.artifact EXCEPT !.st = tt]
  <2>1. /\ decision = AnswerOf(input.artifact, input.allowlist)
        /\ input.artifact \in Graph
    BY EvaluatedIsAnswer
  <2>2. SpelledAlike(st, tt)
    BY <2>1, SplitAlike DEF Graph
  <2>3. AnswerRespelled(SplitIntoAddresses, {"grant", "network_rule"})
          = AnswerOf(other, input.allowlist)
    BY DEF AnswerRespelled
  <2> HIDE DEF tt
  <2>4. /\ other.st = tt /\ other.unknown = input.artifact.unknown
        /\ other.unrecognized = input.artifact.unrecognized
    BY <2>1 DEF Graph
  <2> HIDE DEF other
  <2>5. Violations(other, input.allowlist) = Violations(input.artifact, input.allowlist)
    BY <2>2, <2>4, ViolationsAlike
  <2>6. AnswerOf(other, input.allowlist) = AnswerOf(input.artifact, input.allowlist)
    BY <2>5 DEF AnswerOf
  <2> QED
    BY <2>1, <2>3, <2>6
<1>2. Init => DecisionIsTheAnswer
  BY DEF Init, DecisionIsTheAnswer
<1>3. GateInv /\ DecisionIsTheAnswer /\ [Next]_vars => DecisionIsTheAnswer'
  BY DecisionStep
<1> QED
  BY <1>1, <1>2, <1>3, GateInvariant, PTL DEF Spec
=============================================================================
