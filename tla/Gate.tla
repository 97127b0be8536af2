-------------------------------- MODULE Gate --------------------------------
(***************************************************************************)
(* One run of the deployment gate (internal/gate/gate.go, cmd/gate): the   *)
(* artifact is normalized, the policy engine is started as a child process *)
(* over the policy bundle and the allowlist file, its exit races a timer,  *)
(* and what it printed is read as a decision.                              *)
(*                                                                         *)
(* The engine, the bundle and the file are the environment: the engine may *)
(* not start, fail, hang, or finish just as the timer fires, and a bundle  *)
(* that is not the gate's policy may print anything.                       *)
(***************************************************************************)
EXTENDS GatePolicy

CONSTANT Inputs   \* what a run of the gate may find

VARIABLES
  input,     \* artifact, allowlist file and policy bundle of this run
  pc,        \* the step Evaluate is at
  engine,    \* the child process
  output,    \* what it printed, once it has exited
  timer,     \* the 30 seconds have passed
  decision   \* what Evaluate returned, or None

vars == <<input, pc, engine, output, timer, decision>>

-----------------------------------------------------------------------------
(* Inputs, engine outputs and decisions.                                   *)

\* artifact is Unparsable when FromPlan refuses it; file says whether the
\* allowlist can be read at all.
Input == [artifact  : Graph \cup {Unparsable},
          file      : {"readable", "absent"},
          allowlist : Allowlist,
          bundle    : {"gate", "empty", "foreign"}]

ASSUME InputsAssumption == Inputs \subseteq Input

\* The value an engine that exited cleanly printed for the decision.
Answer(result, class, violations) ==
  [result |-> result, class |-> class, violations |-> violations]

AnswerOf(graph, allowlist) ==
  LET found == Violations(graph, allowlist)
  IN Answer(IF found = {} THEN "admit" ELSE "deny", "evaluated", found)

\* Output without an answer in it: not JSON or no decision, or an empty result.
Unread == Answer("unreadable", "evaluated", {})
NoAnswer == Answer("missing", "evaluated", {})

\* A foreign bundle prints something unreadable, nothing, or any answer.
ForeignOutput ==
  {Unread, NoAnswer}
    \cup {Answer(r, "evaluated", v) : r \in {"admit", "deny", "other"},
                                      v \in {{}, {"exposure_not_allowlisted"}}}

Outputs ==
  CASE input.bundle = "gate"    -> {AnswerOf(input.artifact, input.allowlist)}
    [] input.bundle = "empty"   -> {NoAnswer}
    [] input.bundle = "foreign" -> ForeignOutput

GateClass ==
  {"policy_engine_error", "no_decision", "unparsable_artifact", "malformed_decision"}

Output == [result     : {"admit", "deny", "other", "unreadable", "missing"},
           class      : GateClass \cup {"evaluated"},
           violations : SUBSET (ViolationClass \cup GateClass)]

Decision == {out \in Output : out.result \in {"admit", "deny"}}

\* Unparsable is no graph, and None neither a resource nor an output.
ASSUME NoneAssumption == Unparsable \notin Graph /\ None \notin Resource \cup Output

denial(class) == Answer("deny", class, {class})

-----------------------------------------------------------------------------
Init ==
  /\ input \in Inputs
  /\ pc = "normalize"
  /\ engine = "none"
  /\ output = None
  /\ timer = FALSE
  /\ decision = None

Return(d) == pc' = "done" /\ decision' = d

\* decide: what the normalizer refuses never reaches the policy.
Normalize ==
  /\ pc = "normalize"
  /\ IF input.artifact = Unparsable
     THEN Return(denial("unparsable_artifact"))
     ELSE pc' = "allowlist" /\ UNCHANGED decision
  /\ UNCHANGED <<input, engine, output, timer>>

ReadAllowlist ==
  /\ pc = "allowlist"
  /\ IF input.file = "absent"
     THEN Return(denial("policy_engine_error"))
     ELSE pc' = "start" /\ UNCHANGED decision
  /\ UNCHANGED <<input, engine, output, timer>>

StartEngine ==
  /\ pc = "start"
  /\ pc' = "wait"
  /\ engine' = "running"
  /\ UNCHANGED <<input, output, timer, decision>>

FailStart ==
  /\ pc = "start"
  /\ Return(denial("policy_engine_error"))
  /\ UNCHANGED <<input, engine, output, timer>>

\* Environment: the engine evaluates the bundle and exits with status 0.
EngineAnswers ==
  /\ engine = "running"
  /\ input.bundle = "gate" => ~Conflicting(input.artifact.st, input.allowlist)
  /\ engine' = "exited"
  /\ output' \in Outputs
  /\ UNCHANGED <<input, pc, timer, decision>>

\* Environment: the engine fails, for a policy conflict or any reason.
EngineFails ==
  /\ engine = "running"
  /\ engine' = "failed"
  /\ UNCHANGED <<input, pc, output, timer, decision>>

TimerFires ==
  /\ pc = "wait" /\ ~timer
  /\ timer' = TRUE
  /\ UNCHANGED <<input, pc, engine, output, decision>>

\* select, when the exit is ready; with the timer ready too, either may win.
TakeExit ==
  /\ pc = "wait" /\ engine \in {"exited", "failed"}
  /\ IF engine = "failed"
     THEN Return(denial("policy_engine_error"))
     ELSE pc' = "parse" /\ UNCHANGED decision
  /\ UNCHANGED <<input, engine, output, timer>>

\* Mutant: what the engine has printed so far is read after a timeout too.
GiveUpReading ==
  /\ pc = "wait" /\ timer
  /\ engine' = IF engine = "running" THEN "killed" ELSE engine
  /\ pc' = "parse"
  /\ output' \in IF engine = "running" THEN {Answer("admit", "evaluated", {})} ELSE {output}
  /\ UNCHANGED <<input, timer, decision>>

\* Mutant: no timer at all.
GiveUpNever == FALSE /\ UNCHANGED vars

\* select, when the timer has fired: the engine is killed if it still runs.
GiveUp ==
  /\ pc = "wait" /\ timer
  /\ engine' = IF engine = "running" THEN "killed" ELSE engine
  /\ Return(denial("policy_engine_error"))
  /\ UNCHANGED <<input, output, timer>>

\* Mutant: whatever answer there is stands.
ParsedTrusting(out) ==
  IF out.result \in {"unreadable", "missing"} THEN denial("malformed_decision") ELSE out

\* parse: what a printed value means.
Parsed(out) ==
  IF out = NoAnswer THEN denial("no_decision")
  ELSE IF \/ out.result \notin {"admit", "deny"}
          \/ out.result = "admit" /\ out.violations # {}
  THEN denial("malformed_decision")
  ELSE out

Parse ==
  /\ pc = "parse"
  /\ Return(Parsed(output))
  /\ UNCHANGED <<input, engine, output, timer>>

Evaluate == \/ Normalize \/ ReadAllowlist \/ StartEngine \/ FailStart
            \/ TakeExit \/ GiveUp \/ Parse

Next == Evaluate \/ EngineAnswers \/ EngineFails \/ TimerFires

Spec == Init /\ [][Next]_vars

\* The gate's own steps are taken, and the clock does not stop; the engine
\* owes nobody an answer.
FairSpec == Spec /\ WF_vars(Evaluate) /\ WF_vars(TimerFires)

-----------------------------------------------------------------------------
(* Properties.                                                             *)

\* Every variable keeps its type; Evaluate has returned exactly when it is done
\* and an engine that exited left an output behind.
TypeOK ==
  /\ input \in Inputs
  /\ pc \in {"normalize", "allowlist", "start", "wait", "parse", "done"}
  /\ engine \in {"none", "running", "exited", "failed", "killed"}
  /\ output \in Output \cup {None}
  /\ timer \in BOOLEAN
  /\ decision \in Decision \cup {None}
  /\ decision # None <=> pc = "done"
  /\ engine = "exited" <=> output # None

admitted == decision # None /\ decision.result = "admit"

\* An admission comes from an engine that ran to its end and reported no
\* violation; no bundle, failure or timeout makes one (gate.go:4-8).
FailsClosed ==
  admitted => /\ engine = "exited"
              /\ output.result = "admit" /\ output.violations = {}

\* Why the properties hold: an engine runs over a graph only, while the
\* gate waits for it; what a run of the gate's bundle printed is the policy's
\* answer without a conflict, and it is all that a decision can come from.
OutputIsTheAnswer ==
  engine = "exited" =>
    /\ input.bundle = "gate" =>
         /\ output = AnswerOf(input.artifact, input.allowlist)
         /\ ~Conflicting(input.artifact.st, input.allowlist)
    /\ input.bundle = "empty" => output = NoAnswer

PcInv ==
  /\ pc \in {"allowlist", "start", "wait", "parse"} \/ engine # "none" =>
       input.artifact \in Graph
  /\ pc \in {"normalize", "allowlist", "start"} => engine = "none"
  /\ engine = "running" => pc = "wait"
  /\ pc = "parse" => engine = "exited"

GateInv == TypeOK /\ PcInv /\ OutputIsTheAnswer /\ FailsClosed

\* When the gate's policy admits a graph, every read and every connect the
\* platform's own authorizer would then allow is one an allowlist entry names:
\* the policy and the authorizer are two programs that agree on this.
GateSound ==
  admitted /\ input.bundle = "gate" =>
    ExposuresNamed(input.artifact.st, input.allowlist)

\* The answer the policy gives when every resource of a kind is respelled.
AnswerRespelled(Op(_), kinds) ==
  LET st == input.artifact.st
  IN AnswerOf([input.artifact EXCEPT !.st =
                 [s \in Slot |-> IF s.kind \in kinds /\ st[s] # None THEN Op(st[s]) ELSE st[s]]],
              input.allowlist)

evaluated == decision # None /\ decision.class = "evaluated" /\ input.bundle = "gate"

\* Splitting blocks into their addresses is no other reachability, so it must
\* not turn the answer: 0.0.0.0/1 with 128.0.0.0/1 is 0.0.0.0/0 (gate.rego:7-8).
SplitIntoAddresses(resource) ==
  IF Parses(resource.source_ranges)
  THEN [resource EXCEPT !.source_ranges = {{a} : a \in Addresses(@)}] ELSE resource
SameSourcesSameDecision ==
  evaluated =>
    decision.result = AnswerRespelled(SplitIntoAddresses, {"grant", "network_rule"}).result

\* "Two configurations that spell the same reachability differently must be
\* decided identically" (gate.rego:7-8), and naming a principal beside "*" is
\* the same reachability (gate.rego:276-280).
DropNamedBesideEveryone(resource) ==
  IF Anonymous \in resource.principals
  THEN [resource EXCEPT !.principals = {Anonymous}] ELSE resource
SamePrincipalsSameDecision ==
  evaluated => decision.result = AnswerRespelled(DropNamedBesideEveryone, {"grant"}).result

\* A run of the gate is one verdict in the sense of GateVerdict; a foreign
\* bundle is outside that promise.
verdictOf(d) == IF d = None THEN None ELSE [result |-> d.result]
V == INSTANCE GateVerdict WITH
       Questions <- {[graph |-> i.artifact, allowlist |-> i.allowlist] : i \in Inputs},
       question  <- [graph |-> input.artifact, allowlist |-> input.allowlist],
       verdict   <- verdictOf(decision)
VerdictPromise == V!Init /\ [][input.bundle # "foreign" => V!Next \/ UNCHANGED verdictOf(decision)]_<<input, decision>>

\* Whatever the engine does, the gate answers (gate.go:235-243).
EveryRunDecided == <>(decision # None)
=============================================================================
