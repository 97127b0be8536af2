--------------------------- MODULE PipelineProofs ---------------------------
(***************************************************************************)
(* For any number of pipelines running against one platform, any value     *)
(* sets and allowlists, and any failures: a refused run writes nothing,    *)
(* a gated run writes only what was admitted and approved, transcripts are *)
(* true, a quiet drift check is right, and the types hold.                 *)
(***************************************************************************)
EXTENDS Pipeline, PolicyProofs

Fields ==
  {"pc", "job", "before", "after", "appliedState", "file", "approval", "decision", "would",
   "audit", "advisory", "applied", "outOfBand", "result", "todo", "wrote", "live", "drift",
   "error", "passed"}

\* The scenarios that apply nothing but what the gate admitted.
Reviewed(s) == s.gated /\ ~s.advisory /\ ~s.outOfBand

\* The policy admits what the scenario evaluates, and the run was told so.
Admitted(t) ==
  LET s == Scenarios[t.job] IN
    /\ t.decision # None /\ t.decision.result = "admit"
    /\ Evaluated(s) # Unparsable /\ Admits(Evaluated(s), AllowlistOf[s.allowlist])

\* Besides, what it applies is what its own approval names.
Sanctioned(t) ==
  /\ Admitted(t)
  /\ Scenarios[t.job].manifest = "" => t.approval = Approval(t.job, t.file)

Untouched(t) == t.wrote = {} /\ ~t.applied

\* A scenario's transcript in the environment e, at any of its steps.
Good(t, e) ==
  LET s == Scenarios[t.job] IN
    /\ t.pc # "remove"
    /\ t.pc \in {"resolve", "bind"} => Untouched(t) /\ t.audit = <<>>
    /\ t.audit # <<>> /\ ~s.outOfBand => Untouched(t) /\ t.pc \in {"after", "end"}
    /\ ~Available(s, e) => Untouched(t) /\ t.pc \in {"idle", "end"}
    /\ t.pc = "bind" /\ Reviewed(s) => Admitted(t)
    /\ Reviewed(s) =>
         \/ Untouched(t) /\ t.pc \notin {"apply", "mutate", "mutated"}
         \/ Sanctioned(t)

\* Where a run of an operator command can be.
CommandStep == {"idle", "drift", "digest", "remove", "end"}

\* The inductive invariant: every transcript of a scenario is good.
RunInv ==
  /\ DOMAIN run = Run
  /\ \A r \in Run :
       /\ DOMAIN run[r] = Fields
       /\ run[r].job \in ScenarioId => Good(run[r], Env[r])
       /\ run[r].job \notin ScenarioId => run[r].pc \in CommandStep

-----------------------------------------------------------------------------
(* The table of scenarios and the gate's answers.                          *)

\* A gated scenario is neither a scan nor a denylist, and its binding is one of
\* the four that rehearseBinding knows.
LEMMA ScenarioFacts ==
  \A id \in ScenarioId :
    /\ Scenarios[id].gated => ~Scenarios[id].scan /\ ~Scenarios[id].denylist
    /\ Scenarios[id].binding \in {"honest", "unapproved", "stale", "modified"}
<1> SUFFICES ASSUME NEW id \in ScenarioId
             PROVE  /\ Scenarios[id].gated => ~Scenarios[id].scan /\ ~Scenarios[id].denylist
                    /\ Scenarios[id].binding \in {"honest", "unapproved", "stale", "modified"}
  OBVIOUS
<1> DEFINE
     Fits(s) == /\ DOMAIN s = DOMAIN Base
                /\ s.gated => ~s.scan /\ ~s.denylist
                /\ s.binding \in {"honest", "unapproved", "stale", "modified"}
<1>1. Fits(Base) /\ Base.gated = FALSE /\ Base.scan = FALSE /\ Base.denylist = FALSE
  BY DEF Base
<1>2. Fits(Gated) /\ Gated.scan = FALSE /\ Gated.denylist = FALSE
  BY DEF Base, Gated
<1>3. Fits(Refused) /\ Refused.scan = FALSE /\ Refused.denylist = FALSE
  BY <1>2 DEF Base, Gated, Refused
<1>4. Fits(Vulnerable) /\ Vulnerable.gated = FALSE /\ Vulnerable.scan = FALSE /\ Vulnerable.denylist = FALSE
  BY DEF Base, Vulnerable
<1>5. Fits(Scenarios[id])
  BY <1>1, <1>2, <1>3, <1>4, SMTT(60) DEF ScenarioId, Scenarios, Evaluating, Base
<1> QED BY <1>5

\* The operator commands are no scenarios.
LEMMA Commands == "drift" \notin ScenarioId /\ "remove-undeclared" \notin ScenarioId
BY DEF ScenarioId

\* What the gate finds are findings.
LEMMA FindingsTyped ==
  ASSUME NEW graph, NEW allowlist PROVE FindingsOf(graph, allowlist) \in SUBSET Finding
<1>1. Uncovered(graph.st, allowlist) \in SUBSET Finding
  BY DEF Uncovered, ListedBuckets, ListedPorts, BucketTarget, Finding
<1>2. Violations(graph, allowlist) \in SUBSET ViolationClass
  BY DEF Violations
<1> QED BY <1>1, <1>2 DEF FindingsOf, Finding

\* An answer that does not deny is an admission by the policy itself.
LEMMA NotDenied ==
  ASSUME NEW graph, NEW allowlist, NEW broken,
         NEW d \in Evaluations(graph, allowlist, broken), ~Denied(d)
  PROVE  d # None /\ d.result = "admit" /\ graph # Unparsable /\ Admits(graph, allowlist)
<1> DEFINE found == FindingsOf(graph, allowlist)
<1>1. found \in SUBSET Finding
  BY FindingsTyped
<1>2. EngineError \in Decision /\ Answer("deny", "unparsable_artifact", {}) \in Decision
      /\ \A result \in {"admit", "deny"} : Answer(result, "evaluated", found) \in Decision
  BY <1>1 DEF EngineError, Answer, Decision, Class
<1>3. d \in {EngineError, Answer("deny", "unparsable_artifact", {})} \/
      /\ graph # Unparsable /\ ~Conflicting(graph.st, allowlist)
      /\ d = Answer(IF found = {} THEN "admit" ELSE "deny", "evaluated", found)
  BY DEF Evaluations
<1>4. d # None /\ d.result # "deny"
  BY <1>2, <1>3, NoneAssumption DEF Denied
<1>6. found = {} /\ d.result = "admit" /\ graph # Unparsable /\ ~Conflicting(graph.st, allowlist)
  BY <1>3, <1>4 DEF EngineError, Answer
<1>5. Violations(graph, allowlist) = {}
  <2>1. Uncovered(graph.st, allowlist) = {}
        /\ Violations(graph, allowlist) \ {"exposure_not_allowlisted"} = {}
    BY <1>6 DEF FindingsOf
  <2>2. "exposure_not_allowlisted" \notin Violations(graph, allowlist)
    BY <2>1 DEF Violations, ViolationClass
  <2> QED BY <2>1, <2>2
<1> QED BY <1>4, <1>5, <1>6 DEF Admits

\* VerifyApproval accepts nothing but this run's approval for this artifact.
LEMMA VerifiedIsApproved ==
  ASSUME NEW id \in ScenarioId, NEW file,
         VerifyApproval(id, Rehearsed(id, file).file, Rehearsed(id, file).approval) = ""
  PROVE  Rehearsed(id, file).approval = Approval(id, Rehearsed(id, file).file)
<1>1. /\ Rehearsed(id, file).approval # None
      /\ Rehearsed(id, file).approval.plan = Rehearsed(id, file).file
      /\ Rehearsed(id, file).approval.run = RunID(id, Rehearsed(id, file).file)
  BY DEF VerifyApproval
<1>2. CASE Scenarios[id].binding \in {"honest", "modified"}
  BY <1>1, <1>2 DEF Rehearsed, Approval
<1>3. CASE Scenarios[id].binding = "unapproved"
  BY <1>1, <1>3 DEF Rehearsed
<1>4. CASE Scenarios[id].binding = "stale"
  BY <1>1, <1>4 DEF Rehearsed, Approval
<1> QED BY <1>2, <1>3, <1>4, ScenarioFacts

-----------------------------------------------------------------------------
(* Steps of one transcript.                                                *)

\* What Good says of a transcript rests on these fields.
SameRecord(t, u) ==
  /\ DOMAIN u = Fields /\ u.job = t.job
  /\ u.decision = t.decision /\ u.approval = t.approval /\ u.file = t.file
  /\ u.audit = t.audit

LEMMA SanctionedFrame ==
  ASSUME NEW t, NEW u, SameRecord(t, u)
  PROVE  (Admitted(t) => Admitted(u)) /\ (Sanctioned(t) => Sanctioned(u))
BY DEF SameRecord, Admitted, Sanctioned

\* A step that writes nothing, to a label with no write before it.
LEMMA QuietStep ==
  ASSUME NEW e, NEW t, NEW u, Good(t, e), SameRecord(t, u), t.pc # "bind", t.pc # "resolve",
         u.wrote = t.wrote, u.applied = t.applied,
         \/ u.pc = "end"
         \/ t.pc \notin {"idle", "after", "end"} /\ u.pc \in {"drift", "digest"}
  PROVE  Good(u, e)
BY SanctionedFrame DEF Good, Untouched, SameRecord

LEMMA FinishGood ==
  ASSUME NEW e, NEW t, DOMAIN t = Fields, t.job \in ScenarioId, Untouched(t),
         Available(Scenarios[t.job], e),
         Reviewed(Scenarios[t.job]) /\ t.audit = <<>> => Sanctioned(t)
  PROVE  LET u == Finish(Scenarios[t.job], t)
         IN DOMAIN u = Fields /\ u.job = t.job /\ Good(u, e)
<1> DEFINE s == Scenarios[t.job]
           u == Finish(s, t)
           toApply == [t EXCEPT !.pc = "apply", !.todo = Declared(s)]
           reported == IF t.audit # <<>> THEN t ELSE [t EXCEPT !.result = "DEPLOYED"]
<1>1. CASE t.audit = <<>> /\ s.artifact # ""
  <2>1. u = Failed(t)
    BY <1>1 DEF Finish
  <2> QED BY <2>1 DEF Failed, Fields, Good, Untouched
<1>2. CASE /\ ~(t.audit = <<>> /\ s.artifact # "")
           /\ IF t.audit # <<>> THEN s.outOfBand ELSE ~s.skipApply
  <2>1. u = toApply
    BY <1>2 DEF Finish
  <2>2. SameRecord(t, toApply) /\ toApply.pc = "apply" /\ Untouched(toApply)
    BY DEF SameRecord, Untouched, Fields
  <2>3. Reviewed(s) => Sanctioned(toApply)
    BY <1>2, <2>2, SanctionedFrame DEF Reviewed
  <2>4. t.audit # <<>> => s.outOfBand
    BY <1>2
  <2> QED BY <2>1, <2>2, <2>3, <2>4 DEF Good, SameRecord
<1>3. CASE /\ ~(t.audit = <<>> /\ s.artifact # "")
           /\ ~IF t.audit # <<>> THEN s.outOfBand ELSE ~s.skipApply
  <2>1. u = IF s.skipRemote THEN Conclude(s, reported) ELSE [reported EXCEPT !.pc = "after"]
    BY <1>3 DEF Finish
  <2>2. /\ DOMAIN reported = Fields /\ reported.job = t.job /\ Untouched(reported)
    BY DEF Fields, Untouched
  <2>3. DOMAIN u = Fields /\ u.job = t.job /\ Untouched(u) /\ u.pc \in {"after", "end"}
    BY <2>1, <2>2 DEF Conclude, Fields, Untouched
  <2> QED BY <2>3 DEF Good
<1> QED BY <1>1, <1>2, <1>3

-----------------------------------------------------------------------------
(* The invariant.                                                          *)

LEMMA OneRunStep ==
  ASSUME RunInv, NEW r \in Run, NEW t, Becomes(r, t), DOMAIN t = Fields,
         t.job \in ScenarioId => Good(t, Env[r]),
         t.job \notin ScenarioId => t.pc \in CommandStep
  PROVE  RunInv'
BY DEF RunInv, Becomes

LEMMA InvInit == Init => RunInv
BY DEF Init, RunInv, CommandStep, Fresh, Fields, Good, Untouched

LEMMA InvStart ==
  ASSUME RunInv, NEW r \in Run, NEW job, Start(r, job)
  PROVE  RunInv'
<1> DEFINE s == Scenarios[job]
           begun == IF s.skipRemote THEN Fresh(job)
                    ELSE [Fresh(job) EXCEPT !.before = platform, !.after = platform]
           t == IF Available(s, Env[r]) THEN begun ELSE Failed(Fresh(job))
<1>1. DOMAIN t = Fields /\ t.job = job /\ Untouched(t) /\ t.audit = <<>>
  BY DEF Fresh, Failed, Fields, Untouched
<1>2. t.pc = IF Available(s, Env[r]) THEN "resolve" ELSE "end"
  BY DEF Fresh, Failed
<1>3. Good(t, Env[r])
  BY <1>1, <1>2 DEF Good
<1> QED BY <1>1, <1>3, OneRunStep DEF Start

LEMMA InvEvaluateManifest ==
  ASSUME RunInv, NEW r \in Run, run[r].job \in ScenarioId, EvaluateManifest(r)
  PROVE  RunInv'
<1> DEFINE s == ScenarioOf(r)
<1>1. PICK d \in DecisionsOf(s) :
        LET t == IF s.gated THEN [run[r] EXCEPT !.decision = d] ELSE [run[r] EXCEPT !.would = d]
        IN Becomes(r, IF s.gated /\ Denied(d)
                      THEN [Refuse(t, "policy", d.class) EXCEPT !.pc = "after"]
                      ELSE [t EXCEPT !.pc = "apply", !.todo = Declared(s)])
  BY DEF EvaluateManifest
<1> DEFINE t == IF s.gated THEN [run[r] EXCEPT !.decision = d] ELSE [run[r] EXCEPT !.would = d]
           u == IF s.gated /\ Denied(d)
                THEN [Refuse(t, "policy", d.class) EXCEPT !.pc = "after"]
                ELSE [t EXCEPT !.pc = "apply", !.todo = Declared(s)]
<1>2. /\ DOMAIN run[r] = Fields /\ Untouched(run[r]) /\ run[r].audit = <<>>
      /\ Available(s, Env[r]) /\ s.manifest # ""
  BY DEF RunInv, Good, EvaluateManifest, At, ScenarioOf
<1>3. DOMAIN t = Fields /\ t.job = run[r].job /\ Untouched(t) /\ t.audit = <<>>
      /\ (s.gated => t.decision = d)
  BY <1>2 DEF Fields, Untouched
<1>4. Becomes(r, u)
  BY <1>1
<1> HIDE DEF t
<1>5. CASE s.gated /\ Denied(d)
  <2>1. u = [Refuse(t, "policy", d.class) EXCEPT !.pc = "after"]
    BY <1>5
  <2>2. DOMAIN u = Fields /\ u.job = t.job /\ Untouched(u) /\ u.pc = "after"
    BY <1>3, <2>1 DEF Refuse, Fields, Untouched
  <2>3. Good(u, Env[r])
    BY <1>2, <1>3, <2>2 DEF Good, ScenarioOf
  <2> HIDE DEF u
  <2> QED BY <1>3, <1>4, <2>2, <2>3, OneRunStep
<1>6. CASE ~(s.gated /\ Denied(d))
  <2>1. u = [t EXCEPT !.pc = "apply", !.todo = Declared(s)]
    BY <1>6
  <2>2. DOMAIN u = Fields /\ u.job = t.job /\ Untouched(u) /\ u.pc = "apply" /\ u.audit = <<>>
        /\ u.decision = t.decision
    BY <1>3, <2>1 DEF Fields, Untouched
  <2>3. s.gated => Sanctioned(u)
    <3>1. SUFFICES ASSUME s.gated PROVE Sanctioned(u)
      OBVIOUS
    <3>2. /\ d # None /\ d.result = "admit"
          /\ Evaluated(s) # Unparsable /\ Admits(Evaluated(s), AllowlistOf[s.allowlist])
      BY <1>6, <3>1, NotDenied DEF DecisionsOf
    <3>3. u.job = run[r].job /\ u.decision = d
      BY <1>3, <2>2, <3>1
    <3> HIDE DEF u
    <3> QED BY <1>2, <3>2, <3>3 DEF Sanctioned, Admitted, ScenarioOf
  <2>4. Good(u, Env[r])
    BY <1>2, <1>3, <2>2, <2>3 DEF Good, ScenarioOf, Reviewed
  <2> HIDE DEF u
  <2> QED BY <1>3, <1>4, <2>2, <2>4, OneRunStep
<1> QED BY <1>5, <1>6

LEMMA InvEvaluate ==
  ASSUME RunInv, NEW r \in Run, run[r].job \in ScenarioId, Evaluate(r)
  PROVE  RunInv'
<1> DEFINE s == ScenarioOf(r)
           file == IF s.artifact # "" THEN None ELSE [plan |-> s.var, appended |-> FALSE]
           t == [run[r] EXCEPT !.file = file]
<1>1. PICK d \in DecisionsOf(s) : Becomes(r, Judged(s, t, d))
  BY DEF Evaluate
<1>2. /\ DOMAIN run[r] = Fields /\ Untouched(run[r]) /\ run[r].audit = <<>>
      /\ Available(s, Env[r])
  BY DEF RunInv, Good, Evaluate, At, ScenarioOf
<1>3. DOMAIN t = Fields /\ t.job = run[r].job /\ Untouched(t) /\ t.audit = <<>>
  BY <1>2 DEF Fields, Untouched
<1> HIDE DEF t
<1>4. CASE ~s.gated \/ s.scan \/ s.denylist
  <2> DEFINE u == [t EXCEPT !.would = d]
  <2>1. Judged(s, t, d) = Finish(s, u)
    BY <1>4 DEF Judged
  <2>2. DOMAIN u = Fields /\ u.job = t.job /\ Untouched(u)
    BY <1>3 DEF Fields, Untouched
  <2>3. ~Reviewed(s)
    BY <1>4, ScenarioFacts DEF Reviewed, ScenarioOf
  <2> HIDE DEF u
  <2> QED BY <1>1, <1>2, <1>3, <2>1, <2>2, <2>3, FinishGood, OneRunStep DEF ScenarioOf
<1>5. CASE ~(~s.gated \/ s.scan \/ s.denylist) /\ Denied(d) /\ ~s.advisory
  <2> DEFINE u == Refuse([t EXCEPT !.decision = d], "policy", d.class)
  <2>1. Judged(s, t, d) = Finish(s, u)
    BY <1>5 DEF Judged
  <2>2. DOMAIN u = Fields /\ u.job = t.job /\ Untouched(u) /\ u.audit # <<>>
    BY <1>3 DEF Fields, Untouched, Refuse
  <2> HIDE DEF u
  <2> QED BY <1>1, <1>2, <1>3, <2>1, <2>2, FinishGood, OneRunStep DEF ScenarioOf
<1>6. CASE ~(~s.gated \/ s.scan \/ s.denylist) /\ ~(Denied(d) /\ ~s.advisory)
  <2> DEFINE u == [t EXCEPT !.decision = d, !.advisory = Denied(d), !.pc = "bind"]
  <2>1. Judged(s, t, d) = u
    BY <1>6 DEF Judged
  <2>2. DOMAIN u = Fields /\ u.job = t.job /\ Untouched(u) /\ u.audit = <<>>
        /\ u.pc = "bind" /\ u.decision = d
    BY <1>3 DEF Fields, Untouched
  <2>3. Reviewed(s) => Admitted(u)
    BY <1>3, <1>6, <2>2, NotDenied DEF Reviewed, Admitted, DecisionsOf, ScenarioOf
  <2>4. Good(u, Env[r])
    BY <1>2, <1>3, <2>2, <2>3 DEF Good, ScenarioOf
  <2>5. Becomes(r, u)
    BY <1>1, <2>1
  <2> HIDE DEF u
  <2> QED BY <1>3, <2>2, <2>4, <2>5, OneRunStep
<1> QED BY <1>4, <1>5, <1>6

LEMMA InvBindApproval ==
  ASSUME RunInv, NEW r \in Run, run[r].job \in ScenarioId, BindApproval(r)
  PROVE  RunInv'
<1> DEFINE s == ScenarioOf(r)
           t == run[r]
           rehearsed == Rehearsed(t.job, t.file)
           class == VerifyApproval(t.job, rehearsed.file, rehearsed.approval)
           bound == [t EXCEPT !.approval = rehearsed.approval, !.file = rehearsed.file]
           u == IF class = "" THEN bound ELSE Refuse(bound, "binding", class)
<1>1. Becomes(r, Finish(s, u))
  BY DEF BindApproval
<1>2. /\ DOMAIN t = Fields /\ Untouched(t) /\ t.audit = <<>>
      /\ Available(s, Env[r]) /\ (Reviewed(s) => Admitted(t))
  BY DEF RunInv, Good, BindApproval, At, ScenarioOf
<1>3. /\ DOMAIN bound = Fields /\ bound.job = t.job /\ Untouched(bound) /\ bound.audit = <<>>
      /\ bound.decision = t.decision
      /\ bound.approval = rehearsed.approval /\ bound.file = rehearsed.file
  BY <1>2 DEF Fields, Untouched
<1> HIDE DEF bound
<1>4. CASE class = ""
  <2>1. bound.approval = Approval(bound.job, bound.file)
    BY <1>3, <1>4, VerifiedIsApproved
  <2>2. Reviewed(s) => Sanctioned(bound)
    BY <1>2, <1>3, <2>1 DEF Sanctioned, Admitted
  <2>3. u = bound
    BY <1>4
  <2> QED BY <1>1, <1>2, <1>3, <2>2, <2>3, FinishGood, OneRunStep DEF ScenarioOf
<1>5. CASE class # ""
  <2> DEFINE v == Refuse(bound, "binding", class)
  <2>1. u = v
    BY <1>5
  <2>2. DOMAIN v = Fields /\ v.job = t.job /\ Untouched(v) /\ v.audit # <<>>
    BY <1>3 DEF Fields, Untouched, Refuse
  <2> HIDE DEF u, v
  <2> QED BY <1>1, <1>2, <2>1, <2>2, FinishGood, OneRunStep DEF ScenarioOf
<1> QED BY <1>4, <1>5

LEMMA InvPut ==
  ASSUME RunInv, NEW r \in Run, run[r].job \in ScenarioId, Put(r)
  PROVE  RunInv'
<1>1. PICK slot : Becomes(r, [run[r] EXCEPT !.todo = @ \ {slot}, !.wrote = @ \cup {slot}])
  BY DEF Put
<1> DEFINE u == [run[r] EXCEPT !.todo = @ \ {slot}, !.wrote = @ \cup {slot}]
<1>2. DOMAIN run[r] = Fields /\ run[r].pc = "apply" /\ Good(run[r], Env[r])
  BY DEF RunInv, Put, At
<1>3. SameRecord(run[r], u) /\ u.pc = "apply"
  BY <1>2 DEF SameRecord, Fields
<1> HIDE DEF u
<1>4. Reviewed(ScenarioOf(r)) => Sanctioned(u)
  BY <1>2, <1>3, SanctionedFrame DEF Good, ScenarioOf
<1>5. Good(u, Env[r])
  BY <1>2, <1>3, <1>4 DEF Good, SameRecord, ScenarioOf
<1> QED BY <1>1, <1>3, <1>5, OneRunStep DEF SameRecord, u

LEMMA InvApplied ==
  ASSUME RunInv, NEW r \in Run, run[r].job \in ScenarioId, Applied(r)
  PROVE  RunInv'
<1> DEFINE t == [run[r] EXCEPT !.applied = TRUE, !.pc = "after"]
           u == IF t.audit = <<>> THEN [t EXCEPT !.result = "DEPLOYED"]
                ELSE [t EXCEPT !.outOfBand = TRUE]
<1>1. Becomes(r, u)
  BY DEF Applied
<1>2. DOMAIN run[r] = Fields /\ run[r].pc = "apply" /\ Good(run[r], Env[r])
  BY DEF RunInv, Applied, At
<1>3. SameRecord(run[r], u) /\ u.pc = "after"
  BY <1>2 DEF SameRecord, Fields
<1> HIDE DEF u
<1>4. Reviewed(ScenarioOf(r)) => Sanctioned(u)
  BY <1>2, <1>3, SanctionedFrame DEF Good, ScenarioOf
<1>5. Good(u, Env[r])
  BY <1>2, <1>3, <1>4 DEF Good, SameRecord, ScenarioOf
<1> QED BY <1>1, <1>3, <1>5, OneRunStep DEF SameRecord

LEMMA InvReadAfter ==
  ASSUME RunInv, NEW r \in Run, run[r].job \in ScenarioId, ReadAfter(r)
  PROVE  RunInv'
<1> DEFINE s == ScenarioOf(r)
           t == [run[r] EXCEPT !.after = platform,
                               !.appliedState = IF run[r].applied THEN platform ELSE None]
           u == IF s.drift /\ t.applied THEN [t EXCEPT !.pc = "mutate"] ELSE Conclude(s, t)
<1>1. Becomes(r, u)
  BY DEF ReadAfter
<1>2. DOMAIN run[r] = Fields /\ run[r].pc = "after" /\ Good(run[r], Env[r])
  BY DEF RunInv, ReadAfter, At
<1>3. /\ SameRecord(run[r], u) /\ u.wrote = run[r].wrote /\ u.applied = run[r].applied
      /\ u.pc \in {"mutate", "end"} /\ (u.pc = "mutate" => run[r].applied)
  BY <1>2 DEF SameRecord, Fields, Conclude
<1> HIDE DEF u
<1>4. Reviewed(s) => (Untouched(u) /\ u.pc = "end") \/ Sanctioned(u)
  BY <1>2, <1>3, SanctionedFrame DEF Good, ScenarioOf, Untouched
<1>5. Good(u, Env[r])
  BY <1>2, <1>3, <1>4 DEF Good, SameRecord, ScenarioOf, Untouched
<1> QED BY <1>1, <1>3, <1>5, OneRunStep DEF SameRecord

\* The steps of a scenario that drifts, and a failure anywhere.
LEMMA InvDrift ==
  ASSUME RunInv, NEW r \in Run, run[r].job \in ScenarioId,
         Mutate(r) \/ ReadMutated(r) \/ DriftRead(r) \/ DriftReport(r) \/ Fail(r)
  PROVE  RunInv'
<1>1. DOMAIN run[r] = Fields /\ Good(run[r], Env[r])
  BY DEF RunInv
<1>2. CASE Mutate(r)
  <2> DEFINE u == [run[r] EXCEPT !.pc = "mutated", !.wrote = @ \cup {GrantSlot(ConsoleGrant)}]
  <2>1. Becomes(r, u) /\ run[r].pc = "mutate"
    BY <1>2 DEF Mutate, At
  <2>2. SameRecord(run[r], u) /\ u.pc = "mutated"
    BY <1>1 DEF SameRecord, Fields
  <2> HIDE DEF u
  <2>3. Reviewed(ScenarioOf(r)) => Sanctioned(u)
    BY <1>1, <2>1, <2>2, SanctionedFrame DEF Good, ScenarioOf
  <2>4. Good(u, Env[r])
    BY <1>1, <2>1, <2>2, <2>3 DEF Good, SameRecord, ScenarioOf
  <2> QED BY <2>1, <2>2, <2>4, OneRunStep DEF SameRecord
<1>3. CASE ReadMutated(r)
  <2> DEFINE u == [run[r] EXCEPT !.after = platform, !.pc = "drift"]
  <2>1. Becomes(r, u) /\ run[r].pc = "mutated"
    BY <1>3 DEF ReadMutated, At
  <2>2. SameRecord(run[r], u) /\ u.pc = "drift" /\ u.wrote = run[r].wrote /\ u.applied = run[r].applied
    BY <1>1 DEF SameRecord, Fields
  <2> QED BY <1>1, <2>1, <2>2, QuietStep, OneRunStep DEF SameRecord
<1>4. CASE DriftRead(r)
  <2> DEFINE u == [run[r] EXCEPT !.live = platform, !.pc = "digest"]
  <2>1. Becomes(r, u) /\ run[r].pc = "drift"
    BY <1>4 DEF DriftRead, At
  <2>2. SameRecord(run[r], u) /\ u.pc = "digest" /\ u.wrote = run[r].wrote /\ u.applied = run[r].applied
    BY <1>1 DEF SameRecord, Fields
  <2> QED BY <1>1, <2>1, <2>2, QuietStep, OneRunStep DEF SameRecord
<1>5. CASE DriftReport(r)
  <2>1. PICK d : LET t == [run[r] EXCEPT !.drift = [digest |-> platform, detected |-> Denied(d)]]
                 IN Becomes(r, IF t.job \in ScenarioId THEN Conclude(ScenarioOf(r), t)
                               ELSE [t EXCEPT !.pc = "end", !.passed = ~Denied(d)])
    BY <1>5 DEF DriftReport
  <2> DEFINE t == [run[r] EXCEPT !.drift = [digest |-> platform, detected |-> Denied(d)]]
             u == Conclude(ScenarioOf(r), t)
  <2>2. run[r].pc = "digest" /\ t.job \in ScenarioId
    BY <1>1, <1>5 DEF DriftReport, At, Fields
  <2>3. SameRecord(run[r], u) /\ u.pc = "end" /\ u.wrote = run[r].wrote /\ u.applied = run[r].applied
    BY <1>1 DEF SameRecord, Fields, Conclude
  <2>4. Becomes(r, u)
    BY <2>1, <2>2
  <2> HIDE DEF u
  <2> QED BY <1>1, <2>2, <2>3, <2>4, QuietStep, OneRunStep DEF SameRecord
<1>6. CASE Fail(r)
  <2> DEFINE u == Failed(run[r])
  <2>1. Becomes(r, u)
    BY <1>6 DEF Fail
  <2>2. SameRecord(run[r], u) /\ u.pc = "end" /\ u.wrote = run[r].wrote /\ u.applied = run[r].applied
    BY <1>1 DEF SameRecord, Fields, Failed
  <2> HIDE DEF u
  <2>3. Good(u, Env[r])
    BY <1>1, <2>2, SanctionedFrame DEF Good, Untouched, SameRecord
  <2> QED BY <2>1, <2>2, <2>3, OneRunStep DEF SameRecord
<1> QED BY <1>2, <1>3, <1>4, <1>5, <1>6

\* The steps of the operator commands.
LEMMA InvCommand ==
  ASSUME RunInv, NEW r \in Run,
         \/ StartDrift(r) \/ StartRemoval(r) \/ Remove(r) \/ Removed(r)
         \/ run[r].job \notin ScenarioId /\ (DriftRead(r) \/ DriftReport(r) \/ Fail(r))
  PROVE  RunInv'
<1>1. DOMAIN run[r] = Fields /\ (run[r].pc = "remove" => run[r].job \notin ScenarioId)
  BY DEF RunInv, Good
<1>2. CASE StartDrift(r)
  <2> DEFINE u == [Fresh("drift") EXCEPT !.pc = "drift"]
  <2>1. DOMAIN u = Fields /\ u.job = "drift" /\ u.pc = "drift"
    BY DEF Fresh, Fields
  <2> QED BY <1>2, <2>1, Commands, OneRunStep DEF StartDrift, CommandStep
<1>3. CASE StartRemoval(r)
  <2> DEFINE todo == {slot \in UndeclaredSlots : platform[slot] # None}
             u == [Fresh("remove-undeclared") EXCEPT !.pc = "remove", !.todo = todo]
  <2>1. DOMAIN u = Fields /\ u.job = "remove-undeclared" /\ u.pc = "remove"
    BY DEF Fresh, Fields
  <2> QED BY <1>3, <2>1, Commands, OneRunStep DEF StartRemoval, CommandStep
<1>4. CASE Remove(r)
  <2>1. PICK slot : Becomes(r, IF platform[slot] = None THEN Failed(run[r])
                               ELSE [run[r] EXCEPT !.todo = @ \ {slot}, !.wrote = @ \cup {slot}])
    BY <1>4 DEF Remove
  <2> DEFINE u == IF platform[slot] = None THEN Failed(run[r])
                  ELSE [run[r] EXCEPT !.todo = @ \ {slot}, !.wrote = @ \cup {slot}]
  <2>2. DOMAIN u = Fields /\ u.job = run[r].job /\ u.pc \in {"remove", "end"}
    BY <1>1, <1>4 DEF Remove, At, Failed, Fields
  <2>3. run[r].job \notin ScenarioId
    BY <1>1, <1>4 DEF Remove, At
  <2> QED BY <2>1, <2>2, <2>3, OneRunStep DEF CommandStep
<1>5. CASE Removed(r)
  <2> DEFINE u == [run[r] EXCEPT !.pc = "end", !.passed = TRUE]
  <2>1. DOMAIN u = Fields /\ u.job = run[r].job /\ u.pc = "end"
    BY <1>1 DEF Fields
  <2>2. run[r].job \notin ScenarioId
    BY <1>1, <1>5 DEF Removed, At
  <2> QED BY <1>5, <2>1, <2>2, OneRunStep DEF CommandStep, Removed
<1>6. CASE run[r].job \notin ScenarioId /\ DriftRead(r)
  <2> DEFINE u == [run[r] EXCEPT !.live = platform, !.pc = "digest"]
  <2>1. DOMAIN u = Fields /\ u.job = run[r].job /\ u.pc = "digest"
    BY <1>1 DEF Fields
  <2> QED BY <1>6, <2>1, OneRunStep DEF CommandStep, DriftRead
<1>7. CASE run[r].job \notin ScenarioId /\ DriftReport(r)
  <2>1. PICK d : LET t == [run[r] EXCEPT !.drift = [digest |-> platform, detected |-> Denied(d)]]
                 IN Becomes(r, IF t.job \in ScenarioId THEN Conclude(ScenarioOf(r), t)
                               ELSE [t EXCEPT !.pc = "end", !.passed = ~Denied(d)])
    BY <1>7 DEF DriftReport
  <2> DEFINE t == [run[r] EXCEPT !.drift = [digest |-> platform, detected |-> Denied(d)]]
             u == [t EXCEPT !.pc = "end", !.passed = ~Denied(d)]
  <2>2. t.job = run[r].job /\ DOMAIN u = Fields /\ u.job = run[r].job /\ u.pc = "end"
    BY <1>1 DEF Fields
  <2>3. Becomes(r, u)
    BY <1>7, <2>1, <2>2
  <2> HIDE DEF u
  <2> QED BY <1>7, <2>2, <2>3, OneRunStep DEF CommandStep
<1>8. CASE run[r].job \notin ScenarioId /\ Fail(r)
  <2>1. DOMAIN Failed(run[r]) = Fields /\ Failed(run[r]).job = run[r].job
        /\ Failed(run[r]).pc = "end"
    BY <1>1 DEF Failed, Fields
  <2> QED BY <1>8, <2>1, OneRunStep DEF CommandStep, Fail
<1> QED BY <1>2, <1>3, <1>4, <1>5, <1>6, <1>7, <1>8

LEMMA InvStep == RunInv /\ [Next]_vars => RunInv'
<1> SUFFICES ASSUME RunInv, [Next]_vars PROVE RunInv'
  OBVIOUS
<1>1. CASE UNCHANGED vars
  BY <1>1 DEF RunInv, vars
<1>2. ASSUME NEW r \in Run, Step(r) PROVE RunInv'
  <2>1. CASE Begin(r)
    BY <2>1, InvStart, InvCommand DEF Begin
  <2>2. CASE run[r].job \in ScenarioId
    BY <1>2, <2>1, <2>2, InvEvaluateManifest, InvEvaluate, InvBindApproval, InvPut, InvApplied,
       InvReadAfter, InvDrift, InvCommand DEF Step
  <2>3. CASE run[r].job \notin ScenarioId
    <3>1. run[r].pc \in CommandStep
      BY <2>3 DEF RunInv
    <3>2. ~EvaluateManifest(r) /\ ~Evaluate(r) /\ ~BindApproval(r) /\ ~Put(r) /\ ~Applied(r)
          /\ ~ReadAfter(r) /\ ~Mutate(r) /\ ~ReadMutated(r)
      BY <3>1 DEF CommandStep, At, EvaluateManifest, Evaluate, BindApproval, Put, Applied,
                  ReadAfter, Mutate, ReadMutated
    <3> QED BY <1>2, <2>1, <2>3, <3>2, InvCommand DEF Step
  <2> QED BY <2>2, <2>3
<1> QED BY <1>1, <1>2 DEF Next

\* The invariant holds in every behaviour.
THEOREM RunsAreGood == Spec => []RunInv
<1> QED BY InvInit, InvStep, PTL DEF Spec

-----------------------------------------------------------------------------
\* Good transcripts change nothing when refused, and write what was approved.
LEMMA GoodRuns == RunInv => RefusalChangesNothing /\ AppliedWasApproved
<1>1. RunInv => RefusalChangesNothing
  BY DEF RunInv, Good, Untouched, RefusalChangesNothing, Scenic, ScenarioOf
<1>2. RunInv => AppliedWasApproved
  BY DEF RunInv, Good, Untouched, Reviewed, Sanctioned, Admitted, Admissible, AppliedWasApproved,
         Scenic, ScenarioOf
<1> QED BY <1>1, <1>2

\* A run that was refused, or that its environment does not offer, has written
\* nothing, however many runs share the platform (Transcript.refuse, finish).
THEOREM RefusalTheorem == Spec => []RefusalChangesNothing
<1>1. RunInv => RefusalChangesNothing
  BY GoodRuns
<1> QED BY <1>1, RunsAreGood, PTL

\* What a gated run writes was admitted by the policy and, on the plan path,
\* approved as this very artifact for this very run (gate.Evaluate,
\* VerifyApproval, finish).
THEOREM ApprovalTheorem == Spec => []AppliedWasApproved
<1>1. RunInv => AppliedWasApproved
  BY GoodRuns
<1> QED BY <1>1, RunsAreGood, PTL

-----------------------------------------------------------------------------
(* What a transcript says of its run.                                      *)

Unaudited(t) == t.audit = <<>>
AuditedOnce(t) == \E event : t.audit = <<event>>

\* Nothing was applied and nothing else is reported.
Pending(t) == Untouched(t) /\ t.result = "DEPLOY_REFUSED"

\* The labels between the apply, or the refusal, and the end.
Settled(t) ==
  \/ t.pc \in {"after", "mutate", "mutated", "drift", "digest"}
  \/ t.pc = "end" /\ ~t.error

\* A scenario's transcript, at any of its steps.
Faithful(t) ==
  LET s == Scenarios[t.job] IN
    /\ Unaudited(t) \/ AuditedOnce(t)
    /\ t.pc \in {"resolve", "bind"} => Pending(t) /\ Unaudited(t)
    /\ t.pc = "apply" => /\ Declared(s) \ t.todo \subseteq t.wrote
                         /\ ~t.applied /\ t.result = "DEPLOY_REFUSED"
    /\ t.pc \in {"mutate", "mutated", "drift", "digest"} => t.applied
    /\ t.applied => Declared(s) \subseteq t.wrote
    /\ t.result = "DEPLOYED" => Unaudited(t) /\ (s.skipApply \/ t.applied)
    /\ Settled(t) => /\ t.result = "DEPLOY_REFUSED" <=> ~Unaudited(t)
                     /\ ~t.applied => t.wrote = {}

\* The inductive invariant, beside RunInv.
ReportInv == \A r \in Run : run[r].job \in ScenarioId => Faithful(run[r])

LEMMA AuditedIsNoBlank == ASSUME NEW t, AuditedOnce(t) PROVE ~Unaudited(t)
<1>1. PICK event : t.audit = <<event>>
  BY DEF AuditedOnce
<1>2. Len(<<event>>) = 1 /\ Len(<<>>) = 0
  OBVIOUS
<1> QED BY <1>1, <1>2 DEF Unaudited

\* The one audit event of a refusal.
LEMMA RefuseOnce ==
  ASSUME NEW t, NEW stage, NEW class, DOMAIN t = Fields, Pending(t), Unaudited(t)
  PROVE  LET u == Refuse(t, stage, class)
         IN DOMAIN u = Fields /\ u.job = t.job /\ Pending(u) /\ AuditedOnce(u)
<1> DEFINE u == Refuse(t, stage, class)
           event == [stage |-> stage, class |-> class]
<1>1. Append(<<>>, event) = <<event>>
  OBVIOUS
<1>2. DOMAIN u = Fields /\ u.job = t.job /\ Pending(u) /\ u.audit = Append(t.audit, event)
  BY DEF Refuse, Fields, Pending, Untouched
<1>3. u.audit = <<event>>
  BY <1>1, <1>2 DEF Unaudited
<1> HIDE DEF u
<1>4. AuditedOnce(u)
  BY <1>3 DEF AuditedOnce
<1> QED BY <1>2, <1>4 DEF u

\* A step that leaves what the transcript reports as it is.
LEMMA FaithfulFrame ==
  ASSUME NEW t, NEW u, Faithful(t), u.job = t.job, u.audit = t.audit, u.result = t.result,
         u.wrote = t.wrote, u.applied = t.applied,
         \/ u.pc = "end" /\ u.error
         \/ /\ u.pc \in {"after", "mutate", "mutated", "drift", "digest", "end"}
            /\ Settled(t)
            /\ u.pc \in {"mutate", "mutated", "drift", "digest"} => t.applied
  PROVE  Faithful(u)
BY DEF Faithful, Unaudited, AuditedOnce, Settled

LEMMA FinishFaithful ==
  ASSUME NEW t, DOMAIN t = Fields, t.job \in ScenarioId, Pending(t),
         Unaudited(t) \/ AuditedOnce(t)
  PROVE  LET u == Finish(Scenarios[t.job], t) IN u.job = t.job /\ Faithful(u)
<1> DEFINE s == Scenarios[t.job]
           u == Finish(s, t)
           toApply == [t EXCEPT !.pc = "apply", !.todo = Declared(s)]
           reported == IF t.audit # <<>> THEN t ELSE [t EXCEPT !.result = "DEPLOYED"]
<1>1. CASE t.audit = <<>> /\ s.artifact # ""
  <2>1. u = Failed(t)
    BY <1>1 DEF Finish
  <2>2. /\ Failed(t).pc = "end" /\ Failed(t).error /\ Failed(t).job = t.job
        /\ Failed(t).audit = t.audit /\ Pending(Failed(t))
    BY DEF Failed, Fields, Pending, Untouched
  <2> QED BY <2>1, <2>2 DEF Faithful, Pending, Untouched, Settled, Unaudited, AuditedOnce
<1>2. CASE /\ ~(t.audit = <<>> /\ s.artifact # "")
           /\ IF t.audit # <<>> THEN s.outOfBand ELSE ~s.skipApply
  <2>1. u = toApply
    BY <1>2 DEF Finish
  <2>2. /\ toApply.pc = "apply" /\ toApply.todo = Declared(s) /\ toApply.job = t.job
        /\ toApply.audit = t.audit /\ Pending(toApply)
    BY DEF Fields, Pending, Untouched
  <2> HIDE DEF toApply
  <2> QED BY <2>1, <2>2 DEF Faithful, Pending, Untouched, Settled, Unaudited, AuditedOnce
<1>3. CASE /\ ~(t.audit = <<>> /\ s.artifact # "")
           /\ ~IF t.audit # <<>> THEN s.outOfBand ELSE ~s.skipApply
  <2>1. u = IF s.skipRemote THEN Conclude(s, reported) ELSE [reported EXCEPT !.pc = "after"]
    BY <1>3 DEF Finish
  <2>2. /\ DOMAIN reported = Fields /\ reported.job = t.job /\ Untouched(reported)
        /\ reported.audit = t.audit
        /\ reported.result = IF Unaudited(t) THEN "DEPLOYED" ELSE "DEPLOY_REFUSED"
    BY DEF Fields, Pending, Untouched, Unaudited
  <2> HIDE DEF reported
  <2>3. /\ u.job = t.job /\ Untouched(u) /\ u.pc \in {"after", "end"} /\ u.audit = t.audit
        /\ u.result = IF Unaudited(t) THEN "DEPLOYED" ELSE "DEPLOY_REFUSED"
    BY <2>1, <2>2 DEF Conclude, Fields, Untouched
  <2>4. Unaudited(t) => s.skipApply
    BY <1>3 DEF Unaudited
  <2> HIDE DEF u
  <2>5. Faithful(u)
    BY <2>3, <2>4 DEF Faithful, Untouched, Settled, Unaudited, AuditedOnce
  <2> QED BY <2>3, <2>5 DEF u
<1> QED BY <1>1, <1>2, <1>3

LEMMA ReportStep ==
  ASSUME RunInv, ReportInv, NEW r \in Run, NEW t, Becomes(r, t),
         t.job \in ScenarioId => Faithful(t)
  PROVE  ReportInv'
BY DEF RunInv, ReportInv, Becomes

LEMMA ReportInit == Init => ReportInv
BY DEF Init, ReportInv, Fresh, Faithful, Unaudited, Settled

LEMMA ReportStart ==
  ASSUME RunInv, ReportInv, NEW r \in Run, NEW job, Start(r, job)
  PROVE  ReportInv'
<1> DEFINE s == Scenarios[job]
           begun == IF s.skipRemote THEN Fresh(job)
                    ELSE [Fresh(job) EXCEPT !.before = platform, !.after = platform]
           t == IF Available(s, Env[r]) THEN begun ELSE Failed(Fresh(job))
<1>1. /\ Pending(t) /\ Unaudited(t)
      /\ t.pc \in {"resolve", "end"} /\ (t.pc = "end" => t.error)
  BY DEF Fresh, Failed, Pending, Untouched, Unaudited
<1>2. Faithful(t)
  BY <1>1 DEF Faithful, Pending, Untouched, Settled
<1> QED BY <1>2, ReportStep DEF Start

LEMMA ReportEvaluateManifest ==
  ASSUME RunInv, ReportInv, NEW r \in Run, run[r].job \in ScenarioId, EvaluateManifest(r)
  PROVE  ReportInv'
<1> DEFINE s == ScenarioOf(r)
<1>1. PICK d \in DecisionsOf(s) :
        LET t == IF s.gated THEN [run[r] EXCEPT !.decision = d] ELSE [run[r] EXCEPT !.would = d]
        IN Becomes(r, IF s.gated /\ Denied(d)
                      THEN [Refuse(t, "policy", d.class) EXCEPT !.pc = "after"]
                      ELSE [t EXCEPT !.pc = "apply", !.todo = Declared(s)])
  BY DEF EvaluateManifest
<1> DEFINE t == IF s.gated THEN [run[r] EXCEPT !.decision = d] ELSE [run[r] EXCEPT !.would = d]
           refused == Refuse(t, "policy", d.class)
           u == IF s.gated /\ Denied(d) THEN [refused EXCEPT !.pc = "after"]
                ELSE [t EXCEPT !.pc = "apply", !.todo = Declared(s)]
<1>2. DOMAIN run[r] = Fields /\ Pending(run[r]) /\ Unaudited(run[r])
  BY DEF RunInv, ReportInv, Faithful, EvaluateManifest, At
<1>3. DOMAIN t = Fields /\ t.job = run[r].job /\ Pending(t) /\ Unaudited(t)
  BY <1>2 DEF Fields, Pending, Untouched, Unaudited
<1>4. Becomes(r, u)
  BY <1>1
<1> HIDE DEF t
<1>5. CASE s.gated /\ Denied(d)
  <2>1. DOMAIN refused = Fields /\ refused.job = t.job /\ Pending(refused) /\ AuditedOnce(refused)
    BY <1>3, RefuseOnce
  <2> HIDE DEF refused
  <2>2. u = [refused EXCEPT !.pc = "after"]
    BY <1>5
  <2>3. Pending(u) /\ AuditedOnce(u) /\ u.pc = "after"
    BY <2>1, <2>2 DEF Fields, Pending, Untouched, AuditedOnce
  <2> HIDE DEF u
  <2>4. Faithful(u)
    BY <2>3, AuditedIsNoBlank DEF Faithful, Pending, Untouched, Settled
  <2> QED BY <1>4, <2>4, ReportStep
<1>6. CASE ~(s.gated /\ Denied(d))
  <2>1. u = [t EXCEPT !.pc = "apply", !.todo = Declared(s)]
    BY <1>6
  <2>2. Pending(u) /\ Unaudited(u) /\ u.pc = "apply" /\ u.job = run[r].job /\ u.todo = Declared(s)
    BY <1>3, <2>1 DEF Fields, Pending, Untouched, Unaudited
  <2> HIDE DEF u
  <2>3. Faithful(u)
    BY <2>2 DEF Faithful, Pending, Untouched, Settled, ScenarioOf
  <2> QED BY <1>4, <2>3, ReportStep
<1> QED BY <1>5, <1>6

LEMMA ReportEvaluate ==
  ASSUME RunInv, ReportInv, NEW r \in Run, run[r].job \in ScenarioId, Evaluate(r)
  PROVE  ReportInv'
<1> DEFINE s == ScenarioOf(r)
           file == IF s.artifact # "" THEN None ELSE [plan |-> s.var, appended |-> FALSE]
           t == [run[r] EXCEPT !.file = file]
<1>1. PICK d \in DecisionsOf(s) : Becomes(r, Judged(s, t, d))
  BY DEF Evaluate
<1>2. DOMAIN run[r] = Fields /\ Pending(run[r]) /\ Unaudited(run[r])
  BY DEF RunInv, ReportInv, Faithful, Evaluate, At
<1>3. DOMAIN t = Fields /\ t.job = run[r].job /\ Pending(t) /\ Unaudited(t)
  BY <1>2 DEF Fields, Pending, Untouched, Unaudited
<1> HIDE DEF t
<1>4. CASE ~s.gated \/ s.scan \/ s.denylist
  <2> DEFINE u == [t EXCEPT !.would = d]
  <2>1. Judged(s, t, d) = Finish(s, u)
    BY <1>4 DEF Judged
  <2>2. DOMAIN u = Fields /\ u.job = t.job /\ Pending(u) /\ Unaudited(u)
    BY <1>3 DEF Fields, Pending, Untouched, Unaudited
  <2> HIDE DEF u
  <2> QED BY <1>1, <1>3, <2>1, <2>2, FinishFaithful, ReportStep DEF ScenarioOf
<1>5. CASE ~(~s.gated \/ s.scan \/ s.denylist) /\ Denied(d) /\ ~s.advisory
  <2> DEFINE v == [t EXCEPT !.decision = d]
             u == Refuse(v, "policy", d.class)
  <2>1. Judged(s, t, d) = Finish(s, u)
    BY <1>5 DEF Judged
  <2>2. DOMAIN v = Fields /\ v.job = t.job /\ Pending(v) /\ Unaudited(v)
    BY <1>3 DEF Fields, Pending, Untouched, Unaudited
  <2> HIDE DEF v
  <2>3. DOMAIN u = Fields /\ u.job = t.job /\ Pending(u) /\ AuditedOnce(u)
    BY <2>2, RefuseOnce
  <2> HIDE DEF u
  <2> QED BY <1>1, <1>3, <2>1, <2>3, FinishFaithful, ReportStep DEF ScenarioOf
<1>6. CASE ~(~s.gated \/ s.scan \/ s.denylist) /\ ~(Denied(d) /\ ~s.advisory)
  <2> DEFINE u == [t EXCEPT !.decision = d, !.advisory = Denied(d), !.pc = "bind"]
  <2>1. Becomes(r, u)
    BY <1>1, <1>6 DEF Judged
  <2>2. Pending(u) /\ Unaudited(u) /\ u.pc = "bind"
    BY <1>3 DEF Fields, Pending, Untouched, Unaudited
  <2> HIDE DEF u
  <2>3. Faithful(u)
    BY <2>2 DEF Faithful, Pending, Untouched, Settled
  <2> QED BY <2>1, <2>3, ReportStep
<1> QED BY <1>4, <1>5, <1>6

LEMMA ReportBindApproval ==
  ASSUME RunInv, ReportInv, NEW r \in Run, run[r].job \in ScenarioId, BindApproval(r)
  PROVE  ReportInv'
<1> DEFINE t == run[r]
           rehearsed == Rehearsed(t.job, t.file)
           class == VerifyApproval(t.job, rehearsed.file, rehearsed.approval)
           bound == [t EXCEPT !.approval = rehearsed.approval, !.file = rehearsed.file]
           refused == Refuse(bound, "binding", class)
           u == IF class = "" THEN bound ELSE refused
<1>1. Becomes(r, Finish(ScenarioOf(r), u))
  BY DEF BindApproval
<1>2. DOMAIN t = Fields /\ Pending(t) /\ Unaudited(t)
  BY DEF RunInv, ReportInv, Faithful, BindApproval, At
<1>3. DOMAIN bound = Fields /\ bound.job = t.job /\ Pending(bound) /\ Unaudited(bound)
  BY <1>2 DEF Fields, Pending, Untouched, Unaudited
<1> HIDE DEF bound, class
<1>4. DOMAIN refused = Fields /\ refused.job = t.job /\ Pending(refused) /\ AuditedOnce(refused)
  BY <1>3, RefuseOnce
<1> HIDE DEF refused
<1>5. DOMAIN u = Fields /\ u.job = t.job /\ Pending(u) /\ (Unaudited(u) \/ AuditedOnce(u))
  BY <1>3, <1>4
<1> HIDE DEF u
<1> QED BY <1>1, <1>5, FinishFaithful, ReportStep DEF ScenarioOf

\* Every resource that is no longer to be put was put.
LEMMA ReportPut ==
  ASSUME RunInv, ReportInv, NEW r \in Run, run[r].job \in ScenarioId, Put(r)
  PROVE  ReportInv'
<1>1. PICK slot : Becomes(r, [run[r] EXCEPT !.todo = @ \ {slot}, !.wrote = @ \cup {slot}])
  BY DEF Put
<1> DEFINE u == [run[r] EXCEPT !.todo = @ \ {slot}, !.wrote = @ \cup {slot}]
<1>2. DOMAIN run[r] = Fields /\ run[r].pc = "apply" /\ Faithful(run[r])
  BY DEF RunInv, ReportInv, Put, At
<1>3. /\ u.pc = "apply" /\ u.job = run[r].job /\ u.audit = run[r].audit
      /\ u.result = run[r].result /\ u.applied = run[r].applied
      /\ u.todo = run[r].todo \ {slot} /\ u.wrote = run[r].wrote \cup {slot}
  BY <1>2 DEF Fields
<1> HIDE DEF u
<1>4. Faithful(u)
  BY <1>2, <1>3 DEF Faithful, Settled, Unaudited, AuditedOnce
<1> QED BY <1>1, <1>4, ReportStep DEF u

LEMMA ReportApplied ==
  ASSUME RunInv, ReportInv, NEW r \in Run, run[r].job \in ScenarioId, Applied(r)
  PROVE  ReportInv'
<1> DEFINE t == [run[r] EXCEPT !.applied = TRUE, !.pc = "after"]
           u == IF t.audit = <<>> THEN [t EXCEPT !.result = "DEPLOYED"]
                ELSE [t EXCEPT !.outOfBand = TRUE]
<1>1. Becomes(r, u)
  BY DEF Applied
<1>2. DOMAIN run[r] = Fields /\ run[r].pc = "apply" /\ run[r].todo = {} /\ Faithful(run[r])
  BY DEF RunInv, ReportInv, Applied, At
<1>3. /\ u.pc = "after" /\ u.job = run[r].job /\ u.audit = run[r].audit
      /\ u.wrote = run[r].wrote /\ u.applied
      /\ u.result = IF Unaudited(run[r]) THEN "DEPLOYED" ELSE run[r].result
  BY <1>2 DEF Fields, Unaudited
<1> HIDE DEF u
<1>4. Faithful(u)
  BY <1>2, <1>3 DEF Faithful, Settled, Unaudited, AuditedOnce
<1> QED BY <1>1, <1>4, ReportStep

\* From the apply, or the refusal, to the end.
LEMMA ReportLater ==
  ASSUME RunInv, ReportInv, NEW r \in Run, run[r].job \in ScenarioId,
         ReadAfter(r) \/ ReadMutated(r) \/ DriftRead(r) \/ DriftReport(r) \/ Fail(r)
  PROVE  ReportInv'
<1>1. DOMAIN run[r] = Fields /\ Faithful(run[r])
  BY DEF RunInv, ReportInv
<1>2. CASE ReadAfter(r)
  <2> DEFINE s == ScenarioOf(r)
             t == [run[r] EXCEPT !.after = platform,
                                 !.appliedState = IF run[r].applied THEN platform ELSE None]
             u == IF s.drift /\ t.applied THEN [t EXCEPT !.pc = "mutate"] ELSE Conclude(s, t)
  <2>1. Becomes(r, u) /\ run[r].pc = "after"
    BY <1>2 DEF ReadAfter, At
  <2>2. /\ u.job = run[r].job /\ u.audit = run[r].audit /\ u.result = run[r].result
        /\ u.wrote = run[r].wrote /\ u.applied = run[r].applied
        /\ u.pc \in {"mutate", "end"} /\ (u.pc = "mutate" => run[r].applied)
    BY <1>1 DEF Fields, Conclude
  <2> HIDE DEF u
  <2>3. Faithful(u)
    BY <1>1, <2>1, <2>2, FaithfulFrame DEF Settled
  <2> QED BY <2>1, <2>3, ReportStep
<1>3. CASE ReadMutated(r)
  <2> DEFINE u == [run[r] EXCEPT !.after = platform, !.pc = "drift"]
  <2>1. Becomes(r, u) /\ run[r].pc = "mutated"
    BY <1>3 DEF ReadMutated, At
  <2>2. /\ u.job = run[r].job /\ u.audit = run[r].audit /\ u.result = run[r].result
        /\ u.wrote = run[r].wrote /\ u.applied = run[r].applied /\ u.pc = "drift"
    BY <1>1 DEF Fields
  <2> HIDE DEF u
  <2>3. run[r].applied
    BY <1>1, <2>1 DEF Faithful
  <2>4. Faithful(u)
    BY <1>1, <2>1, <2>2, <2>3, FaithfulFrame DEF Settled
  <2> QED BY <2>1, <2>4, ReportStep
<1>4. CASE DriftRead(r)
  <2> DEFINE u == [run[r] EXCEPT !.live = platform, !.pc = "digest"]
  <2>1. Becomes(r, u) /\ run[r].pc = "drift"
    BY <1>4 DEF DriftRead, At
  <2>2. /\ u.job = run[r].job /\ u.audit = run[r].audit /\ u.result = run[r].result
        /\ u.wrote = run[r].wrote /\ u.applied = run[r].applied /\ u.pc = "digest"
    BY <1>1 DEF Fields
  <2> HIDE DEF u
  <2>3. run[r].applied
    BY <1>1, <2>1 DEF Faithful
  <2>4. Faithful(u)
    BY <1>1, <2>1, <2>2, <2>3, FaithfulFrame DEF Settled
  <2> QED BY <2>1, <2>4, ReportStep
<1>5. CASE DriftReport(r)
  <2>1. PICK d : LET t == [run[r] EXCEPT !.drift = [digest |-> platform, detected |-> Denied(d)]]
                 IN Becomes(r, IF t.job \in ScenarioId THEN Conclude(ScenarioOf(r), t)
                               ELSE [t EXCEPT !.pc = "end", !.passed = ~Denied(d)])
    BY <1>5 DEF DriftReport
  <2> DEFINE t == [run[r] EXCEPT !.drift = [digest |-> platform, detected |-> Denied(d)]]
             u == Conclude(ScenarioOf(r), t)
  <2>2. run[r].pc = "digest" /\ t.job \in ScenarioId
    BY <1>1, <1>5 DEF DriftReport, At, Fields
  <2>3. Becomes(r, u)
    BY <2>1, <2>2
  <2>4. /\ u.job = run[r].job /\ u.audit = run[r].audit /\ u.result = run[r].result
        /\ u.wrote = run[r].wrote /\ u.applied = run[r].applied /\ u.pc = "end"
    BY <1>1 DEF Fields, Conclude
  <2> HIDE DEF u
  <2>5. Faithful(u)
    BY <1>1, <2>2, <2>4, FaithfulFrame DEF Settled
  <2> QED BY <2>3, <2>5, ReportStep
<1>6. CASE Fail(r)
  <2> DEFINE u == Failed(run[r])
  <2>1. Becomes(r, u)
    BY <1>6 DEF Fail
  <2>2. /\ u.job = run[r].job /\ u.audit = run[r].audit /\ u.result = run[r].result
        /\ u.wrote = run[r].wrote /\ u.applied = run[r].applied /\ u.pc = "end" /\ u.error
    BY <1>1 DEF Fields, Failed
  <2> HIDE DEF u
  <2>3. Faithful(u)
    BY <1>1, <2>2, FaithfulFrame
  <2> QED BY <2>1, <2>3, ReportStep
<1> QED BY <1>2, <1>3, <1>4, <1>5, <1>6

LEMMA ReportMutate ==
  ASSUME RunInv, ReportInv, NEW r \in Run, run[r].job \in ScenarioId, Mutate(r)
  PROVE  ReportInv'
<1> DEFINE u == [run[r] EXCEPT !.pc = "mutated", !.wrote = @ \cup {GrantSlot(ConsoleGrant)}]
<1>1. Becomes(r, u) /\ run[r].pc = "mutate"
  BY DEF Mutate, At
<1>2. DOMAIN run[r] = Fields /\ Faithful(run[r])
  BY DEF RunInv, ReportInv
<1>3. /\ u.pc = "mutated" /\ u.job = run[r].job /\ u.audit = run[r].audit
      /\ u.result = run[r].result /\ u.applied = run[r].applied
      /\ run[r].wrote \subseteq u.wrote
  BY <1>2 DEF Fields
<1> HIDE DEF u
<1>4. Faithful(u)
  BY <1>1, <1>2, <1>3 DEF Faithful, Settled, Unaudited, AuditedOnce
<1> QED BY <1>1, <1>4, ReportStep

\* A step of an operator command is none of a scenario.
LEMMA ReportCommand ==
  ASSUME RunInv, ReportInv, NEW r \in Run, NEW t, Becomes(r, t), t.job \notin ScenarioId
  PROVE  ReportInv'
BY ReportStep

LEMMA ReportNext == RunInv /\ ReportInv /\ [Next]_vars => ReportInv'
<1> SUFFICES ASSUME RunInv, ReportInv, [Next]_vars PROVE ReportInv'
  OBVIOUS
<1>1. CASE UNCHANGED vars
  BY <1>1 DEF ReportInv, vars
<1>2. ASSUME NEW r \in Run, Step(r) PROVE ReportInv'
  <2>1. DOMAIN run[r] = Fields
    BY DEF RunInv
  <2>2. CASE Begin(r)
    <3>1. Fresh("drift").job = "drift" /\ Fresh("remove-undeclared").job = "remove-undeclared"
      BY DEF Fresh
    <3>2. StartDrift(r) => ReportInv'
      <4> DEFINE u == [Fresh("drift") EXCEPT !.pc = "drift"]
      <4>1. u.job = "drift"
        BY DEF Fresh
      <4> QED BY <4>1, Commands, ReportStep DEF StartDrift
    <3>3. StartRemoval(r) => ReportInv'
      <4> DEFINE u == [Fresh("remove-undeclared") EXCEPT
                         !.pc = "remove", !.todo = {slot \in UndeclaredSlots : platform[slot] # None}]
      <4>1. u.job = "remove-undeclared"
        BY DEF Fresh
      <4> QED BY <4>1, Commands, ReportStep DEF StartRemoval
    <3> QED BY <2>2, <3>2, <3>3, ReportStart DEF Begin
  <2>3. CASE run[r].job \in ScenarioId
    <3>1. run[r].pc # "remove"
      BY <2>3 DEF RunInv, Good
    <3>2. ~Remove(r) /\ ~Removed(r)
      BY <3>1 DEF Remove, Removed, At
    <3> QED BY <1>2, <2>2, <2>3, <3>2, ReportEvaluateManifest, ReportEvaluate,
               ReportBindApproval, ReportPut, ReportApplied, ReportLater, ReportMutate DEF Step
  <2>4. CASE run[r].job \notin ScenarioId /\ ~Begin(r)
    <3>1. run[r].pc \in CommandStep
      BY <2>4 DEF RunInv
    <3>2. DriftRead(r) \/ DriftReport(r) \/ Remove(r) \/ Removed(r) \/ Fail(r)
      BY <1>2, <2>4, <3>1 DEF Step, CommandStep, At, EvaluateManifest, Evaluate, BindApproval,
                             Put, Applied, ReadAfter, Mutate, ReadMutated
    <3>3. PICK t : Becomes(r, t) /\ t.job = run[r].job
      <4>1. CASE DriftRead(r)
        <5>1. [run[r] EXCEPT !.live = platform, !.pc = "digest"].job = run[r].job
          BY <2>1 DEF Fields
        <5> QED BY <4>1, <5>1 DEF DriftRead
      <4>2. CASE DriftReport(r)
        <5>1. PICK d : LET t == [run[r] EXCEPT !.drift = [digest |-> platform, detected |-> Denied(d)]]
                       IN Becomes(r, IF t.job \in ScenarioId THEN Conclude(ScenarioOf(r), t)
                                     ELSE [t EXCEPT !.pc = "end", !.passed = ~Denied(d)])
          BY <4>2 DEF DriftReport
        <5> DEFINE t == [run[r] EXCEPT !.drift = [digest |-> platform, detected |-> Denied(d)]]
                   u == [t EXCEPT !.pc = "end", !.passed = ~Denied(d)]
        <5>2. t.job = run[r].job /\ u.job = run[r].job
          BY <2>1 DEF Fields
        <5>3. Becomes(r, u)
          BY <2>4, <5>1, <5>2
        <5> QED BY <5>2, <5>3
      <4>3. CASE Remove(r)
        <5>1. PICK slot : Becomes(r, IF platform[slot] = None THEN Failed(run[r])
                                     ELSE [run[r] EXCEPT !.todo = @ \ {slot}, !.wrote = @ \cup {slot}])
          BY <4>3 DEF Remove
        <5> DEFINE u == IF platform[slot] = None THEN Failed(run[r])
                        ELSE [run[r] EXCEPT !.todo = @ \ {slot}, !.wrote = @ \cup {slot}]
        <5>2. u.job = run[r].job
          BY <2>1 DEF Failed, Fields
        <5> QED BY <5>1, <5>2
      <4>4. CASE Removed(r)
        <5>1. [run[r] EXCEPT !.pc = "end", !.passed = TRUE].job = run[r].job
          BY <2>1 DEF Fields
        <5> QED BY <4>4, <5>1 DEF Removed
      <4>5. CASE Fail(r)
        <5>1. Failed(run[r]).job = run[r].job
          BY <2>1 DEF Failed, Fields
        <5> QED BY <4>5, <5>1 DEF Fail
      <4> QED BY <3>2, <4>1, <4>2, <4>3, <4>4, <4>5
    <3> QED BY <2>4, <3>3, ReportCommand
  <2> QED BY <2>2, <2>3, <2>4
<1> QED BY <1>1, <1>2 DEF Next

\* A faithful transcript is true.
LEMMA TrueReports == RunInv /\ ReportInv => TranscriptIsTrue
<1> SUFFICES ASSUME RunInv, ReportInv, NEW r \in Run, Scenic(r)
             PROVE  /\ Len(run[r].audit) <= 1
                    /\ run[r].pc = "end" /\ ~run[r].error =>
                         (run[r].result = "DEPLOY_REFUSED" <=> Len(run[r].audit) = 1)
                    /\ run[r].applied => Declared(ScenarioOf(r)) \subseteq run[r].wrote
                    /\ run[r].result = "DEPLOYED" =>
                         run[r].audit = <<>> /\ (ScenarioOf(r).skipApply \/ run[r].applied)
                    /\ run[r].pc = "end" /\ ~run[r].error /\ ~run[r].applied =>
                         run[r].wrote = {}
  BY DEF TranscriptIsTrue
<1>1. Faithful(run[r])
  BY DEF ReportInv, Scenic
<1>2. Len(run[r].audit) <= 1 /\ (Len(run[r].audit) = 1 <=> ~Unaudited(run[r]))
  <2>1. CASE Unaudited(run[r])
    <3>1. run[r].audit = <<>>
      BY <2>1 DEF Unaudited
    <3>2. Len(<<>>) <= 1 /\ Len(<<>>) # 1
      OBVIOUS
    <3> QED BY <2>1, <3>1, <3>2
  <2>2. CASE ~Unaudited(run[r])
    <3>1. PICK event : run[r].audit = <<event>>
      BY <1>1, <2>2 DEF Faithful, AuditedOnce
    <3>2. Len(<<event>>) <= 1 /\ Len(<<event>>) = 1
      OBVIOUS
    <3> QED BY <2>2, <3>1, <3>2
  <2> QED BY <2>1, <2>2
<1>3. /\ run[r].applied => Declared(ScenarioOf(r)) \subseteq run[r].wrote
      /\ run[r].result = "DEPLOYED" =>
           run[r].audit = <<>> /\ (ScenarioOf(r).skipApply \/ run[r].applied)
  BY <1>1 DEF Faithful, Unaudited, ScenarioOf
<1>4. run[r].pc = "end" /\ ~run[r].error =>
        /\ run[r].result = "DEPLOY_REFUSED" <=> ~Unaudited(run[r])
        /\ ~run[r].applied => run[r].wrote = {}
  BY <1>1 DEF Faithful, Settled
<1> QED BY <1>2, <1>3, <1>4

\* What a transcript says of its run is so, however many runs there are and
\* whatever fails: one audit event exactly for a refusal, `applied' only once
\* all that is declared was put (refuse, finish, runManifest).
THEOREM TranscriptTheorem == Spec => []TranscriptIsTrue
<1>1. RunInv /\ ReportInv => TranscriptIsTrue
  BY TrueReports
<1>2. Spec => []ReportInv
  <2>1. Init => ReportInv
    BY ReportInit
  <2>2. RunInv /\ ReportInv /\ [Next]_vars => ReportInv'
    BY ReportNext
  <2> QED BY <2>1, <2>2, RunsAreGood, PTL DEF Spec
<1> QED BY <1>1, <1>2, RunsAreGood, PTL

-----------------------------------------------------------------------------
(* The drift check over the shared platform, for any number of pipelines   *)
(* that write it meanwhile: it evaluates a state the authorizer could be   *)
(* asked about, so that what PolicyProofs shows of a graph holds of it.    *)

\* A transcript, as far as the drift check and the puts are concerned.
Checked(t) ==
  /\ t.pc = "apply" /\ t.job \in ScenarioId => Evaluated(Scenarios[t.job]) \in Graph
  /\ t.pc = "digest" => IsState(t.live)
  /\ t.drift # None => /\ t.pc = "end"
                       /\ ~t.drift.detected => ExposuresNamed(t.live, DriftAllowlist(t))

\* The inductive invariant, beside RunInv: the platform holds a state.
DriftInv ==
  /\ IsState(platform)
  /\ \A r \in Run : Checked(run[r])

-----------------------------------------------------------------------------
(* The table of scenarios, the files they name, and the state.             *)

\* A checked-in artifact is never applied out of band.
LEMMA ArtifactFacts ==
  \A id \in ScenarioId : Scenarios[id].artifact # "" => ~Scenarios[id].outOfBand
<1> SUFFICES ASSUME NEW id \in ScenarioId
             PROVE  Scenarios[id].artifact # "" => ~Scenarios[id].outOfBand
  OBVIOUS
<1>1. CASE id = "half-fix-review-path-only"
  BY <1>1 DEF ScenarioId, Scenarios, Vulnerable, Base
<1>2. CASE id # "half-fix-review-path-only"
  <2> DEFINE Fits(s) == DOMAIN s = DOMAIN Base /\ s.outOfBand = FALSE
  <2>1. Fits(Base)
    BY DEF Base
  <2>2. Fits(Gated)
    BY DEF Base, Gated
  <2>3. Fits(Refused)
    BY <2>2 DEF Base, Gated, Refused
  <2>4. Fits(Vulnerable)
    BY DEF Base, Vulnerable
  <2>5. Fits(Scenarios[id])
    BY <1>2, <2>1, <2>2, <2>3, <2>4, SMTT(60) DEF ScenarioId, Scenarios, Evaluating, Base
  <2> QED BY <2>5
<1> QED BY <1>1, <1>2

\* What is applied is a plan or a manifest set, and a graph.
LEMMA AppliedIsGraph ==
  ASSUME NEW id \in ScenarioId, Scenarios[id].artifact = "" \/ Scenarios[id].manifest # ""
  PROVE  Evaluated(Scenarios[id]) \in Graph
BY DesiredAssumption DEF Evaluated

\* The allowlist a drift check reads.
LEMMA DriftAllowlistType == ASSUME NEW t PROVE DriftAllowlist(t) \in Allowlist
<1>1. "secure-apply" \in ScenarioId /\ Scenarios["secure-apply"].allowlist = "default.json"
  BY DEF ScenarioId, Scenarios, Gated, Base
<1>2. \A id \in ScenarioId : AllowlistOf[Scenarios[id].allowlist] \in SUBSET Entry
  BY DesiredAssumption
<1>3. AllowlistOf["default.json"] \in SUBSET Entry
  BY <1>1, <1>2
<1> QED BY <1>2, <1>3 DEF DriftAllowlist, Allowlist

\* One resource is put or deleted.
LEMMA StatePut ==
  ASSUME NEW st, IsState(st), NEW slot, NEW value,
         slot \in Slot => value \in (ValueOf(slot.kind) \cap Resource) \cup {None}
  PROVE  IsState([st EXCEPT ![slot] = value])
<1> DEFINE after == [st EXCEPT ![slot] = value]
<1>1. after \in [Slot -> Resource \cup {None}]
  BY DEF IsState
<1>2. \A s \in Slot : after[s] = IF s = slot THEN value ELSE st[s]
  BY DEF IsState
<1> HIDE DEF after
<1>3. \A s \in Slot : after[s] # None => after[s] \in ValueOf(s.kind)
  BY <1>2 DEF IsState
<1>4. IsState(after)
  BY <1>1, <1>3 DEF IsState
<1> QED BY <1>4 DEF after

LEMMA DriftGrantType == DriftGrant \in ValueOf("grant") /\ DriftGrant \in Resource
<1>1. BucketTarget(ExportBucket) \in Target /\ {Addr} \subseteq Cidr
  BY GrantAssumption, BlocksAssumption DEF BucketTarget, Target, Cidr
<1>2. DriftGrant \in Grant
  BY <1>1 DEF DriftGrant, Grant
<1>3. ValueOf("grant") = Grant
  BY DEF ValueOf
<1> QED BY <1>2, <1>3 DEF Resource

-----------------------------------------------------------------------------
(* Steps.                                                                  *)

\* A step of one run, with what becomes of the platform.
LEMMA DriftStep ==
  ASSUME RunInv, DriftInv, NEW r \in Run, NEW t, Becomes(r, t), Checked(t), IsState(platform')
  PROVE  DriftInv'
<1>1. ASSUME NEW q \in Run PROVE Checked(run'[q])
  <2>1. run'[q] = IF q = r THEN t ELSE run[q]
    BY DEF Becomes, RunInv
  <2> QED BY <2>1 DEF DriftInv
<1>2. \A q \in Run : Checked(run[q])'
  BY <1>1 DEF Checked, DriftAllowlist
<1> QED BY <1>2 DEF DriftInv

\* What neither applies nor checks.
LEMMA QuietChecked ==
  ASSUME NEW t, t.drift = None, t.pc \notin {"apply", "digest"}
  PROVE  Checked(t)
BY DEF Checked

LEMMA FreshDrift == \A job : Fresh(job).drift = None /\ Fresh(job).pc = "resolve"
BY DEF Fresh

LEMMA FinishChecked ==
  ASSUME NEW t, DOMAIN t = Fields, t.job \in ScenarioId, t.drift = None
  PROVE  Checked(Finish(Scenarios[t.job], t))
<1> DEFINE s == Scenarios[t.job]
           u == Finish(s, t)
           toApply == [t EXCEPT !.pc = "apply", !.todo = Declared(s)]
           reported == IF t.audit # <<>> THEN t ELSE [t EXCEPT !.result = "DEPLOYED"]
<1>1. CASE t.audit = <<>> /\ s.artifact # ""
  <2>1. u = Failed(t)
    BY <1>1 DEF Finish
  <2>2. Failed(t).drift = None /\ Failed(t).pc = "end"
    BY DEF Failed, Fields
  <2> QED BY <2>1, <2>2, QuietChecked
<1>2. CASE /\ ~(t.audit = <<>> /\ s.artifact # "")
           /\ IF t.audit # <<>> THEN s.outOfBand ELSE ~s.skipApply
  <2>1. u = toApply
    BY <1>2 DEF Finish
  <2>2. toApply.job = t.job /\ toApply.pc = "apply" /\ toApply.drift = None
    BY DEF Fields
  <2>3. s.artifact = ""
    BY <1>2, ArtifactFacts
  <2>4. Evaluated(s) \in Graph
    BY <2>3, AppliedIsGraph
  <2> QED BY <2>1, <2>2, <2>4 DEF Checked
<1>3. CASE /\ ~(t.audit = <<>> /\ s.artifact # "")
           /\ ~IF t.audit # <<>> THEN s.outOfBand ELSE ~s.skipApply
  <2>1. u = IF s.skipRemote THEN Conclude(s, reported) ELSE [reported EXCEPT !.pc = "after"]
    BY <1>3 DEF Finish
  <2>2. DOMAIN reported = Fields /\ reported.drift = None
    BY DEF Fields
  <2> HIDE DEF reported
  <2>3. u.drift = None /\ u.pc \in {"after", "end"}
    BY <2>1, <2>2 DEF Conclude, Fields
  <2> QED BY <2>3, QuietChecked
<1> QED BY <1>1, <1>2, <1>3

LEMMA DriftEvaluate ==
  ASSUME RunInv, DriftInv, NEW r \in Run, run[r].job \in ScenarioId,
         EvaluateManifest(r) \/ Evaluate(r) \/ BindApproval(r)
  PROVE  DriftInv'
<1> DEFINE s == ScenarioOf(r)
<1>1. /\ DOMAIN run[r] = Fields /\ IsState(platform') /\ run[r].drift = None
  BY DEF RunInv, DriftInv, Checked, EvaluateManifest, Evaluate, BindApproval, At
<1>2. CASE EvaluateManifest(r)
  <2>1. PICK d \in DecisionsOf(s) :
          LET t == IF s.gated THEN [run[r] EXCEPT !.decision = d] ELSE [run[r] EXCEPT !.would = d]
          IN Becomes(r, IF s.gated /\ Denied(d)
                        THEN [Refuse(t, "policy", d.class) EXCEPT !.pc = "after"]
                        ELSE [t EXCEPT !.pc = "apply", !.todo = Declared(s)])
    BY <1>2 DEF EvaluateManifest
  <2> DEFINE t == IF s.gated THEN [run[r] EXCEPT !.decision = d] ELSE [run[r] EXCEPT !.would = d]
             u == IF s.gated /\ Denied(d) THEN [Refuse(t, "policy", d.class) EXCEPT !.pc = "after"]
                  ELSE [t EXCEPT !.pc = "apply", !.todo = Declared(s)]
  <2>2. Becomes(r, u)
    BY <2>1
  <2>3. DOMAIN t = Fields /\ t.drift = None /\ t.job = run[r].job
    BY <1>1 DEF Fields
  <2> HIDE DEF t
  <2>4. u.drift = None /\ u.pc \in {"after", "apply"} /\ u.job = run[r].job
    BY <2>3 DEF Refuse, Fields
  <2>5. Evaluated(s) \in Graph
    BY <1>2, AppliedIsGraph DEF EvaluateManifest, ScenarioOf
  <2> HIDE DEF u
  <2>6. Checked(u)
    BY <2>4, <2>5 DEF Checked, ScenarioOf
  <2> QED BY <1>1, <2>2, <2>6, DriftStep
<1>3. CASE Evaluate(r)
  <2> DEFINE file == IF s.artifact # "" THEN None ELSE [plan |-> s.var, appended |-> FALSE]
             t == [run[r] EXCEPT !.file = file]
  <2>1. PICK d \in DecisionsOf(s) : Becomes(r, Judged(s, t, d))
    BY <1>3 DEF Evaluate
  <2>2. DOMAIN t = Fields /\ t.drift = None /\ t.job = run[r].job
    BY <1>1 DEF Fields
  <2> HIDE DEF t
  <2> DEFINE noted == [t EXCEPT !.would = d]
             refused == Refuse([t EXCEPT !.decision = d], "policy", d.class)
             onward == [t EXCEPT !.decision = d, !.advisory = Denied(d), !.pc = "bind"]
  <2>3. Judged(s, t, d) \in {Finish(s, noted), Finish(s, refused), onward}
    BY DEF Judged
  <2>4. /\ DOMAIN noted = Fields /\ noted.drift = None /\ noted.job = run[r].job
        /\ DOMAIN refused = Fields /\ refused.drift = None /\ refused.job = run[r].job
        /\ onward.drift = None /\ onward.pc = "bind"
    BY <2>2 DEF Refuse, Fields
  <2> HIDE DEF noted, refused, onward
  <2>5. Checked(Finish(s, noted)) /\ Checked(Finish(s, refused)) /\ Checked(onward)
    BY <2>4, FinishChecked, QuietChecked DEF ScenarioOf
  <2>6. Checked(Judged(s, t, d))
    BY <2>3, <2>5
  <2> QED BY <1>1, <2>1, <2>6, DriftStep
<1>4. CASE BindApproval(r)
  <2> DEFINE t == run[r]
             rehearsed == Rehearsed(t.job, t.file)
             class == VerifyApproval(t.job, rehearsed.file, rehearsed.approval)
             bound == [t EXCEPT !.approval = rehearsed.approval, !.file = rehearsed.file]
             u == IF class = "" THEN bound ELSE Refuse(bound, "binding", class)
  <2>1. Becomes(r, Finish(s, u))
    BY <1>4 DEF BindApproval
  <2>2. DOMAIN bound = Fields /\ bound.drift = None /\ bound.job = run[r].job
    BY <1>1 DEF Fields
  <2> HIDE DEF bound, class
  <2>3. DOMAIN u = Fields /\ u.drift = None /\ u.job = run[r].job
    BY <2>2 DEF Refuse, Fields
  <2> HIDE DEF u
  <2> QED BY <1>1, <2>1, <2>3, FinishChecked, DriftStep DEF ScenarioOf
<1> QED BY <1>2, <1>3, <1>4

\* A put keeps the state one, and so do the mutation and the removals.
LEMMA DriftWrite ==
  ASSUME RunInv, DriftInv, NEW r \in Run,
         \/ run[r].job \in ScenarioId /\ (Put(r) \/ Mutate(r))
         \/ Remove(r)
  PROVE  DriftInv'
<1>1. /\ DOMAIN run[r] = Fields /\ IsState(platform)
      /\ run[r].pc # "end" => run[r].drift = None
      /\ run[r].pc = "apply" /\ run[r].job \in ScenarioId => Evaluated(ScenarioOf(r)) \in Graph
  BY DEF RunInv, DriftInv, Checked, ScenarioOf
<1>2. CASE run[r].job \in ScenarioId /\ Put(r)
  <2> DEFINE st == Evaluated(ScenarioOf(r)).st
  <2>1. PICK slot : /\ platform' = [platform EXCEPT ![slot] = st[slot]]
                    /\ Becomes(r, [run[r] EXCEPT !.todo = @ \ {slot}, !.wrote = @ \cup {slot}])
    BY <1>2 DEF Put
  <2> DEFINE u == [run[r] EXCEPT !.todo = @ \ {slot}, !.wrote = @ \cup {slot}]
  <2>2. run[r].pc = "apply" /\ Evaluated(ScenarioOf(r)) \in Graph
    BY <1>1, <1>2 DEF Put, At
  <2>3. IsState(st)
    BY <2>2 DEF Graph
  <2>4. slot \in Slot => st[slot] \in (ValueOf(slot.kind) \cap Resource) \cup {None}
    BY <2>3 DEF IsState
  <2> HIDE DEF st
  <2>5. IsState(platform')
    BY <1>1, <2>1, <2>4, StatePut
  <2>6. u.drift = None /\ u.pc = "apply" /\ u.job = run[r].job
    BY <1>1, <2>2 DEF Fields
  <2>7. Becomes(r, u)
    BY <2>1
  <2> HIDE DEF u
  <2>8. Checked(u)
    BY <2>2, <2>6 DEF Checked, ScenarioOf
  <2> QED BY <2>5, <2>7, <2>8, DriftStep
<1>3. CASE Mutate(r)
  <2> DEFINE u == [run[r] EXCEPT !.pc = "mutated", !.wrote = @ \cup {GrantSlot(ConsoleGrant)}]
  <2>1. Becomes(r, u) /\ platform' = [platform EXCEPT ![GrantSlot(ConsoleGrant)] = DriftGrant]
        /\ run[r].pc = "mutate"
    BY <1>3 DEF Mutate, At
  <2>2. GrantSlot(ConsoleGrant).kind = "grant"
    BY DEF GrantSlot
  <2>3. IsState(platform')
    BY <1>1, <2>1, <2>2, StatePut, DriftGrantType
  <2>4. u.drift = None /\ u.pc = "mutated"
    BY <1>1, <2>1 DEF Fields
  <2> QED BY <2>1, <2>3, <2>4, QuietChecked, DriftStep
<1>4. CASE Remove(r)
  <2>1. PICK slot : /\ platform' = [platform EXCEPT ![slot] = None]
                    /\ Becomes(r, IF platform[slot] = None THEN Failed(run[r])
                                  ELSE [run[r] EXCEPT !.todo = @ \ {slot}, !.wrote = @ \cup {slot}])
    BY <1>4 DEF Remove
  <2> DEFINE u == IF platform[slot] = None THEN Failed(run[r])
                  ELSE [run[r] EXCEPT !.todo = @ \ {slot}, !.wrote = @ \cup {slot}]
  <2>2. run[r].pc = "remove"
    BY <1>4 DEF Remove, At
  <2>3. u.drift = None /\ u.pc \in {"remove", "end"}
    BY <1>1, <2>2 DEF Failed, Fields
  <2>4. IsState(platform')
    BY <1>1, <2>1, StatePut
  <2>5. Becomes(r, u)
    BY <2>1
  <2> QED BY <2>3, <2>4, <2>5, QuietChecked, DriftStep
<1> QED BY <1>2, <1>3, <1>4

\* What neither evaluates nor writes; where a run starts it is fresh.
LEMMA DriftQuiet ==
  ASSUME RunInv, DriftInv, NEW r \in Run,
         \/ Begin(r) \/ Applied(r) \/ ReadAfter(r) \/ ReadMutated(r) \/ Removed(r) \/ Fail(r)
  PROVE  DriftInv'
<1>1. /\ DOMAIN run[r] = Fields /\ IsState(platform)
      /\ run[r].pc # "end" => run[r].drift = None
  BY DEF RunInv, DriftInv, Checked
<1>2. IsState(platform')
  BY <1>1 DEF Begin, Start, StartDrift, StartRemoval, Applied, ReadAfter, ReadMutated, Removed, Fail
<1>3. CASE Begin(r)
  <2>1. PICK t : Becomes(r, t) /\ t.drift = None /\ t.pc \notin {"apply", "digest"}
    <3>1. ASSUME NEW job \in Job, Start(r, job)
          PROVE  \E t : Becomes(r, t) /\ t.drift = None /\ t.pc \notin {"apply", "digest"}
      <4> DEFINE s == Scenarios[job]
                 begun == IF s.skipRemote THEN Fresh(job)
                          ELSE [Fresh(job) EXCEPT !.before = platform, !.after = platform]
                 t == IF Available(s, Env[r]) THEN begun ELSE Failed(Fresh(job))
      <4>1. t.drift = None /\ t.pc \in {"resolve", "end"}
        BY DEF Fresh, Failed
      <4>2. Becomes(r, t)
        BY <3>1 DEF Start
      <4> QED BY <4>1, <4>2
    <3>2. CASE StartDrift(r)
      <4> DEFINE t == [Fresh("drift") EXCEPT !.pc = "drift"]
      <4>1. t.drift = None /\ t.pc = "drift"
        BY DEF Fresh
      <4> QED BY <3>2, <4>1 DEF StartDrift
    <3>3. CASE StartRemoval(r)
      <4> DEFINE t == [Fresh("remove-undeclared") EXCEPT
                         !.pc = "remove", !.todo = {slot \in UndeclaredSlots : platform[slot] # None}]
      <4>1. t.drift = None /\ t.pc = "remove"
        BY DEF Fresh
      <4> QED BY <3>3, <4>1 DEF StartRemoval
    <3> QED BY <1>3, <3>1, <3>2, <3>3 DEF Begin
  <2> QED BY <1>2, <2>1, QuietChecked, DriftStep
<1>4. CASE Applied(r)
  <2> DEFINE t == [run[r] EXCEPT !.applied = TRUE, !.pc = "after"]
             u == IF t.audit = <<>> THEN [t EXCEPT !.result = "DEPLOYED"]
                  ELSE [t EXCEPT !.outOfBand = TRUE]
  <2>1. Becomes(r, u) /\ run[r].pc = "apply"
    BY <1>4 DEF Applied, At
  <2>2. u.drift = None /\ u.pc = "after"
    BY <1>1, <2>1 DEF Fields
  <2> QED BY <1>2, <2>1, <2>2, QuietChecked, DriftStep
<1>5. CASE ReadAfter(r)
  <2> DEFINE s == ScenarioOf(r)
             t == [run[r] EXCEPT !.after = platform,
                                 !.appliedState = IF run[r].applied THEN platform ELSE None]
             u == IF s.drift /\ t.applied THEN [t EXCEPT !.pc = "mutate"] ELSE Conclude(s, t)
  <2>1. Becomes(r, u) /\ run[r].pc = "after"
    BY <1>5 DEF ReadAfter, At
  <2>2. u.drift = None /\ u.pc \in {"mutate", "end"}
    BY <1>1, <2>1 DEF Fields, Conclude
  <2> QED BY <1>2, <2>1, <2>2, QuietChecked, DriftStep
<1>6. CASE ReadMutated(r)
  <2> DEFINE u == [run[r] EXCEPT !.after = platform, !.pc = "drift"]
  <2>1. Becomes(r, u) /\ run[r].pc = "mutated"
    BY <1>6 DEF ReadMutated, At
  <2>2. u.drift = None /\ u.pc = "drift"
    BY <1>1, <2>1 DEF Fields
  <2> QED BY <1>2, <2>1, <2>2, QuietChecked, DriftStep
<1>7. CASE Removed(r)
  <2> DEFINE u == [run[r] EXCEPT !.pc = "end", !.passed = TRUE]
  <2>1. Becomes(r, u) /\ run[r].pc = "remove"
    BY <1>7 DEF Removed, At
  <2>2. u.drift = None /\ u.pc = "end"
    BY <1>1, <2>1 DEF Fields
  <2> QED BY <1>2, <2>1, <2>2, QuietChecked, DriftStep
<1>8. CASE Fail(r)
  <2> DEFINE u == Failed(run[r])
  <2>1. Becomes(r, u) /\ run[r].pc # "end"
    BY <1>8 DEF Fail
  <2>2. u.drift = None /\ u.pc = "end"
    BY <1>1, <2>1 DEF Fields, Failed
  <2> QED BY <1>2, <2>1, <2>2, QuietChecked, DriftStep
<1> QED BY <1>3, <1>4, <1>5, <1>6, <1>7, <1>8

\* The check itself: what it reads is a state, and what the gate admits of it
\* is named.
LEMMA DriftChecks ==
  ASSUME RunInv, DriftInv, NEW r \in Run, DriftRead(r) \/ DriftReport(r)
  PROVE  DriftInv'
<1>1. /\ DOMAIN run[r] = Fields /\ IsState(platform) /\ IsState(platform')
      /\ run[r].pc # "end" => run[r].drift = None
      /\ run[r].pc = "digest" => IsState(run[r].live)
  BY DEF RunInv, DriftInv, Checked, DriftRead, DriftReport
<1>2. CASE DriftRead(r)
  <2> DEFINE u == [run[r] EXCEPT !.live = platform, !.pc = "digest"]
  <2>1. Becomes(r, u) /\ run[r].pc = "drift"
    BY <1>2 DEF DriftRead, At
  <2>2. u.drift = None /\ u.pc = "digest" /\ u.live = platform
    BY <1>1, <2>1 DEF Fields
  <2> HIDE DEF u
  <2>3. Checked(u)
    BY <1>1, <2>2 DEF Checked
  <2> QED BY <1>1, <2>1, <2>3, DriftStep
<1>3. CASE DriftReport(r)
  <2> DEFINE allowlist == DriftAllowlist(run[r])
             graph == Graphed(run[r].live)
  <2>1. PICK d \in Evaluations(graph, allowlist, FALSE) :
          LET t == [run[r] EXCEPT !.drift = [digest |-> platform, detected |-> Denied(d)]]
          IN Becomes(r, IF t.job \in ScenarioId THEN Conclude(ScenarioOf(r), t)
                        ELSE [t EXCEPT !.pc = "end", !.passed = ~Denied(d)])
    BY <1>3 DEF DriftReport
  <2> DEFINE t == [run[r] EXCEPT !.drift = [digest |-> platform, detected |-> Denied(d)]]
             u == IF t.job \in ScenarioId THEN Conclude(ScenarioOf(r), t)
                  ELSE [t EXCEPT !.pc = "end", !.passed = ~Denied(d)]
  <2>2. Becomes(r, u) /\ run[r].pc = "digest"
    BY <1>3, <2>1 DEF DriftReport, At
  <2>3. graph \in Graph /\ graph.st = run[r].live
    BY <1>1, <2>2 DEF Graphed, Graph, IsState
  <2>4. ~Denied(d) => ExposuresNamed(run[r].live, allowlist)
    <3>1. SUFFICES ASSUME ~Denied(d) PROVE ExposuresNamed(run[r].live, allowlist)
      OBVIOUS
    <3>2. Admits(graph, allowlist)
      BY <2>1, <3>1, NotDenied
    <3>3. allowlist \in Allowlist
      BY DriftAllowlistType
    <3> HIDE DEF graph, allowlist
    <3>4. ExposuresNamed(graph.st, allowlist)
      BY <2>3, <3>2, <3>3, PolicySound
    <3> QED BY <2>3, <3>4
  <2>5. /\ u.pc = "end" /\ u.live = run[r].live /\ u.job = run[r].job
        /\ u.drift = [digest |-> platform, detected |-> Denied(d)]
    BY <1>1 DEF Fields, Conclude
  <2> HIDE DEF u
  <2>6. DriftAllowlist(u) = allowlist
    BY <2>5 DEF DriftAllowlist
  <2>7. u.drift.detected = Denied(d)
    BY <2>5
  <2>8. Checked(u)
    BY <2>4, <2>5, <2>6, <2>7 DEF Checked
  <2> QED BY <1>1, <2>2, <2>8, DriftStep
<1> QED BY <1>2, <1>3

LEMMA DriftInit == Init => DriftInv
<1> SUFFICES ASSUME Init PROVE DriftInv
  OBVIOUS
<1>1. IsState(platform)
  BY DEF Init, IsState
<1>2. ASSUME NEW r \in Run PROVE run[r].drift = None /\ run[r].pc = "idle"
  BY DEF Init, Fresh
<1>3. \A r \in Run : Checked(run[r])
  BY <1>2, QuietChecked
<1> QED BY <1>1, <1>3 DEF DriftInv

LEMMA DriftNext == RunInv /\ DriftInv /\ [Next]_vars => DriftInv'
<1> SUFFICES ASSUME RunInv, DriftInv, [Next]_vars PROVE DriftInv'
  OBVIOUS
<1>1. CASE UNCHANGED vars
  BY <1>1 DEF DriftInv, Checked, DriftAllowlist, vars
<1>2. ASSUME NEW r \in Run, Step(r) PROVE DriftInv'
  <2>1. CASE run[r].job \in ScenarioId
    BY <1>2, <2>1, DriftEvaluate, DriftWrite, DriftQuiet, DriftChecks DEF Step
  <2>2. CASE run[r].job \notin ScenarioId
    <3>1. run[r].pc \in CommandStep
      BY <2>2 DEF RunInv
    <3>2. ~EvaluateManifest(r) /\ ~Evaluate(r) /\ ~BindApproval(r) /\ ~Put(r) /\ ~Mutate(r)
      BY <3>1 DEF CommandStep, At, EvaluateManifest, Evaluate, BindApproval, Put, Mutate
    <3> QED BY <1>2, <3>2, DriftWrite, DriftQuiet, DriftChecks DEF Step
  <2> QED BY <2>1, <2>2
<1> QED BY <1>1, <1>2 DEF Next

\* A drift check that reports nothing has read a state in which every exposure
\* is one its allowlist names, whoever wrote what before and meanwhile (Drift).
THEOREM DriftTheorem == Spec => []DriftReportIsSound
<1>1. DriftInv => DriftReportIsSound
  BY DEF DriftInv, Checked, DriftReportIsSound
<1>2. Spec => []DriftInv
  BY DriftInit, DriftNext, RunsAreGood, PTL DEF Spec
<1> QED BY <1>1, <1>2, PTL

-----------------------------------------------------------------------------
(* Types.                                                                  *)

\* Besides, an artifact that is going to be modified is there.
Typed(t) ==
  /\ t \in Transcript
  /\ t.pc = "bind" /\ t.job \in ScenarioId /\ Scenarios[t.job].binding = "modified" =>
       t.file \in File

TypeInv ==
  /\ run \in [Run -> Transcript] /\ \A r \in Run : Typed(run[r])
  /\ failures \in 0..MaxFailures

\* What a scenario expects is one of three outcomes; only a plan is modified.
LEMMA OutcomeFacts ==
  \A id \in ScenarioId :
    /\ Scenarios[id].expect \in {"applied", "applied-out-of-band", "refused"}
    /\ Scenarios[id].binding = "modified" => Scenarios[id].artifact = ""
<1>1. ASSUME NEW id \in ScenarioId
      PROVE  Scenarios[id].expect \in {"applied", "applied-out-of-band", "refused"}
  <2> DEFINE Fits(s) == /\ DOMAIN s = DOMAIN Base
                        /\ s.expect \in {"applied", "applied-out-of-band", "refused"}
  <2>1. Fits(Base)
    BY DEF Base
  <2>2. Fits(Gated)
    BY DEF Base, Gated
  <2>3. Fits(Refused)
    BY <2>2 DEF Base, Gated, Refused
  <2>4. Fits(Vulnerable)
    BY DEF Base, Vulnerable
  <2>5. Fits(Scenarios[id])
    BY <2>1, <2>2, <2>3, <2>4, SMTT(60) DEF ScenarioId, Scenarios, Evaluating, Base
  <2> QED BY <2>5
<1>2. ASSUME NEW id \in ScenarioId, Scenarios[id].binding = "modified"
      PROVE  Scenarios[id].artifact = ""
  <2> DEFINE Fits(s) == DOMAIN s = DOMAIN Base /\ s.binding \in {"honest", "stale", "unapproved"}
  <2>1. Fits(Base)
    BY DEF Base
  <2>2. Fits(Gated)
    BY DEF Base, Gated
  <2>3. Fits(Refused)
    BY <2>2 DEF Base, Gated, Refused
  <2>4. Fits(Vulnerable)
    BY DEF Base, Vulnerable
  <2>5. id # "binding-modified-plan" => Fits(Scenarios[id])
    BY <2>1, <2>2, <2>3, <2>4, SMTT(60) DEF ScenarioId, Scenarios, Evaluating, Base
  <2>6. id = "binding-modified-plan"
    BY <1>2, <2>5
  <2> QED BY <2>6 DEF ScenarioId, Scenarios, Refused, Gated, Base
<1> QED BY <1>1, <1>2

LEMMA MeetsIsTruth ==
  ASSUME NEW id \in ScenarioId, NEW t PROVE Meets(Scenarios[id], t) \in BOOLEAN
BY OutcomeFacts DEF Meets, Denied

\* The step of one run, and what it makes of the transcript.
LEMMA TypeStep ==
  ASSUME TypeInv, NEW r \in Run, NEW t, Becomes(r, t), Typed(t), failures' \in 0..MaxFailures
  PROVE  TypeInv'
<1>1. run' \in [Run -> Transcript]
  BY DEF TypeInv, Becomes, Typed
<1>2. ASSUME NEW q \in Run PROVE Typed(run'[q])
  <2>1. run'[q] = IF q = r THEN t ELSE run[q]
    BY DEF Becomes, TypeInv
  <2> QED BY <2>1 DEF TypeInv
<1>3. \A q \in Run : Typed(run[q])'
  BY <1>2 DEF Typed
<1> QED BY <1>1, <1>3 DEF TypeInv

\* A transcript that is not about to be bound is typed if it is a transcript.
LEMMA QuietTyped == ASSUME NEW t \in Transcript, t.pc # "bind" PROVE Typed(t)
BY DEF Typed

LEMMA FreshTyped == ASSUME NEW job \in ScenarioId \cup {"drift", "remove-undeclared", None}
                    PROVE  Fresh(job) \in Transcript /\ Fresh(job).pc = "resolve"
BY DEF Fresh, Transcript

Label == {"idle", "resolve", "bind", "apply", "after", "mutate", "mutated", "drift", "digest",
          "remove", "end"}

\* A transcript with one field replaced by a value of its type is one.
LEMMA WithLabel ==
  ASSUME NEW t \in Transcript, NEW pc \in Label PROVE [t EXCEPT !.pc = pc] \in Transcript
BY DEF Label, Transcript

LEMMA WithFlag ==
  ASSUME NEW t \in Transcript, NEW v \in BOOLEAN
  PROVE  /\ [t EXCEPT !.advisory = v] \in Transcript
         /\ [t EXCEPT !.applied = v] \in Transcript
         /\ [t EXCEPT !.outOfBand = v] \in Transcript
         /\ [t EXCEPT !.error = v] \in Transcript
         /\ [t EXCEPT !.passed = v] \in Transcript
<1>1. [t EXCEPT !.advisory = v] \in Transcript
  BY DEF Transcript
<1>2. [t EXCEPT !.applied = v] \in Transcript
  BY DEF Transcript
<1>3. [t EXCEPT !.outOfBand = v] \in Transcript
  BY DEF Transcript
<1>4. [t EXCEPT !.error = v] \in Transcript
  BY DEF Transcript
<1>5. [t EXCEPT !.passed = v] \in Transcript
  BY DEF Transcript
<1> QED BY <1>1, <1>2, <1>3, <1>4, <1>5

LEMMA WithResult ==
  ASSUME NEW t \in Transcript, NEW v \in {"DEPLOYED", "DEPLOY_REFUSED"}
  PROVE  [t EXCEPT !.result = v] \in Transcript
BY DEF Transcript

LEMMA WithSlots ==
  ASSUME NEW t \in Transcript, NEW slots \in SUBSET Slot
  PROVE  [t EXCEPT !.todo = slots] \in Transcript /\ [t EXCEPT !.wrote = slots] \in Transcript
<1>1. [t EXCEPT !.todo = slots] \in Transcript
  BY DEF Transcript
<1>2. [t EXCEPT !.wrote = slots] \in Transcript
  BY DEF Transcript
<1> QED BY <1>1, <1>2

LEMMA WithState ==
  ASSUME NEW t \in Transcript, NEW st \in Stored \cup {None}
  PROVE  /\ [t EXCEPT !.before = st] \in Transcript
         /\ [t EXCEPT !.after = st] \in Transcript
         /\ [t EXCEPT !.appliedState = st] \in Transcript
         /\ [t EXCEPT !.live = st] \in Transcript
<1>1. [t EXCEPT !.before = st] \in Transcript
  BY DEF Transcript
<1>2. [t EXCEPT !.after = st] \in Transcript
  BY DEF Transcript
<1>3. [t EXCEPT !.appliedState = st] \in Transcript
  BY DEF Transcript
<1>4. [t EXCEPT !.live = st] \in Transcript
  BY DEF Transcript
<1> QED BY <1>1, <1>2, <1>3, <1>4

LEMMA WithDecision ==
  ASSUME NEW t \in Transcript, NEW d \in Decision
  PROVE  [t EXCEPT !.decision = d] \in Transcript /\ [t EXCEPT !.would = d] \in Transcript
<1>1. [t EXCEPT !.decision = d] \in Transcript
  BY DEF Transcript
<1>2. [t EXCEPT !.would = d] \in Transcript
  BY DEF Transcript
<1> QED BY <1>1, <1>2

LEMMA WithFile ==
  ASSUME NEW t \in Transcript, NEW file \in File \cup {None}
  PROVE  [t EXCEPT !.file = file] \in Transcript
BY DEF Transcript

LEMMA WithApproval ==
  ASSUME NEW t \in Transcript,
         NEW approval \in [run : (ScenarioId \cup {"some-other-run"}) \X (File \cup {None}),
                           plan : File \cup {None}] \cup {None}
  PROVE  [t EXCEPT !.approval = approval] \in Transcript
BY DEF Transcript

LEMMA WithReport ==
  ASSUME NEW t \in Transcript, NEW st \in Stored, NEW v \in BOOLEAN
  PROVE  [t EXCEPT !.drift = [digest |-> st, detected |-> v]] \in Transcript
BY DEF Transcript

LEMMA WithEvent ==
  ASSUME NEW t \in Transcript, NEW stage \in {"policy", "binding"}, NEW class \in Class
  PROVE  [t EXCEPT !.audit = Append(@, [stage |-> stage, class |-> class])] \in Transcript
<1>1. t.audit \in Seq([stage : {"policy", "binding"}, class : Class])
  BY DEF Transcript
<1> DEFINE audit == Append(t.audit, [stage |-> stage, class |-> class])
<1>2. audit \in Seq([stage : {"policy", "binding"}, class : Class])
  BY <1>1
<1> HIDE DEF audit
<1>3. [t EXCEPT !.audit = audit] \in Transcript
  BY <1>2 DEF Transcript
<1> QED BY <1>3 DEF audit

LEMMA FailedTyped == ASSUME NEW t \in Transcript PROVE Failed(t) \in Transcript
<1> DEFINE t1 == [t EXCEPT !.pc = "end"]
<1>1. t1 \in Transcript
  BY WithLabel DEF Label
<1>2. Failed(t) = [t1 EXCEPT !.error = TRUE]
  BY DEF Failed
<1> HIDE DEF t1
<1> QED BY <1>1, <1>2, WithFlag

LEMMA RefuseTyped ==
  ASSUME NEW t \in Transcript, NEW stage \in {"policy", "binding"}, NEW class \in Class
  PROVE  Refuse(t, stage, class) \in Transcript
<1> DEFINE t1 == [t EXCEPT !.applied = FALSE]
           t2 == [t1 EXCEPT !.result = "DEPLOY_REFUSED"]
           t3 == [t2 EXCEPT !.audit = Append(@, [stage |-> stage, class |-> class])]
<1>1. Refuse(t, stage, class) = t3
  BY DEF Refuse, Transcript
<1>2. t1 \in Transcript
  BY WithFlag
<1> HIDE DEF t1
<1>3. t2 \in Transcript
  BY <1>2, WithResult
<1> HIDE DEF t2
<1>4. t3 \in Transcript
  BY <1>3, WithEvent
<1> QED BY <1>1, <1>4

LEMMA ConcludeTyped ==
  ASSUME NEW t \in Transcript, NEW id \in ScenarioId
  PROVE  Conclude(Scenarios[id], t) \in Transcript
<1> DEFINE t1 == [t EXCEPT !.pc = "end"]
<1>1. t1 \in Transcript
  BY WithLabel DEF Label
<1>2. Conclude(Scenarios[id], t) = [t1 EXCEPT !.passed = Meets(Scenarios[id], t)]
  BY DEF Conclude
<1> HIDE DEF t1
<1> QED BY <1>1, <1>2, WithFlag, MeetsIsTruth

LEMMA FinishTyped ==
  ASSUME NEW t \in Transcript, NEW id \in ScenarioId
  PROVE  Finish(Scenarios[id], t) \in Transcript /\ Finish(Scenarios[id], t).pc # "bind"
<1> DEFINE s == Scenarios[id]
           u == Finish(s, t)
           labelled == [t EXCEPT !.pc = "apply"]
           toApply == [labelled EXCEPT !.todo = Declared(s)]
           reported == IF t.audit # <<>> THEN t ELSE [t EXCEPT !.result = "DEPLOYED"]
           toAfter == [reported EXCEPT !.pc = "after"]
<1>1. u \in {Failed(t), toApply, Conclude(s, reported), toAfter}
  BY DEF Finish
<1>2. DOMAIN t = Fields /\ DOMAIN reported = Fields
  BY DEF Transcript, Fields
<1>3. Failed(t).pc # "bind" /\ toApply.pc # "bind" /\ Conclude(s, reported).pc # "bind" /\ toAfter.pc # "bind"
  BY <1>2 DEF Failed, Conclude, Fields
<1>4. labelled \in Transcript /\ Declared(s) \in SUBSET Slot
  BY WithLabel DEF Label, Declared
<1> HIDE DEF labelled
<1>5. toApply \in Transcript
  BY <1>4, WithSlots
<1>6. reported \in Transcript
  BY WithResult
<1> HIDE DEF reported
<1>7. toAfter \in Transcript
  BY <1>6, WithLabel DEF Label
<1> HIDE DEF u, toApply, toAfter
<1>8. u \in Transcript /\ u.pc # "bind"
  BY <1>1, <1>3, <1>5, <1>6, <1>7, FailedTyped, ConcludeTyped
<1> QED BY <1>8 DEF u

\* What the gate may answer is a decision, and it says why.
LEMMA EvaluationsTyped ==
  ASSUME NEW graph, NEW allowlist, NEW broken, NEW d \in Evaluations(graph, allowlist, broken)
  PROVE  d \in Decision /\ d.class \in Class
<1> DEFINE found == FindingsOf(graph, allowlist)
<1>1. found \in SUBSET Finding
  BY FindingsTyped
<1>2. EngineError \in Decision /\ Answer("deny", "unparsable_artifact", {}) \in Decision
      /\ \A result \in {"admit", "deny"} : Answer(result, "evaluated", found) \in Decision
  BY <1>1 DEF EngineError, Answer, Decision, Class
<1> HIDE DEF found
<1>3. d \in {EngineError, Answer("deny", "unparsable_artifact", {}),
             Answer("admit", "evaluated", found), Answer("deny", "evaluated", found)}
  BY DEF Evaluations, found
<1>4. d \in Decision
  BY <1>2, <1>3
<1> QED BY <1>4 DEF Decision

LEMMA PlatformStored == ASSUME NEW st, IsState(st) PROVE st \in Stored
BY DEF IsState, Stored

LEMMA SlotsAreSlots ==
  UndeclaredSlots \in SUBSET Slot /\ GrantSlot(ConsoleGrant) \in Slot
BY GrantAssumption DEF UndeclaredSlots, UndeclaredGrants, GrantSlot, Slot

LEMMA TypeBegin ==
  ASSUME DriftInv, TypeInv, NEW r \in Run, Begin(r)
  PROVE  TypeInv'
<1>1. platform \in Stored \cup {None} /\ failures' \in 0..MaxFailures
  BY PlatformStored DEF DriftInv, TypeInv, Begin, Start, StartDrift, StartRemoval
<1>2. ASSUME NEW job, Start(r, job) PROVE TypeInv'
  <2> DEFINE s == Scenarios[job]
             read == [Fresh(job) EXCEPT !.before = platform]
             begun == IF s.skipRemote THEN Fresh(job)
                      ELSE [Fresh(job) EXCEPT !.before = platform, !.after = platform]
             t == IF Available(s, Env[r]) THEN begun ELSE Failed(Fresh(job))
  <2>1. Becomes(r, t)
    BY <1>2 DEF Start
  <2>2. Fresh(job) \in Transcript
    BY <1>2, FreshTyped DEF Start
  <2>3. read \in Transcript
    BY <1>1, <2>2, WithState
  <2>4. begun \in {Fresh(job), [read EXCEPT !.after = platform]}
    OBVIOUS
  <2>5. t.pc # "bind"
    BY DEF Fresh, Failed
  <2> HIDE DEF read, begun
  <2>6. begun \in Transcript
    BY <1>1, <2>2, <2>3, <2>4, WithState
  <2>7. t \in Transcript
    BY <2>2, <2>6, FailedTyped
  <2> QED BY <1>1, <2>1, <2>5, <2>7, QuietTyped, TypeStep
<1>3. CASE StartDrift(r)
  <2> DEFINE t == [Fresh("drift") EXCEPT !.pc = "drift"]
  <2>1. t \in Transcript
    BY FreshTyped, WithLabel DEF Label
  <2>2. t.pc = "drift" /\ Becomes(r, t)
    BY <1>3 DEF StartDrift, Fresh
  <2> HIDE DEF t
  <2> QED BY <1>1, <2>1, <2>2, QuietTyped, TypeStep
<1>4. CASE StartRemoval(r)
  <2> DEFINE todo == {slot \in UndeclaredSlots : platform[slot] # None}
             labelled == [Fresh("remove-undeclared") EXCEPT !.pc = "remove"]
             t == [labelled EXCEPT !.todo = todo]
  <2>1. labelled \in Transcript /\ todo \in SUBSET Slot
    BY FreshTyped, WithLabel, SlotsAreSlots DEF Label
  <2>2. t.pc = "remove" /\ Becomes(r, t)
    BY <1>4 DEF StartRemoval, Fresh
  <2> HIDE DEF labelled, todo
  <2>3. t \in Transcript
    BY <2>1, WithSlots
  <2> QED BY <1>1, <2>2, <2>3, QuietTyped, TypeStep
<1> QED BY <1>2, <1>3, <1>4 DEF Begin

LEMMA TypeEvaluate ==
  ASSUME TypeInv, NEW r \in Run, run[r].job \in ScenarioId, EvaluateManifest(r) \/ Evaluate(r)
  PROVE  TypeInv'
<1> DEFINE s == ScenarioOf(r)
<1>1. /\ run[r] \in Transcript /\ failures' \in 0..MaxFailures
      /\ Declared(s) \in SUBSET Slot
  BY DEF TypeInv, EvaluateManifest, Evaluate, Declared
<1>2. ASSUME NEW d \in DecisionsOf(s) PROVE d \in Decision /\ d.class \in Class
  BY EvaluationsTyped DEF DecisionsOf
<1>3. CASE EvaluateManifest(r)
  <2>1. PICK d \in DecisionsOf(s) :
          LET t == IF s.gated THEN [run[r] EXCEPT !.decision = d] ELSE [run[r] EXCEPT !.would = d]
          IN Becomes(r, IF s.gated /\ Denied(d)
                        THEN [Refuse(t, "policy", d.class) EXCEPT !.pc = "after"]
                        ELSE [t EXCEPT !.pc = "apply", !.todo = Declared(s)])
    BY <1>3 DEF EvaluateManifest
  <2> DEFINE t == IF s.gated THEN [run[r] EXCEPT !.decision = d] ELSE [run[r] EXCEPT !.would = d]
             refused == Refuse(t, "policy", d.class)
             labelled == [t EXCEPT !.pc = "apply"]
             u == IF s.gated /\ Denied(d) THEN [refused EXCEPT !.pc = "after"]
                  ELSE [labelled EXCEPT !.todo = Declared(s)]
  <2>2. Becomes(r, u)
    BY <2>1
  <2>3. t \in Transcript
    BY <1>1, <1>2, WithDecision
  <2> HIDE DEF t
  <2>4. refused \in Transcript
    BY <1>2, <2>3, RefuseTyped
  <2>5. labelled \in Transcript
    BY <2>3, WithLabel DEF Label
  <2>6. u.pc \in {"after", "apply"}
    <3>1. DOMAIN refused = Fields /\ DOMAIN labelled = Fields /\ labelled.pc = "apply"
      BY <2>3, <2>4, <2>5 DEF Transcript, Fields
    <3> HIDE DEF refused, labelled
    <3> QED BY <3>1 DEF Fields
  <2> HIDE DEF refused, labelled
  <2>7. u \in Transcript
    <3>1. [refused EXCEPT !.pc = "after"] \in Transcript
      BY <2>4, WithLabel DEF Label
    <3>2. [labelled EXCEPT !.todo = Declared(s)] \in Transcript
      BY <1>1, <2>5, WithSlots
    <3> QED BY <3>1, <3>2
  <2> QED BY <1>1, <2>2, <2>6, <2>7, QuietTyped, TypeStep
<1>4. CASE Evaluate(r)
  <2> DEFINE file == IF s.artifact # "" THEN None ELSE [plan |-> s.var, appended |-> FALSE]
             t == [run[r] EXCEPT !.file = file]
  <2>1. PICK d \in DecisionsOf(s) : Becomes(r, Judged(s, t, d))
    BY <1>4 DEF Evaluate
  <2>2. file \in File \cup {None} /\ (s.artifact = "" => file \in File)
    BY DEF File, ScenarioOf
  <2>3. t.file = file /\ t.job = run[r].job
    BY <1>1 DEF Transcript
  <2> HIDE DEF file
  <2>4. t \in Transcript
    BY <1>1, <2>2, WithFile
  <2> HIDE DEF t
  <2> DEFINE noted == [t EXCEPT !.would = d]
             decided == [t EXCEPT !.decision = d]
             refused == Refuse(decided, "policy", d.class)
             warned == [decided EXCEPT !.advisory = Denied(d)]
             onward == [warned EXCEPT !.pc = "bind"]
  <2>5. Judged(s, t, d) \in {Finish(s, noted), Finish(s, refused), onward}
    BY DEF Judged
  <2>6. noted \in Transcript /\ decided \in Transcript
    BY <1>2, <2>4, WithDecision
  <2>7. onward.file = file /\ onward.job = run[r].job
    BY <2>3, <2>4 DEF Transcript
  <2> HIDE DEF noted, decided
  <2>8. Denied(d) \in BOOLEAN
    BY DEF Denied
  <2>9. warned \in Transcript /\ refused \in Transcript
    BY <1>2, <2>6, <2>8, WithFlag, RefuseTyped
  <2> HIDE DEF warned, refused
  <2>10. onward \in Transcript
    BY <2>9, WithLabel DEF Label
  <2> HIDE DEF onward
  <2>11. Typed(onward)
    BY <2>2, <2>7, <2>10, OutcomeFacts DEF Typed, ScenarioOf
  <2>12. Typed(Finish(s, noted)) /\ Typed(Finish(s, refused))
    BY <2>6, <2>9, FinishTyped, QuietTyped DEF ScenarioOf
  <2>13. Typed(Judged(s, t, d))
    BY <2>5, <2>11, <2>12
  <2> QED BY <1>1, <2>1, <2>13, TypeStep
<1> QED BY <1>3, <1>4

LEMMA TypeBind ==
  ASSUME TypeInv, NEW r \in Run, run[r].job \in ScenarioId, BindApproval(r)
  PROVE  TypeInv'
<1> DEFINE s == ScenarioOf(r)
           t == run[r]
           rehearsed == Rehearsed(t.job, t.file)
           class == VerifyApproval(t.job, rehearsed.file, rehearsed.approval)
           approved == [t EXCEPT !.approval = rehearsed.approval]
           bound == [approved EXCEPT !.file = rehearsed.file]
           u == IF class = "" THEN bound ELSE Refuse(bound, "binding", class)
<1>1. Becomes(r, Finish(s, u))
  BY DEF BindApproval
<1>2. /\ t \in Transcript /\ failures' \in 0..MaxFailures /\ t.file \in File \cup {None}
      /\ Scenarios[t.job].binding = "modified" => t.file \in File
  BY DEF TypeInv, Typed, BindApproval, At, Transcript
<1>3. /\ rehearsed.file \in File \cup {None}
      /\ rehearsed.approval \in [run : (ScenarioId \cup {"some-other-run"}) \X (File \cup {None}),
                                 plan : File \cup {None}] \cup {None}
  <2>1. Approval(t.job, t.file) \in [run : (ScenarioId \cup {"some-other-run"}) \X (File \cup {None}),
                                     plan : File \cup {None}]
    BY <1>2 DEF Approval, RunID
  <2>2. CASE s.binding = "honest" \/ s.binding = "unapproved"
    BY <1>2, <2>1, <2>2 DEF Rehearsed, ScenarioOf
  <2>3. CASE s.binding = "stale"
    BY <1>2, <2>1, <2>3 DEF Rehearsed, ScenarioOf, Approval, RunID
  <2>4. CASE s.binding = "modified"
    <3>1. [t.file EXCEPT !.appended = TRUE] \in File
      BY <1>2, <2>4 DEF ScenarioOf, File
    <3> QED BY <2>1, <2>4, <3>1 DEF Rehearsed, ScenarioOf
  <2> QED BY <2>2, <2>3, <2>4, ScenarioFacts DEF ScenarioOf
<1>4. class = "" \/ class \in Class
  BY DEF VerifyApproval, Class
<1> HIDE DEF class, rehearsed
<1>5. approved \in Transcript
  BY <1>2, <1>3, WithApproval
<1> HIDE DEF approved
<1>6. bound \in Transcript
  BY <1>3, <1>5, WithFile
<1> HIDE DEF bound
<1>7. u \in Transcript
  BY <1>4, <1>6, RefuseTyped
<1> HIDE DEF u
<1>8. Typed(Finish(s, u))
  BY <1>7, FinishTyped, QuietTyped DEF ScenarioOf
<1> QED BY <1>1, <1>2, <1>8, TypeStep

\* A slot is moved from what is left to what was written.
LEMMA PutTyped ==
  ASSUME NEW t \in Transcript, NEW slot \in Slot
  PROVE  [t EXCEPT !.todo = @ \ {slot}, !.wrote = @ \cup {slot}] \in Transcript
<1> DEFINE t1 == [t EXCEPT !.todo = @ \ {slot}]
           wrote == t.wrote \cup {slot}
<1>1. t.todo \in SUBSET Slot /\ wrote \in SUBSET Slot /\ t1.wrote = t.wrote
  BY DEF Transcript
<1>2. [t EXCEPT !.todo = @ \ {slot}, !.wrote = @ \cup {slot}] = [t1 EXCEPT !.wrote = wrote]
  BY <1>1
<1>3. t1 \in Transcript
  BY <1>1, WithSlots
<1> HIDE DEF t1, wrote
<1> QED BY <1>1, <1>2, <1>3, WithSlots

LEMMA TypeWrite ==
  ASSUME TypeInv, NEW r \in Run, Put(r) \/ Mutate(r) \/ Remove(r)
  PROVE  TypeInv'
<1> DEFINE moved(slot) == [run[r] EXCEPT !.todo = @ \ {slot}, !.wrote = @ \cup {slot}]
<1>1. /\ run[r] \in Transcript /\ failures' \in 0..MaxFailures
      /\ run[r].todo \in SUBSET Slot /\ run[r].wrote \in SUBSET Slot /\ DOMAIN run[r] = Fields
  BY DEF TypeInv, Put, Mutate, Remove, Transcript, Fields
<1>2. CASE Put(r)
  <2>1. PICK slot \in run[r].todo : Becomes(r, moved(slot))
    BY <1>2 DEF Put, Ready
  <2>2. moved(slot) \in Transcript
    BY <1>1, PutTyped
  <2>3. moved(slot).pc = "apply"
    BY <1>1, <1>2 DEF Put, At, Fields
  <2> QED BY <1>1, <2>1, <2>2, <2>3, QuietTyped, TypeStep
<1>3. CASE Mutate(r)
  <2> DEFINE wrote == run[r].wrote \cup {GrantSlot(ConsoleGrant)}
             labelled == [run[r] EXCEPT !.pc = "mutated"]
             t == [labelled EXCEPT !.wrote = wrote]
  <2>1. labelled \in Transcript /\ labelled.wrote = run[r].wrote
    BY <1>1, WithLabel DEF Label, Fields
  <2>2. Becomes(r, t) /\ t.pc = "mutated"
    BY <1>1, <1>3 DEF Mutate, Fields
  <2>3. wrote \in SUBSET Slot
    BY <1>1, SlotsAreSlots
  <2> HIDE DEF labelled, wrote
  <2>4. t \in Transcript
    BY <2>1, <2>3, WithSlots
  <2> QED BY <1>1, <2>2, <2>4, QuietTyped, TypeStep
<1>4. CASE Remove(r)
  <2>1. PICK slot \in run[r].todo : Becomes(r, IF platform[slot] = None THEN Failed(run[r]) ELSE moved(slot))
    BY <1>4 DEF Remove
  <2> DEFINE t == IF platform[slot] = None THEN Failed(run[r]) ELSE moved(slot)
  <2>2. t \in Transcript
    BY <1>1, FailedTyped, PutTyped
  <2>3. t.pc \in {"remove", "end"}
    BY <1>1, <1>4 DEF Remove, At, Failed, Fields
  <2> HIDE DEF t
  <2>4. Becomes(r, t)
    BY <2>1 DEF t
  <2> QED BY <1>1, <2>2, <2>3, <2>4, QuietTyped, TypeStep
<1> QED BY <1>2, <1>3, <1>4

LEMMA TypeLater ==
  ASSUME RunInv, DriftInv, TypeInv, NEW r \in Run,
         \/ Applied(r) \/ ReadAfter(r) \/ ReadMutated(r) \/ DriftRead(r) \/ DriftReport(r)
         \/ Removed(r) \/ Fail(r)
  PROVE  TypeInv'
<1>1. /\ run[r] \in Transcript /\ DOMAIN run[r] = Fields
      /\ platform \in Stored /\ failures' \in 0..MaxFailures
  <2>1. failures \in 0..MaxFailures
    BY DEF TypeInv
  <2>2. \/ failures' = failures
        \/ failures < MaxFailures /\ failures' = failures + 1
    <3>1. CASE Fail(r)
      BY <3>1 DEF Fail
    <3>2. CASE ~Fail(r)
      BY <3>2 DEF Applied, ReadAfter, ReadMutated, DriftRead, DriftReport, Removed
    <3> QED BY <3>1, <3>2
  <2>3. failures' \in 0..MaxFailures
    BY <2>1, <2>2, MaxFailuresAssumption
  <2> QED BY <2>3, PlatformStored DEF TypeInv, DriftInv, Transcript, Fields
<1>2. CASE Applied(r)
  <2> DEFINE t1 == [run[r] EXCEPT !.applied = TRUE]
             t == [t1 EXCEPT !.pc = "after"]
             u == IF t.audit = <<>> THEN [t EXCEPT !.result = "DEPLOYED"]
                  ELSE [t EXCEPT !.outOfBand = TRUE]
  <2>1. Becomes(r, u) /\ u.pc = "after"
    BY <1>1, <1>2 DEF Applied, Fields
  <2>2. t1 \in Transcript
    BY <1>1, WithFlag
  <2> HIDE DEF t1
  <2>3. t \in Transcript
    BY <2>2, WithLabel DEF Label
  <2> HIDE DEF t
  <2>4. u \in Transcript
    BY <2>3, WithResult, WithFlag
  <2> HIDE DEF u
  <2> QED BY <1>1, <2>1, <2>4, QuietTyped, TypeStep
<1>3. CASE ReadAfter(r)
  <2> DEFINE s == ScenarioOf(r)
             st == IF run[r].applied THEN platform ELSE None
             t1 == [run[r] EXCEPT !.after = platform]
             t == [t1 EXCEPT !.appliedState = st]
             u == IF s.drift /\ t.applied THEN [t EXCEPT !.pc = "mutate"] ELSE Conclude(s, t)
  <2>1. Becomes(r, u) /\ run[r].pc = "after"
    BY <1>3 DEF ReadAfter, At
  <2>2. u.pc # "bind"
    BY <1>1 DEF Fields, Conclude
  <2>3. run[r].job \in ScenarioId
    BY <2>1 DEF RunInv, CommandStep
  <2>4. t1 \in Transcript /\ st \in Stored \cup {None}
    BY <1>1, WithState
  <2> HIDE DEF t1, st
  <2>5. t \in Transcript
    BY <2>4, WithState
  <2> HIDE DEF t
  <2>6. u \in Transcript
    BY <2>3, <2>5, WithLabel, ConcludeTyped DEF Label, ScenarioOf
  <2> HIDE DEF u
  <2> QED BY <1>1, <2>1, <2>2, <2>6, QuietTyped, TypeStep
<1>4. CASE ReadMutated(r)
  <2> DEFINE t == [run[r] EXCEPT !.after = platform]
             u == [t EXCEPT !.pc = "drift"]
  <2>1. Becomes(r, u) /\ u.pc = "drift"
    BY <1>1, <1>4 DEF ReadMutated, Fields
  <2>2. t \in Transcript
    BY <1>1, WithState
  <2> HIDE DEF t
  <2>3. u \in Transcript
    BY <2>2, WithLabel DEF Label
  <2> QED BY <1>1, <2>1, <2>3, QuietTyped, TypeStep
<1>5. CASE DriftRead(r)
  <2> DEFINE t == [run[r] EXCEPT !.live = platform]
             u == [t EXCEPT !.pc = "digest"]
  <2>1. Becomes(r, u) /\ u.pc = "digest"
    BY <1>1, <1>5 DEF DriftRead, Fields
  <2>2. t \in Transcript
    BY <1>1, WithState
  <2> HIDE DEF t
  <2>3. u \in Transcript
    BY <2>2, WithLabel DEF Label
  <2> QED BY <1>1, <2>1, <2>3, QuietTyped, TypeStep
<1>6. CASE DriftReport(r)
  <2>1. PICK d : LET t == [run[r] EXCEPT !.drift = [digest |-> platform, detected |-> Denied(d)]]
                 IN Becomes(r, IF t.job \in ScenarioId THEN Conclude(ScenarioOf(r), t)
                               ELSE [t EXCEPT !.pc = "end", !.passed = ~Denied(d)])
    BY <1>6 DEF DriftReport
  <2> DEFINE t == [run[r] EXCEPT !.drift = [digest |-> platform, detected |-> Denied(d)]]
             ended == [t EXCEPT !.pc = "end"]
             u == IF t.job \in ScenarioId THEN Conclude(ScenarioOf(r), t)
                  ELSE [ended EXCEPT !.passed = ~Denied(d)]
  <2>2. Becomes(r, u)
    BY <2>1
  <2>3. Denied(d) \in BOOLEAN
    BY DEF Denied
  <2>4. u.pc = "end" /\ t.job = run[r].job
    BY <1>1 DEF Conclude, Fields
  <2>5. t \in Transcript
    BY <1>1, <2>3, WithReport
  <2> HIDE DEF t
  <2>6. ended \in Transcript
    BY <2>5, WithLabel DEF Label
  <2> HIDE DEF ended
  <2>7. u \in Transcript
    BY <2>3, <2>4, <2>5, <2>6, WithFlag, ConcludeTyped DEF ScenarioOf
  <2> HIDE DEF u
  <2> QED BY <1>1, <2>2, <2>4, <2>7, QuietTyped, TypeStep
<1>7. CASE Removed(r)
  <2> DEFINE t == [run[r] EXCEPT !.pc = "end"]
             u == [t EXCEPT !.passed = TRUE]
  <2>1. Becomes(r, u) /\ u.pc = "end"
    BY <1>1, <1>7 DEF Removed, Fields
  <2>2. t \in Transcript
    BY <1>1, WithLabel DEF Label
  <2> HIDE DEF t
  <2>3. u \in Transcript
    BY <2>2, WithFlag
  <2> QED BY <1>1, <2>1, <2>3, QuietTyped, TypeStep
<1>8. CASE Fail(r)
  <2>1. Becomes(r, Failed(run[r])) /\ Failed(run[r]).pc = "end"
    BY <1>1, <1>8 DEF Fail, Failed, Fields
  <2> QED BY <1>1, <2>1, FailedTyped, QuietTyped, TypeStep
<1> QED BY <1>2, <1>3, <1>4, <1>5, <1>6, <1>7, <1>8

LEMMA TypeInit == Init => TypeInv
<1> SUFFICES ASSUME Init PROVE TypeInv
  OBVIOUS
<1> DEFINE t == [Fresh(None) EXCEPT !.pc = "idle"]
<1>1. t \in Transcript /\ t.pc = "idle"
  <2>1. t.pc = "idle"
    BY DEF Fresh
  <2> QED BY <2>1, FreshTyped, WithLabel DEF Label
<1>2. run = [r \in Run |-> t] /\ failures \in 0..MaxFailures
  BY MaxFailuresAssumption DEF Init
<1> HIDE DEF t
<1> QED BY <1>1, <1>2, QuietTyped DEF TypeInv

LEMMA TypeNext == RunInv /\ DriftInv /\ TypeInv /\ [Next]_vars => TypeInv'
<1> SUFFICES ASSUME RunInv, DriftInv, TypeInv, [Next]_vars PROVE TypeInv'
  OBVIOUS
<1>1. CASE UNCHANGED vars
  BY <1>1 DEF TypeInv, Typed, vars
<1>2. ASSUME NEW r \in Run, Step(r) PROVE TypeInv'
  <2>1. CASE run[r].job \in ScenarioId
    BY <1>2, <2>1, TypeBegin, TypeEvaluate, TypeBind, TypeWrite, TypeLater DEF Step
  <2>2. CASE run[r].job \notin ScenarioId
    <3>1. run[r].pc \in CommandStep
      BY <2>2 DEF RunInv
    <3>2. ~EvaluateManifest(r) /\ ~Evaluate(r) /\ ~BindApproval(r)
      BY <3>1 DEF CommandStep, At, EvaluateManifest, Evaluate, BindApproval
    <3> QED BY <1>2, <3>2, TypeBegin, TypeWrite, TypeLater DEF Step
  <2> QED BY <2>1, <2>2
<1> QED BY <1>1, <1>2 DEF Next

\* Whatever is put, removed or abandoned half way, the platform holds a state
\* the authorizer can be asked about, and every run a transcript (Transcript,
\* ApplyManifestGraph, applyDriftMutation).
THEOREM PipelineTypes == Spec => []TypeOK
<1>1. DriftInv /\ TypeInv => TypeOK
  BY PlatformStored DEF DriftInv, TypeInv, TypeOK
<1>2. Spec => [](RunInv /\ DriftInv)
  BY DriftInit, DriftNext, RunsAreGood, PTL DEF Spec
<1>3. Spec => []TypeInv
  BY <1>2, TypeInit, TypeNext, PTL DEF Spec
<1> QED BY <1>1, <1>2, <1>3, PTL
=============================================================================
