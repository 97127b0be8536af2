--------------------------- MODULE PostureProofs ---------------------------
(***************************************************************************)
(* What the platform holds after whole sequences of pipeline runs.  First  *)
(* for any number of pipelines side by side (Posture): restoring restores, *)
(* and outside the reach of a scenario meant to expose something nothing   *)
(* is reachable that no reviewed allowlist names.  Then for the scripts of *)
(* the demonstration (Demo), for any commands given in any order and       *)
(* stopped at any step: the shell stays within its scripts, and nothing is *)
(* exposed that no allowlist names unless both opt-ins were made.  The     *)
(* history of the first part takes no part in the second.  Last, of        *)
(* pipelines that run one at a time, the scripts' among them: every        *)
(* scenario comes to the outcome its row of the table declares.            *)
(***************************************************************************)
EXTENDS Demo, Posture, PipelineProofs, SequenceTheorems

-----------------------------------------------------------------------------
(* The shape of a step: what becomes of the transcript it moves.           *)

Resting == {"idle", "end"}

\* finish goes on to an apply of what the scenario evaluates.
Applicable(s) == s.artifact = "" /\ (~s.skipApply \/ s.manifest # "" \/ s.outOfBand)

\* A job begins.
Opens(t, u) ==
  /\ t.pc \in Resting /\ platform' = platform
  /\ u.wrote = {} /\ ~u.passed
  /\ u.job \in ScenarioId => u.pc \in {"resolve", "end"}
  /\ u.job \notin ScenarioId => \/ u.job = "drift" /\ u.pc = "drift"
                                \/ /\ u.job = "remove-undeclared" /\ u.pc = "remove"
                                   /\ u.todo = {slot \in UndeclaredSlots : platform[slot] # None}

\* A scenario or a drift check goes on without writing.
GoesOn(t, u) ==
  /\ t.pc \notin Resting \cup {"remove"} /\ platform' = platform
  /\ u.job = t.job /\ u.wrote = t.wrote /\ u.pc \notin {"idle", "resolve", "remove", "mutated"}
  /\ u.pc \in {"bind", "apply", "after"} => t.job \in ScenarioId /\ t.pc \in {"resolve", "bind", "apply"}
  /\ u.pc = "apply" => Applicable(Scenarios[t.job])
  /\ u.pc = "mutate" => Scenarios[t.job].drift
  /\ ~t.passed /\ u.passed => u.pc = "end" /\ (u.job = "secure-apply" => u.result = "DEPLOYED")

\* A removal ends; when it passes every enumerated grant is gone.
Ends(t, u) ==
  /\ t.pc = "remove" /\ u.pc = "end" /\ platform' = platform
  /\ u.job = t.job /\ u.wrote = t.wrote /\ u.todo = t.todo
  /\ ~t.passed /\ u.passed => t.todo = {}

\* A resource is put, the drift mutation is made, a grant is removed.
Puts(t, u, slot) ==
  /\ t.pc = "apply" /\ u.pc = "apply" /\ t.job \in ScenarioId
  /\ u.job = t.job /\ u.passed = t.passed /\ u.wrote = t.wrote \cup {slot}
  /\ platform' = [platform EXCEPT ![slot] = Configuration(t.job).st[slot]]

Mutates(t, u) ==
  /\ t.pc = "mutate" /\ u.pc = "mutated" /\ u.job = t.job /\ u.passed = t.passed
  /\ platform' = [platform EXCEPT ![GrantSlot(ConsoleGrant)] = DriftGrant]

Removes(t, u, slot) ==
  /\ t.pc = "remove" /\ u.job = t.job /\ u.passed = t.passed
  /\ (u.pc = "remove" /\ u.todo = t.todo \ {slot}) \/ u.pc = "end"
  /\ platform' = [platform EXCEPT ![slot] = None]

Moves(t, u) ==
  \/ Opens(t, u) \/ GoesOn(t, u) \/ Ends(t, u)
  \/ (\E slot : Puts(t, u, slot)) \/ Mutates(t, u) \/ (\E slot : Removes(t, u, slot))

\* A transcript of a run that goes on has not passed yet; what passed says so.
Coherent(t) ==
  /\ t.pc \notin Resting => ~t.passed
  /\ t.pc = "remove" => t.job = "remove-undeclared"
  /\ t.job = "remove-undeclared" => t.pc \in Resting \cup {"remove"}
  /\ t.pc = "apply" => Applicable(Scenarios[t.job])
  /\ t.pc = "mutate" => Scenarios[t.job].drift
  /\ t.passed /\ t.job = "secure-apply" => t.result = "DEPLOYED"

CoherentInv == \A r \in Run : Coherent(run[r])

\* The step of one run.
Moved(r) == \E u : Becomes(r, u) /\ DOMAIN u = Fields /\ u.pc # "idle" /\ Moves(run[r], u)

-----------------------------------------------------------------------------
\* What the scenario that restores the platform is.
LEMMA SecureApply ==
  LET s == Scenarios["secure-apply"] IN
    /\ "secure-apply" \in ScenarioId /\ s = Gated
    /\ s.expect = "applied" /\ s.var = "secure.tfvars" /\ s.manifest = "" /\ s.artifact = ""
    /\ ~s.drift /\ ~s.skipApply
BY DEF ScenarioId, Scenarios, Gated, Base

\* A manifest set is no checked-in artifact.
LEMMA ManifestFacts ==
  \A id \in ScenarioId : Scenarios[id].manifest # "" => Scenarios[id].artifact = ""
<1> SUFFICES ASSUME NEW id \in ScenarioId
             PROVE  Scenarios[id].manifest = Base.manifest \/ Scenarios[id].artifact = Base.artifact
  BY Zenon DEF Base
<1> DEFINE fields == {"var", "allowlist", "artifact", "manifest", "gated", "binding", "breakEngine", "scan",
                      "denylist", "advisory", "outOfBand", "drift", "vulnerable", "skipApply",
                      "skipRemote", "expect", "reconciliation"}
           Fits(s) == DOMAIN s = fields /\ s.manifest = Base.manifest
           Blank(s) == DOMAIN s = fields /\ s.artifact = Base.artifact
<1>1. Fits(Base) /\ Blank(Base)
  BY DEF Base
<1>2. Fits(Gated) /\ Blank(Gated)
  BY <1>1 DEF Gated
<1>3. Fits(Refused) /\ Blank(Refused)
  BY <1>2 DEF Refused
<1>4. Fits(Vulnerable) /\ Blank(Vulnerable)
  BY <1>1 DEF Vulnerable
<1>5. Fits(Scenarios[id]) \/ Blank(Scenarios[id])
  BY <1>1, <1>2, <1>3, <1>4, SMTT(60) DEF ScenarioId, Scenarios, Evaluating
<1> QED BY <1>5

LEMMA ConcludeShape ==
  ASSUME NEW t, NEW id \in ScenarioId, DOMAIN t = Fields, t.job = id
  PROVE  LET u == Conclude(Scenarios[id], t)
         IN /\ DOMAIN u = Fields /\ u.pc = "end" /\ u.job = t.job /\ u.wrote = t.wrote
            /\ u.passed /\ u.job = "secure-apply" => u.result = "DEPLOYED"
<1> DEFINE u == Conclude(Scenarios[id], t)
<1>1. /\ DOMAIN u = Fields /\ u.pc = "end" /\ u.job = t.job /\ u.wrote = t.wrote
      /\ u.passed = Meets(Scenarios[id], t) /\ u.result = t.result
  BY DEF Conclude, Fields
<1>2. ASSUME Meets(Scenarios[id], t), id = "secure-apply" PROVE t.result = "DEPLOYED"
  BY <1>2, SecureApply DEF Meets
<1> HIDE DEF u
<1> QED BY <1>1, <1>2 DEF u

LEMMA FinishShape ==
  ASSUME NEW t, DOMAIN t = Fields, t.job \in ScenarioId
  PROVE  LET u == Finish(Scenarios[t.job], t)
         IN /\ DOMAIN u = Fields /\ u.pc \in {"apply", "after", "end"} /\ u.job = t.job /\ u.wrote = t.wrote
            /\ u.pc = "apply" => Applicable(Scenarios[t.job])
            /\ ~t.passed /\ u.passed => u.pc = "end" /\ (u.job = "secure-apply" => u.result = "DEPLOYED")
<1> DEFINE s == Scenarios[t.job]
           u == Finish(s, t)
           toApply == [t EXCEPT !.pc = "apply", !.todo = Declared(s)]
           reported == IF t.audit # <<>> THEN t ELSE [t EXCEPT !.result = "DEPLOYED"]
<1>1. CASE t.audit = <<>> /\ s.artifact # ""
  <2>1. u = Failed(t)
    BY <1>1 DEF Finish
  <2>2. /\ DOMAIN Failed(t) = Fields /\ Failed(t).pc = "end" /\ Failed(t).job = t.job
        /\ Failed(t).wrote = t.wrote /\ Failed(t).passed = t.passed
    BY DEF Failed, Fields
  <2> QED BY <2>1, <2>2
<1>2. CASE /\ ~(t.audit = <<>> /\ s.artifact # "")
           /\ IF t.audit # <<>> THEN s.outOfBand ELSE ~s.skipApply
  <2>1. u = toApply
    BY <1>2 DEF Finish
  <2>2. /\ DOMAIN toApply = Fields /\ toApply.pc = "apply" /\ toApply.job = t.job
        /\ toApply.wrote = t.wrote /\ toApply.passed = t.passed
    BY DEF Fields
  <2>3. Applicable(s)
    BY <1>2, ArtifactFacts DEF Applicable
  <2> QED BY <2>1, <2>2, <2>3
<1>3. CASE /\ ~(t.audit = <<>> /\ s.artifact # "")
           /\ ~IF t.audit # <<>> THEN s.outOfBand ELSE ~s.skipApply
  <2>1. u = IF s.skipRemote THEN Conclude(s, reported) ELSE [reported EXCEPT !.pc = "after"]
    BY <1>3 DEF Finish
  <2>2. /\ DOMAIN reported = Fields /\ reported.job = t.job /\ reported.wrote = t.wrote
        /\ reported.passed = t.passed
    BY DEF Fields
  <2> HIDE DEF reported
  <2>3. CASE s.skipRemote
    BY <2>1, <2>2, <2>3, ConcludeShape
  <2>4. CASE ~s.skipRemote
    <3> DEFINE v == [reported EXCEPT !.pc = "after"]
    <3>1. /\ DOMAIN v = Fields /\ v.pc = "after" /\ v.job = t.job /\ v.wrote = t.wrote
          /\ v.passed = t.passed
      BY <2>2 DEF Fields
    <3> QED BY <2>1, <2>4, <3>1
  <2> QED BY <2>3, <2>4
<1> QED BY <1>1, <1>2, <1>3

-----------------------------------------------------------------------------
(* Every step has one of these shapes.                                     *)

LEMMA BeginMoves == ASSUME NEW r \in Run, Begin(r) PROVE Moved(r)
<1>1. ASSUME NEW job, Start(r, job) PROVE Moved(r)
  <2> DEFINE s == Scenarios[job]
             begun == IF s.skipRemote THEN Fresh(job)
                      ELSE [Fresh(job) EXCEPT !.before = platform, !.after = platform]
             u == IF Available(s, Env[r]) THEN begun ELSE Failed(Fresh(job))
  <2>1. Becomes(r, u) /\ run[r].pc \in Resting /\ platform' = platform /\ job \in ScenarioId
    BY <1>1 DEF Start, Resting
  <2>2. /\ DOMAIN u = Fields /\ u.job = job /\ u.wrote = {} /\ ~u.passed
        /\ u.pc \in {"resolve", "end"}
    BY DEF Fresh, Failed, Fields
  <2> HIDE DEF u
  <2>3. Opens(run[r], u)
    BY <2>1, <2>2 DEF Opens
  <2> QED BY <2>1, <2>2, <2>3 DEF Moved, Moves
<1>2. CASE StartDrift(r)
  <2> DEFINE u == [Fresh("drift") EXCEPT !.pc = "drift"]
  <2>1. Becomes(r, u) /\ run[r].pc \in Resting /\ platform' = platform
    BY <1>2 DEF StartDrift, Resting
  <2>2. DOMAIN u = Fields /\ u.job = "drift" /\ u.wrote = {} /\ ~u.passed /\ u.pc = "drift"
    BY DEF Fresh, Fields
  <2> HIDE DEF u
  <2>3. Opens(run[r], u)
    BY <2>1, <2>2, Commands DEF Opens
  <2> QED BY <2>1, <2>2, <2>3 DEF Moved, Moves
<1>3. CASE StartRemoval(r)
  <2> DEFINE todo == {slot \in UndeclaredSlots : platform[slot] # None}
             u == [Fresh("remove-undeclared") EXCEPT !.pc = "remove", !.todo = todo]
  <2>1. Becomes(r, u) /\ run[r].pc \in Resting /\ platform' = platform
    BY <1>3 DEF StartRemoval, Resting
  <2>2. /\ DOMAIN u = Fields /\ u.job = "remove-undeclared" /\ u.wrote = {} /\ ~u.passed
        /\ u.pc = "remove" /\ u.todo = todo
    BY DEF Fresh, Fields
  <2> HIDE DEF u
  <2>3. Opens(run[r], u)
    BY <2>1, <2>2, Commands DEF Opens
  <2> QED BY <2>1, <2>2, <2>3 DEF Moved, Moves
<1> QED BY <1>1, <1>2, <1>3 DEF Begin

LEMMA EvaluateMoves ==
  ASSUME RunInv, NEW r \in Run, run[r].job \in ScenarioId,
         EvaluateManifest(r) \/ Evaluate(r) \/ BindApproval(r)
  PROVE  Moved(r)
<1> DEFINE s == ScenarioOf(r)
<1>1. DOMAIN run[r] = Fields /\ platform' = platform /\ run[r].pc \in {"resolve", "bind"}
  BY DEF RunInv, EvaluateManifest, Evaluate, BindApproval, At
\* A step to the end of finish, or to the label u has.
<1>2. ASSUME NEW u, Becomes(r, u), DOMAIN u = Fields, u.job = run[r].job, u.wrote = run[r].wrote,
             u.pc \in {"bind", "apply", "after", "end"},
             u.pc = "apply" => Applicable(s),
             ~run[r].passed /\ u.passed => u.pc = "end" /\ (u.job = "secure-apply" => u.result = "DEPLOYED")
      PROVE  Moved(r)
  <2>1. GoesOn(run[r], u)
    BY <1>1, <1>2 DEF GoesOn, ScenarioOf, Resting
  <2> QED BY <1>2, <2>1 DEF Moved, Moves
<1>3. ASSUME NEW t, DOMAIN t = Fields, t.job = run[r].job, t.wrote = run[r].wrote, t.passed = run[r].passed,
             Becomes(r, Finish(s, t))
      PROVE  Moved(r)
  <2> DEFINE u == Finish(s, t)
  <2>1. /\ DOMAIN u = Fields /\ u.pc \in {"apply", "after", "end"} /\ u.job = t.job /\ u.wrote = t.wrote
        /\ u.pc = "apply" => Applicable(s)
        /\ ~t.passed /\ u.passed => u.pc = "end" /\ (u.job = "secure-apply" => u.result = "DEPLOYED")
    BY <1>3, FinishShape DEF ScenarioOf
  <2>2. Becomes(r, u)
    BY <1>3
  <2> HIDE DEF u
  <2> QED BY <1>2, <1>3, <2>1, <2>2
<1>4. CASE EvaluateManifest(r)
  <2>1. PICK d \in DecisionsOf(s) :
          LET t == IF s.gated THEN [run[r] EXCEPT !.decision = d] ELSE [run[r] EXCEPT !.would = d]
          IN Becomes(r, IF s.gated /\ Denied(d)
                        THEN [Refuse(t, "policy", d.class) EXCEPT !.pc = "after"]
                        ELSE [t EXCEPT !.pc = "apply", !.todo = Declared(s)])
    BY <1>4 DEF EvaluateManifest
  <2> DEFINE t == IF s.gated THEN [run[r] EXCEPT !.decision = d] ELSE [run[r] EXCEPT !.would = d]
             u == IF s.gated /\ Denied(d) THEN [Refuse(t, "policy", d.class) EXCEPT !.pc = "after"]
                  ELSE [t EXCEPT !.pc = "apply", !.todo = Declared(s)]
  <2>2. Becomes(r, u)
    BY <2>1
  <2>3. DOMAIN t = Fields /\ t.job = run[r].job /\ t.wrote = run[r].wrote /\ t.passed = run[r].passed
    BY <1>1 DEF Fields
  <2> HIDE DEF t
  <2>4. /\ DOMAIN u = Fields /\ u.job = run[r].job /\ u.wrote = run[r].wrote /\ u.passed = run[r].passed
        /\ u.pc \in {"apply", "after"}
    BY <2>3 DEF Refuse, Fields
  <2>5. Applicable(s)
    BY <1>4, ManifestFacts DEF EvaluateManifest, ScenarioOf, Applicable
  <2> HIDE DEF u
  <2> QED BY <1>2, <2>2, <2>4, <2>5
<1>5. CASE Evaluate(r)
  <2> DEFINE file == IF s.artifact # "" THEN None ELSE [plan |-> s.var, appended |-> FALSE]
             t == [run[r] EXCEPT !.file = file]
  <2>1. PICK d \in DecisionsOf(s) : Becomes(r, Judged(s, t, d))
    BY <1>5 DEF Evaluate
  <2>2. DOMAIN t = Fields /\ t.job = run[r].job /\ t.wrote = run[r].wrote /\ t.passed = run[r].passed
    BY <1>1 DEF Fields
  <2> HIDE DEF t
  <2> DEFINE noted == [t EXCEPT !.would = d]
             refused == Refuse([t EXCEPT !.decision = d], "policy", d.class)
             onward == [t EXCEPT !.decision = d, !.advisory = Denied(d), !.pc = "bind"]
  <2>3. Judged(s, t, d) \in {Finish(s, noted), Finish(s, refused), onward}
    BY DEF Judged
  <2>4. /\ DOMAIN noted = Fields /\ noted.job = t.job /\ noted.wrote = t.wrote /\ noted.passed = t.passed
    BY <2>2 DEF Fields
  <2>5. /\ DOMAIN refused = Fields /\ refused.job = t.job /\ refused.wrote = t.wrote /\ refused.passed = t.passed
    BY <2>2 DEF Fields, Refuse
  <2>6. /\ DOMAIN onward = Fields /\ onward.job = t.job /\ onward.wrote = t.wrote /\ onward.passed = t.passed
        /\ onward.pc = "bind"
    BY <2>2 DEF Fields
  <2> HIDE DEF noted, refused, onward
  <2>7. CASE Judged(s, t, d) = Finish(s, noted)
    BY <1>3, <2>1, <2>2, <2>4, <2>7
  <2>8. CASE Judged(s, t, d) = Finish(s, refused)
    BY <1>3, <2>1, <2>2, <2>5, <2>8
  <2>9. CASE Judged(s, t, d) = onward
    BY <1>2, <2>1, <2>2, <2>6, <2>9
  <2> QED BY <2>3, <2>7, <2>8, <2>9
<1>6. CASE BindApproval(r)
  <2> DEFINE rehearsed == Rehearsed(run[r].job, run[r].file)
             class == VerifyApproval(run[r].job, rehearsed.file, rehearsed.approval)
             bound == [run[r] EXCEPT !.approval = rehearsed.approval, !.file = rehearsed.file]
             t == IF class = "" THEN bound ELSE Refuse(bound, "binding", class)
  <2>1. Becomes(r, Finish(s, t))
    BY <1>6 DEF BindApproval
  <2>2. /\ DOMAIN bound = Fields /\ bound.job = run[r].job /\ bound.wrote = run[r].wrote
        /\ bound.passed = run[r].passed
    BY <1>1 DEF Fields
  <2> HIDE DEF bound, class
  <2>3. DOMAIN t = Fields /\ t.job = run[r].job /\ t.wrote = run[r].wrote /\ t.passed = run[r].passed
    BY <2>2 DEF Refuse, Fields
  <2> HIDE DEF t
  <2> QED BY <1>3, <2>1, <2>3
<1> QED BY <1>4, <1>5, <1>6

LEMMA WriteMoves ==
  ASSUME RunInv, NEW r \in Run, (Put(r) /\ run[r].job \in ScenarioId) \/ Mutate(r) \/ Remove(r)
  PROVE  Moved(r)
<1>1. DOMAIN run[r] = Fields
  BY DEF RunInv
<1>2. CASE Put(r) /\ run[r].job \in ScenarioId
  <2>1. PICK slot : /\ platform' = [platform EXCEPT ![slot] = Configuration(run[r].job).st[slot]]
                    /\ Becomes(r, [run[r] EXCEPT !.todo = @ \ {slot}, !.wrote = @ \cup {slot}])
    BY <1>2 DEF Put, ScenarioOf, Configuration
  <2> DEFINE u == [run[r] EXCEPT !.todo = @ \ {slot}, !.wrote = @ \cup {slot}]
  <2>2. run[r].pc = "apply"
    BY <1>2 DEF Put, At
  <2>3. /\ DOMAIN u = Fields /\ u.pc = "apply" /\ u.job = run[r].job /\ u.passed = run[r].passed
        /\ u.wrote = run[r].wrote \cup {slot}
    BY <1>1, <2>2 DEF Fields
  <2>4. Becomes(r, u)
    BY <2>1
  <2> HIDE DEF u
  <2>5. Puts(run[r], u, slot)
    BY <1>2, <2>1, <2>2, <2>3 DEF Puts
  <2> QED BY <2>3, <2>4, <2>5 DEF Moved, Moves
<1>3. CASE Mutate(r)
  <2> DEFINE u == [run[r] EXCEPT !.pc = "mutated", !.wrote = @ \cup {GrantSlot(ConsoleGrant)}]
  <2>1. Becomes(r, u) /\ run[r].pc = "mutate"
        /\ platform' = [platform EXCEPT ![GrantSlot(ConsoleGrant)] = DriftGrant]
    BY <1>3 DEF Mutate, At
  <2>2. DOMAIN u = Fields /\ u.pc = "mutated" /\ u.job = run[r].job /\ u.passed = run[r].passed
    BY <1>1 DEF Fields
  <2> HIDE DEF u
  <2>3. Mutates(run[r], u)
    BY <2>1, <2>2 DEF Mutates
  <2> QED BY <2>1, <2>2, <2>3 DEF Moved, Moves
<1>4. CASE Remove(r)
  <2>1. PICK slot : /\ platform' = [platform EXCEPT ![slot] = None]
                    /\ Becomes(r, IF platform[slot] = None THEN Failed(run[r])
                                  ELSE [run[r] EXCEPT !.todo = @ \ {slot}, !.wrote = @ \cup {slot}])
    BY <1>4 DEF Remove
  <2> DEFINE u == IF platform[slot] = None THEN Failed(run[r])
                  ELSE [run[r] EXCEPT !.todo = @ \ {slot}, !.wrote = @ \cup {slot}]
  <2>2. run[r].pc = "remove"
    BY <1>4 DEF Remove, At
  <2>3. /\ DOMAIN u = Fields /\ u.job = run[r].job /\ u.passed = run[r].passed
        /\ (u.pc = "remove" /\ u.todo = run[r].todo \ {slot}) \/ u.pc = "end"
    BY <1>1, <2>2 DEF Failed, Fields
  <2>4. Becomes(r, u)
    BY <2>1
  <2> HIDE DEF u
  <2>5. Removes(run[r], u, slot)
    BY <2>1, <2>2, <2>3 DEF Removes
  <2> QED BY <2>3, <2>4, <2>5 DEF Moved, Moves
<1> QED BY <1>2, <1>3, <1>4

LEMMA LaterMoves ==
  ASSUME RunInv, NEW r \in Run,
         \/ (Applied(r) \/ ReadAfter(r)) /\ run[r].job \in ScenarioId
         \/ ReadMutated(r) \/ DriftRead(r) \/ DriftReport(r) \/ Removed(r) \/ Fail(r)
  PROVE  Moved(r)
<1>1. DOMAIN run[r] = Fields /\ platform' = platform
  BY DEF RunInv, Applied, ReadAfter, ReadMutated, DriftRead, DriftReport, Removed, Fail
\* A step that keeps the job and what was written.
<1>2. ASSUME NEW u, Becomes(r, u), DOMAIN u = Fields, u.job = run[r].job, u.wrote = run[r].wrote,
             run[r].pc \notin Resting \cup {"remove"},
             \/ u.pc \in {"drift", "digest"} /\ u.passed = run[r].passed
             \/ u.pc = "after" /\ run[r].pc = "apply" /\ u.passed = run[r].passed /\ u.job \in ScenarioId
             \/ u.pc = "mutate" /\ u.passed = run[r].passed /\ Scenarios[u.job].drift
             \/ u.pc = "end" /\ (~run[r].passed /\ u.passed /\ u.job = "secure-apply" => u.result = "DEPLOYED")
      PROVE  Moved(r)
  <2>1. GoesOn(run[r], u)
    BY <1>1, <1>2 DEF GoesOn
  <2>2. u.pc # "idle"
    BY <1>2
  <2> QED BY <1>2, <2>1, <2>2 DEF Moved, Moves
<1>3. CASE Applied(r) /\ run[r].job \in ScenarioId
  <2> DEFINE t == [run[r] EXCEPT !.applied = TRUE, !.pc = "after"]
             u == IF t.audit = <<>> THEN [t EXCEPT !.result = "DEPLOYED"]
                  ELSE [t EXCEPT !.outOfBand = TRUE]
  <2>1. Becomes(r, u) /\ run[r].pc = "apply"
    BY <1>3 DEF Applied, At
  <2>2. /\ DOMAIN u = Fields /\ u.pc = "after" /\ u.job = run[r].job /\ u.wrote = run[r].wrote
        /\ u.passed = run[r].passed
    BY <1>1 DEF Fields
  <2> HIDE DEF u
  <2> QED BY <1>2, <1>3, <2>1, <2>2 DEF Resting
<1>4. CASE ReadAfter(r) /\ run[r].job \in ScenarioId
  <2> DEFINE s == ScenarioOf(r)
             t == [run[r] EXCEPT !.after = platform,
                                 !.appliedState = IF run[r].applied THEN platform ELSE None]
             v == [t EXCEPT !.pc = "mutate"]
  <2>1. Becomes(r, IF s.drift /\ t.applied THEN v ELSE Conclude(s, t)) /\ run[r].pc = "after"
    BY <1>4 DEF ReadAfter, At
  <2>2. DOMAIN t = Fields /\ t.job = run[r].job /\ t.wrote = run[r].wrote /\ t.passed = run[r].passed
    BY <1>1 DEF Fields
  <2> HIDE DEF t
  <2>3. CASE s.drift /\ t.applied
    <3>1. /\ DOMAIN v = Fields /\ v.pc = "mutate" /\ v.job = run[r].job /\ v.wrote = run[r].wrote
          /\ v.passed = run[r].passed
      BY <2>2 DEF Fields
    <3>2. Becomes(r, v)
      BY <2>1, <2>3
    <3> HIDE DEF v
    <3> QED BY <1>2, <2>1, <2>3, <3>1, <3>2 DEF ScenarioOf, Resting
  <2>4. CASE ~(s.drift /\ t.applied)
    <3> DEFINE u == Conclude(s, t)
    <3>1. /\ DOMAIN u = Fields /\ u.pc = "end" /\ u.job = t.job /\ u.wrote = t.wrote
          /\ u.passed /\ u.job = "secure-apply" => u.result = "DEPLOYED"
      BY <1>4, <2>2, ConcludeShape DEF ScenarioOf
    <3>2. Becomes(r, u)
      BY <2>1, <2>4
    <3> HIDE DEF u
    <3> QED BY <1>2, <2>1, <2>2, <3>1, <3>2 DEF Resting
  <2> QED BY <2>3, <2>4
<1>5. CASE ReadMutated(r)
  <2> DEFINE u == [run[r] EXCEPT !.after = platform, !.pc = "drift"]
  <2>1. Becomes(r, u) /\ run[r].pc = "mutated"
    BY <1>5 DEF ReadMutated, At
  <2>2. /\ DOMAIN u = Fields /\ u.pc = "drift" /\ u.job = run[r].job /\ u.wrote = run[r].wrote
        /\ u.passed = run[r].passed
    BY <1>1 DEF Fields
  <2> HIDE DEF u
  <2> QED BY <1>2, <2>1, <2>2 DEF Resting
<1>6. CASE DriftRead(r)
  <2> DEFINE u == [run[r] EXCEPT !.live = platform, !.pc = "digest"]
  <2>1. Becomes(r, u) /\ run[r].pc = "drift"
    BY <1>6 DEF DriftRead, At
  <2>2. /\ DOMAIN u = Fields /\ u.pc = "digest" /\ u.job = run[r].job /\ u.wrote = run[r].wrote
        /\ u.passed = run[r].passed
    BY <1>1 DEF Fields
  <2> HIDE DEF u
  <2> QED BY <1>2, <2>1, <2>2 DEF Resting
<1>7. CASE DriftReport(r)
  <2>1. PICK d : LET t == [run[r] EXCEPT !.drift = [digest |-> platform, detected |-> Denied(d)]]
                 IN Becomes(r, IF t.job \in ScenarioId THEN Conclude(ScenarioOf(r), t)
                               ELSE [t EXCEPT !.pc = "end", !.passed = ~Denied(d)])
    BY <1>7 DEF DriftReport
  <2> DEFINE t == [run[r] EXCEPT !.drift = [digest |-> platform, detected |-> Denied(d)]]
             u == [t EXCEPT !.pc = "end", !.passed = ~Denied(d)]
             v == Conclude(ScenarioOf(r), t)
  <2>2. run[r].pc = "digest"
    BY <1>7 DEF DriftReport, At
  <2>3. DOMAIN t = Fields /\ t.job = run[r].job /\ t.wrote = run[r].wrote
    BY <1>1 DEF Fields
  <2>4. Becomes(r, IF t.job \in ScenarioId THEN v ELSE u)
    BY <2>1
  <2> HIDE DEF t
  <2>5. CASE t.job \in ScenarioId
    <3>1. /\ DOMAIN v = Fields /\ v.pc = "end" /\ v.job = t.job /\ v.wrote = t.wrote
          /\ v.passed /\ v.job = "secure-apply" => v.result = "DEPLOYED"
      BY <2>3, <2>5, ConcludeShape DEF ScenarioOf
    <3>2. Becomes(r, v)
      BY <2>4, <2>5
    <3> HIDE DEF v
    <3> QED BY <1>2, <2>2, <2>3, <3>1, <3>2 DEF Resting
  <2>6. CASE t.job \notin ScenarioId
    <3>1. DOMAIN u = Fields /\ u.pc = "end" /\ u.job = t.job /\ u.wrote = t.wrote
      BY <2>3 DEF Fields
    <3>2. Becomes(r, u)
      BY <2>4, <2>6
    <3> HIDE DEF u
    <3> QED BY <1>2, <2>2, <2>3, <2>6, <3>1, <3>2, SecureApply DEF Resting
  <2> QED BY <2>5, <2>6
<1>8. CASE Removed(r)
  <2> DEFINE u == [run[r] EXCEPT !.pc = "end", !.passed = TRUE]
  <2>1. Becomes(r, u) /\ run[r].pc = "remove" /\ run[r].todo = {}
    BY <1>8 DEF Removed, At
  <2>2. /\ DOMAIN u = Fields /\ u.pc = "end" /\ u.job = run[r].job /\ u.wrote = run[r].wrote
        /\ u.todo = run[r].todo
    BY <1>1 DEF Fields
  <2> HIDE DEF u
  <2>3. Ends(run[r], u)
    BY <1>1, <2>1, <2>2 DEF Ends
  <2> QED BY <2>1, <2>2, <2>3 DEF Moved, Moves
<1>9. CASE Fail(r)
  <2> DEFINE u == Failed(run[r])
  <2>1. Becomes(r, u) /\ run[r].pc \notin Resting
    BY <1>9 DEF Fail, Resting
  <2>2. /\ DOMAIN u = Fields /\ u.pc = "end" /\ u.job = run[r].job /\ u.wrote = run[r].wrote
        /\ u.passed = run[r].passed /\ u.todo = run[r].todo
    BY <1>1 DEF Fields, Failed
  <2> HIDE DEF u
  <2>3. CASE run[r].pc = "remove"
    <3>1. Ends(run[r], u)
      BY <1>1, <2>2, <2>3 DEF Ends
    <3> QED BY <2>1, <2>2, <3>1 DEF Moved, Moves
  <2>4. CASE run[r].pc # "remove"
    BY <1>2, <2>1, <2>2, <2>4
  <2> QED BY <2>3, <2>4
<1> QED BY <1>3, <1>4, <1>5, <1>6, <1>7, <1>8, <1>9

LEMMA StepMoves == ASSUME RunInv, NEW r \in Run, Step(r) PROVE Moved(r)
<1>1. CASE run[r].job \in ScenarioId
  BY <1>1, BeginMoves, EvaluateMoves, WriteMoves, LaterMoves DEF Step
<1>2. CASE run[r].job \notin ScenarioId
  <2>1. run[r].pc \in CommandStep
    BY <1>2 DEF RunInv
  <2>2. ~EvaluateManifest(r) /\ ~Evaluate(r) /\ ~BindApproval(r) /\ ~Put(r) /\ ~Applied(r) /\ ~ReadAfter(r)
    BY <2>1 DEF CommandStep, At, EvaluateManifest, Evaluate, BindApproval, Put, Applied, ReadAfter
  <2> QED BY <2>2, BeginMoves, WriteMoves, LaterMoves DEF Step
<1> QED BY <1>1, <1>2

-----------------------------------------------------------------------------
(* What passed says so.                                                    *)

LEMMA CoherentInit == Init => CoherentInv
BY DEF Init, CoherentInv, Coherent, Fresh, Resting

LEMMA CoherentMoves ==
  ASSUME NEW t, NEW u, Coherent(t), Moves(t, u), DOMAIN u = Fields PROVE Coherent(u)
<1>1. CASE Opens(t, u)
  BY <1>1, Commands DEF Opens, Coherent, Resting
<1>2. CASE GoesOn(t, u)
  BY <1>2 DEF GoesOn, Coherent, Resting
<1>3. CASE Ends(t, u)
  BY <1>3 DEF Ends, Coherent, Resting
<1>4. ASSUME NEW slot, Puts(t, u, slot) PROVE Coherent(u)
  BY <1>4 DEF Puts, Coherent, Resting
<1>5. CASE Mutates(t, u)
  BY <1>5 DEF Mutates, Coherent, Resting
<1>6. ASSUME NEW slot, Removes(t, u, slot) PROVE Coherent(u)
  BY <1>6 DEF Removes, Coherent, Resting
<1> QED BY <1>1, <1>2, <1>3, <1>4, <1>5, <1>6 DEF Moves

\* What becomes of the transcripts in a step.
LEMMA OthersStay ==
  ASSUME RunInv, NEW r \in Run, NEW u, Becomes(r, u)
  PROVE  run'[r] = u /\ \A q \in Run : q # r => run'[q] = run[q]
BY DEF RunInv, Becomes

LEMMA CoherentNext == RunInv /\ CoherentInv /\ [Next]_vars => CoherentInv'
<1> SUFFICES ASSUME RunInv, CoherentInv, [Next]_vars PROVE CoherentInv'
  OBVIOUS
<1>1. CASE UNCHANGED vars
  BY <1>1 DEF CoherentInv, Coherent, vars
<1>2. ASSUME NEW r \in Run, Step(r) PROVE CoherentInv'
  <2>1. PICK u : Becomes(r, u) /\ DOMAIN u = Fields /\ Moves(run[r], u)
    BY <1>2, StepMoves DEF Moved
  <2>2. Coherent(u)
    BY <2>1, CoherentMoves DEF CoherentInv
  <2>3. \A q \in Run : Coherent(run'[q])
    BY <2>1, <2>2, OthersStay DEF CoherentInv
  <2>4. \A q \in Run : Coherent(run[q])'
    BY <2>3 DEF Coherent
  <2> QED BY <2>4 DEF CoherentInv
<1> QED BY <1>1, <1>2 DEF Next

-----------------------------------------------------------------------------
(* Restoring the platform.                                                 *)

Secure == PlanOf["secure.tfvars"].st

\* What the platform holds beside the secure configuration's resources is a
\* grant that remove-undeclared enumerates.
Known == \A slot \in Slot \ UndeclaredSlots : platform[slot] # None => Secure[slot] # None

\* What a secure apply that nothing runs beside has put is still there.
AloneInv ==
  \A r \in Run :
    Alone(r) /\ run[r].job = "secure-apply" /\ run[r].pc \in {"resolve", "bind", "apply", "after"} =>
      \A slot \in run[r].wrote : platform[slot] = Secure[slot]

LEMMA SecureIsEvaluated == Configuration("secure-apply").st = Secure
BY SecureApply, Zenon DEF Configuration, Evaluated, Secure

\* One slot of the platform changes, or none.
LEMMA PlatformPut ==
  ASSUME IsState(platform), NEW slot, NEW value, platform' = [platform EXCEPT ![slot] = value]
  PROVE  \A other \in Slot : platform'[other] = IF other = slot THEN value ELSE platform[other]
BY DEF IsState

LEMMA KnownNext == RunInv /\ DriftInv /\ CoherentInv /\ Known /\ [Next]_vars => Known'
<1> SUFFICES ASSUME RunInv, DriftInv, CoherentInv, Known, [Next]_vars PROVE Known'
  OBVIOUS
<1>1. CASE UNCHANGED vars
  BY <1>1 DEF Known, vars
<1>2. ASSUME NEW r \in Run, Step(r) PROVE Known'
  <2>1. PICK u : Moves(run[r], u)
    BY <1>2, StepMoves DEF Moved
  <2>2. IsState(platform) /\ Coherent(run[r])
    BY DEF DriftInv, CoherentInv
  <2>3. CASE platform' = platform
    BY <2>3 DEF Known, Secure
  <2>4. ASSUME NEW slot, Puts(run[r], u, slot) PROVE Known'
    <3>1. /\ platform' = [platform EXCEPT ![slot] = Configuration(run[r].job).st[slot]]
          /\ run[r].job \in ScenarioId
      BY <2>4 DEF Puts
    <3>2. slot \in Slot \ UndeclaredSlots /\ Configuration(run[r].job).st[slot] # None => Secure[slot] # None
      <4>1. Scenarios[run[r].job].artifact = ""
        BY <2>2, <2>4 DEF Puts, Coherent, Applicable
      <4> QED BY <3>1, <4>1, DescribedAssumption DEF Secure
    <3> QED BY <2>2, <3>1, <3>2, PlatformPut DEF Known, Secure
  <2>5. CASE Mutates(run[r], u)
    <3>1. GrantSlot(ConsoleGrant) \in UndeclaredSlots
      BY DEF UndeclaredSlots, UndeclaredGrants
    <3> QED BY <2>2, <2>5, <3>1, PlatformPut DEF Mutates, Known, Secure
  <2>6. ASSUME NEW slot, Removes(run[r], u, slot) PROVE Known'
    BY <2>2, <2>6, PlatformPut DEF Removes, Known, Secure
  <2> QED BY <2>1, <2>3, <2>4, <2>5, <2>6 DEF Moves, Opens, GoesOn, Ends
<1> QED BY <1>1, <1>2 DEF Next

LEMMA AloneNext == RunInv /\ DriftInv /\ TypeInv /\ CoherentInv /\ AloneInv /\ [Next]_vars => AloneInv'
<1> SUFFICES ASSUME RunInv, DriftInv, TypeInv, CoherentInv, AloneInv, [Next]_vars PROVE AloneInv'
  OBVIOUS
<1>1. CASE UNCHANGED vars
  BY <1>1 DEF AloneInv, Alone, Secure, vars
<1>2. ASSUME NEW q \in Run, Step(q),
             NEW r \in Run, Alone(r)', run'[r].job = "secure-apply",
             run'[r].pc \in {"resolve", "bind", "apply", "after"},
             NEW slot \in run'[r].wrote
      PROVE  platform'[slot] = Secure[slot]
  <2>1. PICK u : Becomes(q, u) /\ DOMAIN u = Fields /\ u.pc # "idle" /\ Moves(run[q], u)
    BY <1>2, StepMoves DEF Moved
  \* A step of another slot would leave it in use.
  <2>2. q = r /\ run'[r] = u /\ Alone(r)
    BY <1>2, <2>1, OthersStay DEF Alone
  <2>3. IsState(platform) /\ Coherent(run[r])
    BY DEF DriftInv, CoherentInv
  <2>4. CASE Opens(run[r], u)
    BY <1>2, <2>2, <2>4 DEF Opens
  <2>5. CASE GoesOn(run[r], u)
    <3>1. /\ platform' = platform /\ u.wrote = run[r].wrote /\ run[r].job = "secure-apply"
          /\ run[r].pc \in {"resolve", "bind", "apply"}
      BY <1>2, <2>2, <2>5 DEF GoesOn
    <3> QED BY <1>2, <2>2, <3>1 DEF AloneInv
  <2>6. ASSUME NEW put, Puts(run[r], u, put) PROVE platform'[slot] = Secure[slot]
    <3>1. /\ platform' = [platform EXCEPT ![put] = Configuration(run[r].job).st[put]]
          /\ u.wrote = run[r].wrote \cup {put} /\ run[r].pc = "apply"
          /\ run[r].job = "secure-apply"
      BY <1>2, <2>2, <2>6 DEF Puts
    <3>2. \A other \in Slot : platform'[other] = IF other = put THEN Secure[put] ELSE platform[other]
      <4>1. platform' = [platform EXCEPT ![put] = Secure[put]]
        BY <3>1, SecureIsEvaluated
      <4> QED BY <2>3, <4>1, PlatformPut
    <3>3. slot \in Slot
      <4>1. TypeInv'
        BY TypeNext
      <4>2. run'[r] \in Transcript
        BY <4>1 DEF TypeInv
      <4>3. run'[r].wrote \in SUBSET Slot
        BY <4>2, Zenon DEF Transcript
      <4> QED BY <1>2, <4>3
    <3>4. CASE slot = put
      BY <3>3, <3>4, <3>2
    <3>5. CASE slot # put
      <4>1. slot \in run[r].wrote
        BY <1>2, <2>2, <3>1, <3>5
      <4>2. platform[slot] = Secure[slot]
        BY <2>2, <3>1, <4>1 DEF AloneInv
      <4> QED BY <3>3, <3>5, <3>2, <4>2
    <3> QED BY <3>4, <3>5
  <2>7. CASE Ends(run[r], u) \/ Mutates(run[r], u)
    BY <1>2, <2>2, <2>7 DEF Ends, Mutates
  <2>8. ASSUME NEW gone, Removes(run[r], u, gone) PROVE FALSE
    <3>1. u.pc \in {"remove", "end"}
      BY <2>8 DEF Removes
    <3> QED BY <1>2, <2>2, <3>1
  <2> QED BY <2>1, <2>2, <2>4, <2>5, <2>6, <2>7, <2>8 DEF Moves
<1>3. ASSUME NEW q \in Run, Step(q) PROVE AloneInv'
  BY <1>2, <1>3 DEF AloneInv, Secure
<1> QED BY <1>1, <1>3 DEF Next

\* What every state satisfies.
LEMMA PipelinesHold ==
  Spec => [](RunInv /\ DriftInv /\ TypeInv /\ ReportInv /\ CoherentInv /\ Known /\ AloneInv)
<1>1. Init => RunInv /\ DriftInv /\ TypeInv /\ ReportInv /\ CoherentInv
  BY InvInit, DriftInit, TypeInit, ReportInit, CoherentInit
<1>2. RunInv /\ DriftInv /\ TypeInv /\ ReportInv /\ CoherentInv /\ [Next]_vars =>
        RunInv' /\ DriftInv' /\ TypeInv' /\ ReportInv' /\ CoherentInv'
  BY InvStep, DriftNext, TypeNext, ReportNext, CoherentNext
<1>3. Spec => [](RunInv /\ DriftInv /\ TypeInv /\ ReportInv /\ CoherentInv)
  BY <1>1, <1>2, PTL DEF Spec
<1>4. Init => Known /\ AloneInv
  BY DEF Init, Known, AloneInv, Fresh
<1>5. Spec => [](Known /\ AloneInv)
  BY <1>3, <1>4, KnownNext, AloneNext, PTL DEF Spec
<1> QED BY <1>3, <1>5, PTL

\* A secure apply that has run its course with no enumerated grant left leaves
\* the platform in the secure configuration, for any value sets and overlays
\* that describe the same resources, whatever was applied, refused, drifted,
\* removed or abandoned before (demo.sh restore, Toolchain.Apply).
THEOREM RestoreTheorem == Spec => []SecureApplyRestores
<1>1. DriftInv /\ ReportInv /\ Known /\ AloneInv => SecureApplyRestores
  <2> SUFFICES ASSUME DriftInv, ReportInv, Known, AloneInv, NEW r \in Run, Alone(r),
                      run[r].job = "secure-apply", run[r].pc = "after", run[r].applied,
                      \A slot \in UndeclaredSlots : platform[slot] = None
               PROVE  platform = Secure
    BY DEF SecureApplyRestores, Secure
  <2>1. \A slot \in run[r].wrote : platform[slot] = Secure[slot]
    BY DEF AloneInv
  <2>2. {slot \in Slot : Secure[slot] # None} \subseteq run[r].wrote
    <3>1. Declared(Scenarios["secure-apply"]) \subseteq run[r].wrote
      <4>1. Faithful(run[r])
        BY SecureApply DEF ReportInv
      <4>2. Declared(Scenarios[run[r].job]) \subseteq run[r].wrote
        BY <4>1, Zenon DEF Faithful
      <4> QED BY <4>2
    <3>2. \A slot \in Slot : Secure[slot] # None => slot \in Declared(Scenarios["secure-apply"])
      BY SecureApply, SecureIsEvaluated, Zenon DEF Declared, Configuration
    <3> QED BY <3>1, <3>2
  <2>3. ASSUME NEW slot \in Slot PROVE platform[slot] = Secure[slot]
    BY <2>1, <2>2 DEF Known
  <2>4. Secure \in [Slot -> Resource \cup {None}] /\ platform \in [Slot -> Resource \cup {None}]
    <3>1. PlanOf[Scenarios["secure-apply"].var] \in Graph
      BY SecureApply, DesiredAssumption
    <3>2. PlanOf["secure.tfvars"] \in Graph
      BY <3>1, SecureApply
    <3> QED BY <3>2 DEF Secure, Graph, DriftInv, IsState
  <2> QED BY <2>3, <2>4
<1> QED BY <1>1, PipelinesHold, PTL
-----------------------------------------------------------------------------
(* Configurations mixed with each other.                                   *)

\* What the slot has is what some acceptable configuration has there.
Accepted(slot, value) == value = None \/ \E id \in Acceptable : value = Configuration(id).st[slot]

Clean(slot) == Accepted(slot, platform[slot])

LEMMA AcceptableFacts ==
  ASSUME NEW id \in Acceptable
  PROVE  /\ Configuration(id) \in Graph
         /\ AllowlistOf[Scenarios[id].allowlist] \in SUBSET Entry
         /\ Admits(Configuration(id), AllowlistOf[Scenarios[id].allowlist])
         /\ AllowlistOf[Scenarios[id].allowlist] \subseteq Named
<1>1. /\ id \in ScenarioId /\ Scenarios[id].artifact = Base.artifact
      /\ Admits(Configuration(id), AllowlistOf[Scenarios[id].allowlist])
  BY Zenon DEF Acceptable, Base
<1>2. Configuration(id) \in Graph
  BY <1>1, DesiredAssumption, Zenon DEF Configuration, Evaluated, Base
<1>3. AllowlistOf[Scenarios[id].allowlist] \in SUBSET Entry
  BY <1>1, DesiredAssumption, Zenon
<1>4. AllowlistOf[Scenarios[id].allowlist] \subseteq Named
  BY <1>1, Zenon DEF Named
<1> QED BY <1>1, <1>2, <1>3, <1>4

\* A grant of a mixture is a grant of a configuration the gate admitted, whatever
\* the other resources are.
LEMMA MixedReads ==
  ASSUME \A slot \in Slot : Clean(slot) PROVE ReadsNamed(platform, Named)
<1> SUFFICES ASSUME NEW caller \in Caller, NEW o \in ObjectId,
                    o.bucket \in ListedBuckets(platform), ReadAllowed(platform, caller, o)
             PROVE  \E e \in Entries(Named) :
                      /\ e.kind = "bucket" /\ e.name = o.bucket
                      /\ {caller.principal, Anonymous} \cap e.principals # {}
                      /\ caller.addr \in Addresses(e.sources)
  BY DEF ReadsNamed
<1> DEFINE principals == {caller.principal, Anonymous}
           addr == caller.addr
           b == o.bucket
<1>1. PICK g \in GrantsOn(platform, BucketTarget(b), "read") :
         /\ principals \cap platform[GrantSlot(g)].principals # {}
         /\ addr \in Addresses(platform[GrantSlot(g)].source_ranges)
  BY DEF ReadAllowed
<1> HIDE DEF principals, addr
<1>2. /\ g \in GrantId /\ platform[GrantSlot(g)] # None
      /\ platform[GrantSlot(g)].target = BucketTarget(b) /\ "read" \in platform[GrantSlot(g)].actions
  BY DEF GrantsOn
<1>3. PICK id \in Acceptable : platform[GrantSlot(g)] = Configuration(id).st[GrantSlot(g)]
  BY <1>2, SlotKinds DEF Clean, Accepted
<1> DEFINE st == Configuration(id).st
<1>4. g \in GrantsOn(st, BucketTarget(b), "read")
  BY <1>2, <1>3 DEF GrantsOn
<1>5. b \in BucketName
  BY DEF ListedBuckets
<1>6. b \in ListedBuckets(st) /\ g \in BucketGrants(st, b)
  BY <1>4, <1>5, WholeAssumption DEF BucketGrants
<1> DEFINE entries == AllowlistOf[Scenarios[id].allowlist]
<1>7. /\ Configuration(id) \in Graph /\ entries \in Allowlist /\ Admits(Configuration(id), entries)
      /\ Entries(entries) \subseteq Entries(Named)
  BY AcceptableFacts, NamedAssumption DEF Allowlist, Entries
<1>8. PICK e \in Entries(entries) :
        /\ e.kind = "bucket" /\ e.name = b
        /\ st[GrantSlot(g)].principals \subseteq e.principals
        /\ addr \in Addresses(e.sources)
  <2>1. addr \in Addresses(st[GrantSlot(g)].source_ranges)
    BY <1>1, <1>3
  <2> HIDE DEF entries
  <2> QED BY <1>6, <1>7, <2>1, GrantIsNamed
<1> QED BY <1>1, <1>3, <1>7, <1>8 DEF principals, addr

\* A rule of a mixture meets the bind address its own configuration gives the port.
LEMMA MixedConnects ==
  ASSUME \A slot \in Slot : Clean(slot) PROVE ConnectsNamed(platform, Named)
<1> SUFFICES ASSUME NEW caller \in Caller, NEW w \in WorkloadName, NEW p \in PortName,
                    ConnectAllowed(platform, caller, w, p)
             PROVE  \E e \in Entries(Named) :
                      /\ e.kind = "workload_port" /\ e.name = <<w, p>>
                      /\ caller.addr \in Addresses(e.sources)
  BY DEF ConnectsNamed
<1> DEFINE addr == caller.addr
           served == platform[WorkloadSlot(w)]
<1>1. PICK n \in RulesOn(platform, w, p) : addr \in Addresses(platform[RuleSlot(n)].source_ranges)
  BY DEF ConnectAllowed, EffectiveIngress
<1>2. /\ served # None /\ served.binds[p] # None /\ served.binds[p] # Unparsable
      /\ addr \in BindReach(served.binds[p])
  BY DEF ConnectAllowed, EffectiveIngress, IngressComputable
<1> HIDE DEF addr
<1>3. /\ n \in RuleId /\ platform[RuleSlot(n)] # None
      /\ platform[RuleSlot(n)].workload = w /\ platform[RuleSlot(n)].port = p
  BY DEF RulesOn
<1>4. PICK id \in Acceptable : platform[RuleSlot(n)] = Configuration(id).st[RuleSlot(n)]
  BY <1>3, SlotKinds DEF Clean, Accepted
<1>5. PICK other \in Acceptable : served = Configuration(other).st[WorkloadSlot(w)]
  BY <1>2, SlotKinds DEF Clean, Accepted
<1> DEFINE st == Configuration(id).st
<1>6. n \in RulesOn(st, w, p)
  BY <1>3, <1>4 DEF RulesOn
<1>7. Listed(st, WorkloadSlot(w))
  BY <1>6, WholeAssumption
<1>8. st[WorkloadSlot(w)] = served
  BY <1>2, <1>5, <1>7, BindAssumption DEF Listed
<1>9. <<w, p>> \in ListedPorts(st)
  BY <1>2, <1>7, <1>8 DEF ListedPorts
<1> DEFINE entries == AllowlistOf[Scenarios[id].allowlist]
<1>10. /\ Configuration(id) \in Graph /\ entries \in Allowlist /\ Admits(Configuration(id), entries)
       /\ Entries(entries) \subseteq Entries(Named)
  BY AcceptableFacts, NamedAssumption DEF Allowlist, Entries
<1>11. \E e \in Entries(entries) :
         /\ e.kind = "workload_port" /\ e.name = <<w, p>>
         /\ addr \in Addresses(e.sources)
  <2>1. /\ addr \in Addresses(st[RuleSlot(n)].source_ranges)
        /\ addr \in BindReach(st[WorkloadSlot(w)].binds[p])
        /\ st[WorkloadSlot(w)].binds[p] # Unparsable
    BY <1>1, <1>2, <1>4, <1>8
  <2> HIDE DEF entries
  <2> QED BY <1>6, <1>9, <1>10, <2>1, RuleIsNamed
<1> QED BY <1>10, <1>11 DEF addr
\* No run of a scenario that is meant to leave an exposure is under way.
Calm == \A r \in Run : Busy(r) => run[r].job \notin Exposing

\* A scenario that is not meant to leave an exposure makes no drift, and applies
\* only what the gate admitted.
LEMMA ExposingFacts ==
  \A id \in ScenarioId \ Exposing :
    ~Scenarios[id].drift /\ (Reviewed(Scenarios[id]) \/ ~Applicable(Scenarios[id]))
<1> SUFFICES ASSUME NEW id \in ScenarioId, Scenarios[id].reconciliation # "FAIL"
             PROVE  ~Scenarios[id].drift /\ (Reviewed(Scenarios[id]) \/ ~Applicable(Scenarios[id]))
  BY DEF Exposing
<1>1. CASE id = "offline-init"
  <2>1. /\ ~Scenarios[id].drift /\ Scenarios[id].skipApply /\ ~Scenarios[id].outOfBand
        /\ Scenarios[id].manifest = Base.manifest
    BY <1>1 DEF Scenarios, Base
  <2>2. Scenarios[id].manifest = ""
    BY <2>1, Zenon DEF Base
  <2> QED BY <2>1, <2>2, Zenon DEF Applicable
<1>2. CASE id \in {"secure-apply", "reviewed-exposure", "routine-change", "manifest-intended"}
  BY <1>2 DEF ScenarioId, Scenarios, Gated, Base, Reviewed
<1>3. CASE id \in {"refuse-anonymous-export", "refuse-unrestricted-admin", "fail-closed-unparsable",
                   "fail-closed-unknown-type", "fail-closed-unrecognized-field"}
  BY <1>3 DEF ScenarioId, Scenarios, Evaluating, Refused, Gated, Base, Reviewed
<1>4. CASE id \in {"fail-closed-engine-error", "binding-unapproved-plan", "binding-modified-plan",
                   "binding-stale-approval", "reviewed-exposure-unapproved", "vulnerable-gated",
                   "manifest-exposed"}
  BY <1>4 DEF ScenarioId, Scenarios, Refused, Gated, Base, Reviewed
<1>5. CASE id \in {"vulnerable-ungated", "half-fix-source-scan", "half-fix-report-only",
                   "manifest-exposed-ungated", "half-fix-denylist", "half-fix-review-path-only",
                   "half-fix-drift"}
  BY <1>5 DEF ScenarioId, Scenarios, Vulnerable, Base
<1> QED BY <1>1, <1>2, <1>3, <1>4, <1>5, Zenon DEF ScenarioId

\* Nothing that is put or removed then is more than an acceptable configuration
\* has there.
LEMMA CleanMoves ==
  ASSUME RunInv, DriftInv, CoherentInv, Calm,
         NEW r \in Run, NEW u, Moves(run[r], u)
  PROVE  /\ \A slot \in Slot : Clean(slot) => Accepted(slot, platform'[slot])
         /\ \A slot \in Slot : Puts(run[r], u, slot) => Accepted(slot, platform'[slot])
<1>1. IsState(platform) /\ Coherent(run[r])
  BY DEF DriftInv, CoherentInv
<1>2. ASSUME NEW slot, Puts(run[r], u, slot)
      PROVE  /\ \A other \in Slot : Clean(other) => Accepted(other, platform'[other])
             /\ slot \in Slot => Accepted(slot, platform'[slot])
  <2> DEFINE job == run[r].job
             s == Scenarios[job]
  <2>1. /\ job \in ScenarioId \ Exposing /\ Busy(r) /\ run[r].pc = "apply"
        /\ platform' = [platform EXCEPT ![slot] = Configuration(job).st[slot]]
    BY <1>2 DEF Puts, Calm, Busy
  <2>2. Applicable(s)
    BY <1>1, <2>1 DEF Coherent
  <2>3. Reviewed(s)
    BY <2>1, <2>2, ExposingFacts
  <2>4. Admitted(run[r])
    BY <2>1, <2>3 DEF RunInv, Good, Sanctioned
  <2>5. job \in Acceptable
    BY <2>1, <2>2, <2>4, Zenon DEF Acceptable, Applicable, Admitted, Configuration
  <2>6. Accepted(slot, Configuration(job).st[slot])
    BY <2>5 DEF Accepted
  <2> DEFINE value == Configuration(job).st[slot]
  <2>7. \A other \in Slot : platform'[other] = IF other = slot THEN value ELSE platform[other]
    <3>1. platform' = [platform EXCEPT ![slot] = value]
      BY <2>1
    <3> HIDE DEF value
    <3> QED BY <1>1, <3>1, PlatformPut
  <2> HIDE DEF value
  <2> QED BY <2>6, <2>7 DEF Clean, value
<1>3. CASE Mutates(run[r], u)
  <2>1. Scenarios[run[r].job].drift /\ Busy(r) /\ run[r].pc = "mutate"
    BY <1>1, <1>3 DEF Mutates, Coherent, Busy
  <2>2. run[r].job \in ScenarioId \ Exposing
    BY <2>1 DEF RunInv, CommandStep, Calm
  <2> QED BY <2>1, <2>2, ExposingFacts
<1>4. ASSUME NEW gone, Removes(run[r], u, gone)
      PROVE  /\ \A slot \in Slot : Clean(slot) => Accepted(slot, platform'[slot])
             /\ \A slot \in Slot : ~Puts(run[r], u, slot)
  <2>1. \A slot \in Slot : platform'[slot] = IF slot = gone THEN None ELSE platform[slot]
    <3>1. platform' = [platform EXCEPT ![gone] = None]
      BY <1>4 DEF Removes
    <3> QED BY <1>1, <3>1, PlatformPut
  <2>2. \A slot \in Slot : ~Puts(run[r], u, slot)
    BY <1>4 DEF Removes, Puts
  <2> QED BY <2>1, <2>2 DEF Clean, Accepted
<1>5. \A slot \in Slot : Puts(run[r], u, slot) => Accepted(slot, platform'[slot])
  BY <1>2
<1>6. \A slot \in Slot : Clean(slot) => Accepted(slot, platform'[slot])
  BY <1>2, <1>3, <1>4 DEF Moves, Opens, GoesOn, Ends, Clean
<1> QED BY <1>5, <1>6

-----------------------------------------------------------------------------
(* The posture of the platform.                                            *)

\* Until something is opened, no run of a scenario that is meant to is under way.
Guarded == posture # "opened" => Calm

\* What is put meanwhile is accepted: what was removed, and what a secure apply
\* has put, stays so.
RemovingInv ==
  posture = "removing" =>
    \A r \in Run : run[r].pc = "remove" => \A slot \in UndeclaredSlots \ run[r].todo : Clean(slot)

RemovedInv == posture = "removed" => \A slot \in UndeclaredSlots : Clean(slot)

RestoringInv ==
  posture \in {"removing", "removed"} =>
    \A r \in Run : Busy(r) /\ run[r].job = "secure-apply" =>
      \A slot \in Slot \cap run[r].wrote : Clean(slot)

ReviewedInv == posture = "reviewed" => \A slot \in Slot : Clean(slot)

PostureInv ==
  /\ posture \in {"reviewed", "opened", "removing", "removed"}
  /\ Guarded /\ RemovingInv /\ RemovedInv /\ RestoringInv /\ ReviewedInv

\* A secure apply declares every resource of the secure configuration.
LEMMA SecureDeclared ==
  \A slot \in Slot : Secure[slot] # None => slot \in Declared(Scenarios["secure-apply"])
BY SecureApply, SecureIsEvaluated, Zenon DEF Declared, Configuration

\* Where the run r takes a step: only its own transcript changes, and a job is
\* begun only where none was under way.
LEMMA StepActors ==
  ASSUME RunInv, NEW r \in Run, NEW u, Becomes(r, u), Moves(run[r], u)
  PROVE  /\ run'[r] = u /\ \A q \in Run \ {r} : run'[q] = run[q]
         /\ Busy(r) => u.job = run[r].job /\ ~Opens(run[r], u)
         /\ ~Busy(r) => Opens(run[r], u)
         /\ \A q \in Run : \A job : Begins(q, job) => q = r /\ u.job = job /\ ~Busy(r)
         /\ \A q \in Run : \A job : Completes(q, job) =>
              q = r /\ Busy(r) /\ run[r].job = job /\ u.pc = "end" /\ u.passed
<1>1. run'[r] = u /\ \A q \in Run \ {r} : run'[q] = run[q]
  BY OthersStay
<1>2. Busy(r) => u.job = run[r].job /\ ~Opens(run[r], u)
  BY DEF Busy, Moves, Opens, GoesOn, Ends, Puts, Mutates, Removes, Resting
<1>3. ~Busy(r) => Opens(run[r], u)
  BY DEF Busy, Moves, GoesOn, Ends, Puts, Mutates, Removes, Resting
<1>4. ASSUME NEW q \in Run, NEW job, Begins(q, job) PROVE q = r /\ u.job = job /\ ~Busy(r)
  <2>1. ~Busy(q) /\ Busy(q)' /\ run'[q].job = job
    BY <1>4 DEF Begins
  <2> QED BY <1>1, <2>1 DEF Busy
<1>5. ASSUME NEW q \in Run, NEW job, Completes(q, job)
      PROVE  q = r /\ Busy(r) /\ run[r].job = job /\ u.pc = "end" /\ u.passed
  <2>1. Busy(q) /\ run[q].job = job /\ run'[q].pc = "end" /\ run'[q].passed
    BY <1>5 DEF Completes
  <2> QED BY <1>1, <2>1 DEF Busy
<1> QED BY <1>1, <1>2, <1>3, <1>4, <1>5

\* A removal that nothing runs beside begins: the platform is on its way back.
LEMMA ReturnStep ==
  ASSUME RunInv, DriftInv, PostureInv, NEW r \in Run, NEW u, Becomes(r, u), Moves(run[r], u),
         posture' = PostureAfter, posture = "opened", posture' # "opened"
  PROVE  PostureInv'
<1>1. /\ posture' = "removing"
      /\ \E q \in Run : Begins(q, "remove-undeclared") /\ \A other \in Run \ {q} : ~Busy(other)
  BY DEF PostureAfter
<1>2. /\ run'[r] = u /\ \A q \in Run \ {r} : run'[q] = run[q] /\ ~Busy(q)
      /\ u.job = "remove-undeclared" /\ Opens(run[r], u)
  BY <1>1, StepActors
<1>3. \A q \in Run \ {r} : ~Busy(q)'
  BY <1>2 DEF Busy
<1>4. "remove-undeclared" \notin Exposing /\ "remove-undeclared" \notin ScenarioId
  BY Commands DEF Exposing
<1>5. Guarded'
  BY <1>2, <1>3, <1>4 DEF Guarded, Calm
<1>6. RemovingInv'
  <2>1. platform' = platform /\ u.todo = {slot \in UndeclaredSlots : platform[slot] # None}
    BY <1>2, <1>4 DEF Opens
  <2>2. \A slot \in UndeclaredSlots \ u.todo : Accepted(slot, platform'[slot])
    BY <2>1 DEF Accepted
  <2>3. \A q \in Run : run'[q].pc = "remove" => q = r
    BY <1>3 DEF Busy
  <2> QED BY <1>2, <2>2, <2>3 DEF RemovingInv, Clean, Accepted
<1>7. RestoringInv'
  <2>1. \A q \in Run : Busy(q)' => q = r
    BY <1>3
  <2> QED BY <1>2, <2>1 DEF RestoringInv
<1>8. RemovedInv' /\ ReviewedInv'
  BY <1>1 DEF RemovedInv, ReviewedInv
<1> QED BY <1>1, <1>5, <1>6, <1>7, <1>8 DEF PostureInv

\* Any other step while nothing is opened.
LEMMA GuardedStep ==
  ASSUME RunInv, DriftInv, TypeInv, ReportInv', CoherentInv, Known, PostureInv,
         NEW r \in Run, NEW u, Becomes(r, u), Moves(run[r], u),
         posture' = PostureAfter, posture # "opened", posture' # "opened"
  PROVE  PostureInv'
<1>1. /\ run'[r] = u /\ \A q \in Run \ {r} : run'[q] = run[q]
      /\ Busy(r) => u.job = run[r].job /\ ~Opens(run[r], u)
      /\ ~Busy(r) => Opens(run[r], u)
  BY StepActors
<1>2. Coherent(run[r]) /\ (Busy(r) => ~run[r].passed)
  BY DEF CoherentInv, Coherent, Busy, Resting
<1>3. /\ \A slot \in Slot : Clean(slot) => Accepted(slot, platform'[slot])
      /\ \A slot \in Slot : Puts(run[r], u, slot) => Accepted(slot, platform'[slot])
  BY CleanMoves DEF PostureInv, Guarded
<1>4. Guarded'
  <2>1. \A job \in Exposing : ~Begins(r, job)
    BY DEF PostureAfter
  <2>2. ASSUME NEW q \in Run, Busy(q)', run'[q].job \in Exposing PROVE FALSE
    <3>1. CASE Busy(q)
      BY <1>1, <2>2, <3>1 DEF PostureInv, Guarded, Calm
    <3>2. CASE ~Busy(q)
      <4>1. q = r
        BY <1>1, <2>2, <3>2 DEF Busy
      <4> QED BY <2>1, <2>2, <3>2, <4>1 DEF Begins
    <3> QED BY <3>1, <3>2
  <2> QED BY <2>2 DEF Guarded, Calm
<1>5. UndeclaredSlots \subseteq Slot
  BY GrantAssumption, SlotKinds DEF UndeclaredSlots, UndeclaredGrants
<1>6. RemovingInv'
  <2> SUFFICES ASSUME posture' = "removing", NEW q \in Run, run'[q].pc = "remove",
                      NEW slot \in UndeclaredSlots \ run'[q].todo
               PROVE  Accepted(slot, platform'[slot])
    BY DEF RemovingInv, Clean, Accepted
  <2>1. posture = "removing"
    BY DEF PostureAfter, PostureInv
  <2>2. CASE q # r
    <3>1. Clean(slot)
      BY <1>1, <2>1, <2>2 DEF PostureInv, RemovingInv
    <3> QED BY <1>3, <1>5, <3>1
  <2>3. CASE q = r /\ Opens(run[r], u)
    <3>1. u.todo = {other \in UndeclaredSlots : platform[other] # None} /\ platform' = platform
      BY <1>1, <2>3 DEF Opens
    <3> QED BY <1>1, <2>3, <3>1 DEF Accepted
  <2>4. ASSUME q = r, NEW gone, Removes(run[r], u, gone) PROVE Accepted(slot, platform'[slot])
    <3>1. /\ run[r].pc = "remove" /\ u.todo = run[r].todo \ {gone}
          /\ platform' = [platform EXCEPT ![gone] = None]
      BY <1>1, <2>4 DEF Removes
    <3>2. CASE slot = gone
      <4>1. platform'[slot] = None
        BY <1>5, <3>1, <3>2 DEF DriftInv, IsState
      <4> QED BY <4>1 DEF Accepted
    <3>3. CASE slot # gone
      <4>1. Clean(slot)
        BY <1>1, <2>1, <2>4, <3>1, <3>3 DEF PostureInv, RemovingInv
      <4> QED BY <1>3, <1>5, <4>1
    <3> QED BY <3>2, <3>3
  <2> QED BY <1>1, <2>2, <2>3, <2>4 DEF Moves, GoesOn, Ends, Puts, Mutates
<1>7. RemovedInv'
  <2> SUFFICES ASSUME posture' = "removed", NEW slot \in UndeclaredSlots
               PROVE  Accepted(slot, platform'[slot])
    BY DEF RemovedInv, Clean, Accepted
  <2>1. CASE posture = "removed"
    BY <1>3, <1>5, <2>1 DEF PostureInv, RemovedInv
  <2>2. CASE posture # "removed"
    <3>1. posture = "removing" /\ \E q \in Run : Completes(q, "remove-undeclared")
      BY <2>2 DEF PostureAfter
    <3>2. Busy(r) /\ run[r].job = "remove-undeclared" /\ u.pc = "end" /\ u.passed
      BY <3>1, StepActors
    <3>3. run[r].pc = "remove"
      BY <1>2, <3>2 DEF Coherent, Busy, Resting
    <3>4. run[r].todo = {}
      BY <1>1, <1>2, <3>2, <3>3 DEF Moves, GoesOn, Ends, Puts, Mutates, Removes
    <3>5. Clean(slot)
      BY <3>1, <3>3, <3>4 DEF PostureInv, RemovingInv
    <3> QED BY <1>3, <1>5, <3>5
  <2> QED BY <2>1, <2>2
<1>8. RestoringInv'
  <2> SUFFICES ASSUME posture' \in {"removing", "removed"}, NEW q \in Run, Busy(q)',
                      run'[q].job = "secure-apply", NEW slot \in Slot \cap run'[q].wrote
               PROVE  Accepted(slot, platform'[slot])
    BY DEF RestoringInv, Clean, Accepted
  <2>1. posture \in {"removing", "removed"}
    BY DEF PostureAfter, PostureInv
  <2>2. ASSUME Busy(q), run[q].job = "secure-apply", slot \in run[q].wrote
        PROVE  Accepted(slot, platform'[slot])
    BY <1>3, <2>1, <2>2 DEF PostureInv, RestoringInv
  <2>3. CASE q # r
    BY <1>1, <2>2, <2>3 DEF Busy
  <2>4. CASE q = r /\ Opens(run[r], u)
    BY <1>1, <2>4 DEF Opens
  <2>5. CASE q = r /\ GoesOn(run[r], u)
    <3>1. Busy(q) /\ u.job = run[q].job /\ u.wrote = run[q].wrote
      BY <2>5 DEF GoesOn, Busy, Resting
    <3> QED BY <1>1, <2>2, <2>5, <3>1
  <2>6. ASSUME q = r, NEW put, Puts(run[r], u, put) PROVE Accepted(slot, platform'[slot])
    <3>1. u.wrote = run[r].wrote \cup {put} /\ Busy(r) /\ run[r].job = "secure-apply"
      BY <1>1, <2>6 DEF Puts, Busy
    <3> QED BY <1>1, <1>3, <2>2, <2>6, <3>1
  <2>7. CASE q = r /\ Mutates(run[r], u)
    BY <1>1, <1>2, <2>7, SecureApply DEF Mutates, Coherent
  <2>8. ASSUME q = r, Ends(run[r], u) \/ \E gone : Removes(run[r], u, gone) PROVE FALSE
    BY <1>1, <1>2, <2>8 DEF Ends, Removes, Coherent
  <2> QED BY <2>3, <2>4, <2>5, <2>6, <2>7, <2>8 DEF Moves
<1>9. ReviewedInv'
  <2> SUFFICES ASSUME posture' = "reviewed", NEW slot \in Slot PROVE Accepted(slot, platform'[slot])
    BY DEF ReviewedInv, Clean, Accepted
  <2>1. CASE posture = "reviewed"
    BY <1>3, <2>1 DEF PostureInv, ReviewedInv
  <2>2. CASE posture # "reviewed"
    <3>1. posture = "removed" /\ \E q \in Run : Completes(q, "secure-apply")
      BY <2>2 DEF PostureAfter
    <3>2. Busy(r) /\ run[r].job = "secure-apply" /\ u.pc = "end" /\ u.passed
      BY <3>1, StepActors
    <3>3. run[r].pc # "remove"
      BY <1>2, <3>2 DEF Coherent
    <3>4. GoesOn(run[r], u)
      BY <1>1, <3>2, <3>3 DEF Moves, Ends, Puts, Mutates, Removes
    <3>5. u.job = "secure-apply" /\ u.wrote = run[r].wrote /\ u.result = "DEPLOYED"
      BY <1>2, <3>2, <3>4 DEF GoesOn
    <3>6. Faithful(u)
      <4>1. run'[r].job \in ScenarioId => Faithful(run[r])'
        BY DEF ReportInv
      <4>2. Faithful(run'[r])
        BY <1>1, <3>5, <4>1, SecureApply, Zenon DEF Faithful, Unaudited, AuditedOnce, Pending, Untouched, Settled
      <4> QED BY <1>1, <4>2
    <3>7. Declared(Scenarios["secure-apply"]) \subseteq run[r].wrote
      BY <3>5, <3>6, SecureApply DEF Faithful
    <3>8. Clean(slot)
      <4>1. CASE slot \in UndeclaredSlots \/ platform[slot] = None
        BY <3>1, <4>1 DEF PostureInv, RemovedInv, Clean, Accepted
      <4>2. CASE slot \notin UndeclaredSlots /\ platform[slot] # None
        <5>1. slot \in run[r].wrote
          BY <3>7, <4>2, SecureDeclared DEF Known
        <5> QED BY <3>1, <3>2, <5>1 DEF PostureInv, RestoringInv
      <4> QED BY <4>1, <4>2
    <3> QED BY <1>3, <3>8
  <2> QED BY <2>1, <2>2
<1>10. posture' \in {"reviewed", "opened", "removing", "removed"}
  BY DEF PostureAfter, PostureInv
<1> QED BY <1>4, <1>6, <1>7, <1>8, <1>9, <1>10 DEF PostureInv

LEMMA PostureStep ==
  ASSUME RunInv, DriftInv, TypeInv, ReportInv, CoherentInv, Known, PostureInv,
         [PostureNext]_<<vars, posture>>
  PROVE  PostureInv'
<1>1. CASE UNCHANGED <<vars, posture>>
  BY <1>1 DEF PostureInv, Guarded, Calm, RemovingInv, RemovedInv, RestoringInv, ReviewedInv, Clean, Accepted,
              Busy, vars
<1>2. ASSUME Next, posture' = PostureAfter PROVE PostureInv'
  <2>1. PICK r \in Run : Step(r)
    BY <1>2 DEF Next
  <2>2. PICK u : Becomes(r, u) /\ Moves(run[r], u)
    BY <2>1, StepMoves DEF Moved
  <2>3. ReportInv'
    BY <1>2, ReportNext
  <2>4. CASE posture' = "opened"
    BY <2>4 DEF PostureInv, Guarded, Calm, RemovingInv, RemovedInv, RestoringInv, ReviewedInv
  <2>5. CASE posture' # "opened" /\ posture = "opened"
    BY <1>2, <2>2, <2>5, ReturnStep
  <2>6. CASE posture' # "opened" /\ posture # "opened"
    BY <1>2, <2>2, <2>3, <2>6, GuardedStep
  <2> QED BY <2>4, <2>5, <2>6
<1> QED BY <1>1, <1>2 DEF PostureNext

LEMMA PostureStart == PostureInit => PostureInv
BY DEF PostureInit, Init, PostureInv, Guarded, Calm, RemovingInv, RemovedInv, RestoringInv, ReviewedInv,
       Clean, Accepted, Busy, Fresh

\* Nothing is reachable that no reviewed allowlist names, for any number of
\* pipelines in any order and beside each other, from the start until a scenario
\* meant to expose something begins, and again once the platform was restored
\* (demo.sh restore, Transcript.Run): whatever was put half way, and however the
\* admitted configurations are mixed.
THEOREM ExposureTheorem == PostureSpec => []OnlyReviewedExposure
<1>1. PostureSpec => Spec
  <2>1. PostureInit => Init
    BY DEF PostureInit
  <2>2. [PostureNext]_<<vars, posture>> => [Next]_vars
    BY DEF PostureNext
  <2> QED BY <2>1, <2>2, PTL DEF PostureSpec, Spec
<1>2. PostureSpec => [](RunInv /\ DriftInv /\ TypeInv /\ ReportInv /\ CoherentInv /\ Known)
  BY <1>1, PipelinesHold, PTL
<1>3. PostureSpec => []PostureInv
  BY <1>2, PostureStart, PostureStep, PTL DEF PostureSpec
<1>4. PostureInv => OnlyReviewedExposure
  BY MixedReads, MixedConnects DEF PostureInv, ReviewedInv, OnlyReviewedExposure, ExposuresNamed
<1> QED BY <1>3, <1>4, PTL

-----------------------------------------------------------------------------
(* What a step of a script may be.                                         *)

Impact == "internet-vulnerable-impact"

Jobs == ScenarioId \cup {"drift", "remove-undeclared"} \cup Command
Files ==
  {"before", "after", "secure", "vulnerable", "denylist", "secure-observation", "vulnerable-observation",
   "iac-observation", "manifest-observation"}
Names ==
  {"internet-secure-baseline", "internet-vulnerable-reach", "state-matches-fixture",
   "internet-reviewed-exposure", "finance-corp-read", "ops-admin-read", "encryption-enabled",
   "ops-admin-change", "ledger-records-one-change", "vulnerable-ledger", "corp-legitimate-paths",
   "internet-drifted-export"}
Kinds == {"observations", "application", "exposure", "reachability", "builds", "table"}

\* A run outside the default container needs the misconfigured profile.
RunTask ==
  {step \in [op : {"run"}, job : Jobs, slot : Run, needs : {"checks", "vulnerable", None},
             observed : BOOLEAN, counted : BOOLEAN, file : Files \cup {None}] :
     step.slot = SecureRun \/ step.needs = "vulnerable"}
CheckTask == [op : {"check"}, name : Names \cup {Impact}]
ObserveTask == [op : {"observe"}, client : 1..2, file : Files]
CompareTask == [op : {"compare"}, kind : Kinds, files : Seq(Files)]

\* Any step that takes nothing down, and any that nobody outside changes something by.
Inner == [op : {"up", "up-vulnerable", "truncate"}] \cup RunTask \cup CheckTask \cup ObserveTask \cup CompareTask
Usual == {step \in Inner \cup {Down} : step.op = "check" => step.name # Impact}
Plain == Inner \cap Usual

LEMMA Slots == SecureRun \in Run /\ VulnerableRun \in Run
BY DemoAssumption

LEMMA RunTasks ==
  ASSUME NEW job \in Jobs
  PROVE  /\ Exec(job) \in RunTask /\ Scenario(job) \in RunTask /\ VulnerableScenario(job) \in RunTask
<1>1. Exec(job) \in RunTask
  BY Slots DEF Exec, RunTask
<1>2. Scenario(job) \in RunTask
  BY Slots DEF Exec, Scenario, RunTask
<1>3. VulnerableScenario(job) \in RunTask
  BY Slots DEF Exec, Scenario, VulnerableScenario, RunTask
<1> QED BY <1>1, <1>2, <1>3

LEMMA OtherTasks ==
  /\ Offline \in RunTask
  /\ \A step \in RunTask, file \in Files : Into(step, file) \in RunTask
  /\ \A step \in RunTask : [step EXCEPT !.counted = TRUE] \in RunTask
<1>1. Offline \in RunTask
  <2>1. Exec("offline-init") \in RunTask
    BY RunTasks DEF Jobs, ScenarioId
  <2>2. \A step \in RunTask : [step EXCEPT !.needs = None] \in RunTask \/ step.slot # SecureRun
    BY DEF RunTask
  <2>3. Exec("offline-init").slot = SecureRun
    BY DEF Exec
  <2> QED BY <2>1, <2>2, <2>3 DEF Offline
<1>2. \A step \in RunTask, file \in Files : Into(step, file) \in RunTask
  BY DEF Into, RunTask
<1>3. \A step \in RunTask : [step EXCEPT !.counted = TRUE] \in RunTask
  BY DEF RunTask
<1> QED BY <1>1, <1>2, <1>3

\* None of them is a check of the impact or takes the deployment down.
LEMMA Tasks ==
  /\ RunTask \subseteq Plain
  /\ Up \in Plain /\ UpVulnerable \in Plain /\ Truncate \in Plain /\ Down \in Usual
  /\ \A name \in Names : Check(name) \in Plain
  /\ \A i \in 1..2, file \in Files : Observe(i, file) \in Plain
  /\ \A kind \in Kinds, files \in Seq(Files) : Compare(kind, files) \in Plain
  /\ Baseline \in Plain /\ Reach \in Plain
<1>1. RunTask \subseteq Plain
  BY DEF RunTask, Plain, Inner, Usual
<1>2. Up \in Plain /\ UpVulnerable \in Plain /\ Truncate \in Plain /\ Down \in Usual
  BY DEF Up, UpVulnerable, Truncate, Down, Plain, Inner, Usual
<1>3. \A name \in Names : Check(name) \in Plain
  BY DEF Check, CheckTask, Names, Impact, Plain, Inner, Usual
<1>4. \A i \in 1..2, file \in Files : Observe(i, file) \in Plain
  BY DEF Observe, ObserveTask, Plain, Inner, Usual
<1>5. \A kind \in Kinds, files \in Seq(Files) : Compare(kind, files) \in Plain
  BY DEF Compare, CompareTask, Plain, Inner, Usual
<1>6. Baseline \in Plain /\ Reach \in Plain
  <2>1. "internet-secure-baseline" \in Names /\ "internet-vulnerable-reach" \in Names
    BY DEF Names
  <2> QED BY <1>3, <2>1 DEF Baseline, Reach
<1> QED BY <1>1, <1>2, <1>3, <1>4, <1>5, <1>6

\* Scripts put together of sequences of steps.
LEMMA Joined ==
  ASSUME NEW S, NEW s \in Seq(S), NEW t \in Seq(S)
  PROVE  s \o t \in Seq(S) /\ Len(s \o t) = Len(s) + Len(t)
BY ConcatProperties

LEMMA Parts ==
  ASSUME NEW S, NEW s \in Seq(S), NEW t \in Seq(S)
  PROVE  /\ Len(s) \in Nat /\ Len(t) \in Nat
         /\ \A i \in 1..Len(s) : (s \o t)[i] = s[i]
         /\ \A i \in 1..Len(t) : (s \o t)[Len(s) + i] = t[i]
<1>1. Len(s) \in Nat /\ Len(t) \in Nat
  OBVIOUS
<1>2. \A i \in 1..(Len(s) + Len(t)) : (s \o t)[i] = IF i <= Len(s) THEN s[i] ELSE t[i - Len(s)]
  BY ConcatProperties
<1>3. ASSUME NEW i \in 1..Len(t) PROVE (s \o t)[Len(s) + i] = t[i]
  <2>1. Len(s) + i \in 1..(Len(s) + Len(t)) /\ ~(Len(s) + i <= Len(s)) /\ Len(s) + i - Len(s) = i
    BY <1>1
  <2> QED BY <1>2, <2>1
<1> QED BY <1>1, <1>2, <1>3

LEMMA Wider ==
  ASSUME NEW S, NEW T, S \subseteq T, NEW s \in Seq(S)
  PROVE  s \in Seq(T)
OBVIOUS

LEMMA Scenes ==
  ASSUME NEW jobs \in Seq(Jobs)
  PROVE  Each(jobs) \in Seq(RunTask)
<1>1. \A i \in DOMAIN jobs : Scenario(jobs[i]) \in RunTask
  <2> SUFFICES ASSUME NEW i \in DOMAIN jobs PROVE Scenario(jobs[i]) \in RunTask
    OBVIOUS
  <2>1. jobs[i] \in Jobs
    OBVIOUS
  <2> QED BY <2>1, RunTasks
<1> QED BY <1>1 DEF Each

-----------------------------------------------------------------------------
(* The scripts.                                                            *)

LEMMA Scripts ==
  /\ Refusals \in Seq(RunTask) /\ ManifestSurface \in Seq(Plain)
  /\ Legitimate \in Seq(Plain) /\ Checks \in Seq(Plain)
  /\ Restore \in Seq(Plain) /\ QuietReset \in Seq(Plain)
  /\ \A job \in ScenarioId : Shape(job) \in Seq(Plain)
<1>1. Refusals \in Seq(RunTask)
  <2> DEFINE jobs == <<
        "refuse-anonymous-export", "refuse-unrestricted-admin", "fail-closed-unparsable",
        "fail-closed-unknown-type", "fail-closed-unrecognized-field", "fail-closed-engine-error",
        "binding-unapproved-plan", "binding-modified-plan", "binding-stale-approval">>
  <2>1. jobs \in Seq(Jobs)
    BY DEF Jobs, ScenarioId
  <2> HIDE DEF jobs
  <2>2. Each(jobs) \in Seq(RunTask)
    BY <2>1, Scenes
  <2> QED BY <2>2 DEF Refusals, jobs
<1>2. ManifestSurface \in Seq(Plain)
  <2>1. Scenario("manifest-intended") \in RunTask /\ Check("state-matches-fixture") \in Plain
    BY RunTasks, Tasks DEF Jobs, ScenarioId, Names
  <2> QED BY <2>1, Tasks DEF ManifestSurface
<1>3. Legitimate \in Seq(Plain)
  <2>1. /\ Scenario("reviewed-exposure-unapproved") \in RunTask /\ Scenario("routine-change") \in RunTask
        /\ Scenario("reviewed-exposure") \in RunTask
    BY RunTasks DEF Jobs, ScenarioId
  <2>2. /\ Observe(1, "before") \in Plain /\ Observe(1, "after") \in Plain
        /\ Check("internet-reviewed-exposure") \in Plain
    BY Tasks DEF Files, Names
  <2>3. Compare("observations", <<"before", "after">>) \in Plain
    <3>1. <<"before", "after">> \in Seq(Files) /\ "observations" \in Kinds
      BY DEF Files, Kinds
    <3> QED BY <3>1, Tasks
  <2> QED BY <2>1, <2>2, <2>3, Tasks DEF Legitimate
<1>4. Checks \in Seq(Plain)
  <2>1. /\ Check("finance-corp-read") \in Plain /\ Check("ops-admin-read") \in Plain
        /\ Check("state-matches-fixture") \in Plain /\ Check("encryption-enabled") \in Plain
        /\ Check("ops-admin-change") \in Plain /\ Check("ledger-records-one-change") \in Plain
    BY Tasks DEF Names
  <2>2. Exec("drift") \in RunTask
    BY RunTasks DEF Jobs
  <2> QED BY <2>1, <2>2, Tasks DEF Checks
<1>5. Exec("remove-undeclared") \in RunTask /\ Scenario("secure-apply") \in RunTask
  BY RunTasks DEF Jobs, ScenarioId
<1>6. Restore \in Seq(Plain)
  <2>1. Into(Scenario("secure-apply"), "secure") \in RunTask
    BY <1>5, OtherTasks DEF Files
  <2> QED BY <1>5, <2>1, Tasks DEF Restore
<1>7. QuietReset \in Seq(Plain)
  BY <1>5, Tasks DEF QuietReset
<1>8. ASSUME NEW job \in ScenarioId PROVE Shape(job) \in Seq(Plain)
  <2>1. VulnerableScenario(job) \in RunTask
    BY RunTasks DEF Jobs
  <2>2. <<VulnerableScenario(job), Reach>> \in Seq(Plain)
    BY <2>1, Tasks
  <2> QED BY <1>6, <2>2, Joined DEF Shape
<1> QED BY <1>1, <1>2, <1>3, <1>4, <1>6, <1>7, <1>8

\* The demonstration itself: nothing is taken down in between.
LEMMA DemonstratedTasks == Demonstrated \in Seq(Inner)
<1>1. /\ Scenario("secure-apply") \in RunTask /\ VulnerableScenario("vulnerable-gated") \in RunTask
      /\ VulnerableScenario("vulnerable-ungated") \in RunTask
      /\ VulnerableScenario("half-fix-denylist") \in RunTask
      /\ VulnerableScenario("half-fix-drift") \in RunTask /\ VulnerableScenario("manifest-exposed") \in RunTask
      /\ VulnerableScenario("manifest-exposed-ungated") \in RunTask
      /\ Exec("remove-undeclared") \in RunTask /\ Exec("drift") \in RunTask
  BY RunTasks DEF Jobs, ScenarioId
<1>2. /\ Into(VulnerableScenario("vulnerable-ungated"), "vulnerable") \in RunTask
      /\ Into(VulnerableScenario("half-fix-denylist"), "denylist") \in RunTask
  BY <1>1, OtherTasks DEF Files
<1>3. /\ Check("vulnerable-ledger") \in Plain /\ Check("encryption-enabled") \in Plain
      /\ Check("corp-legitimate-paths") \in Plain /\ Check("internet-drifted-export") \in Plain
  BY Tasks DEF Names
<1>4. /\ Observe(2, "secure-observation") \in Plain /\ Observe(1, "iac-observation") \in Plain
      /\ Observe(2, "vulnerable-observation") \in Plain /\ Observe(1, "manifest-observation") \in Plain
  BY Tasks DEF Files
<1>5. /\ Compare("application", <<"secure-observation", "vulnerable-observation">>) \in Plain
      /\ Compare("exposure", <<"vulnerable", "denylist">>) \in Plain
      /\ Compare("reachability", <<"iac-observation", "manifest-observation">>) \in Plain
      /\ Compare("builds", <<"vulnerable", "secure">>) \in Plain
  <2>1. /\ <<"secure-observation", "vulnerable-observation">> \in Seq(Files)
        /\ <<"vulnerable", "denylist">> \in Seq(Files)
        /\ <<"iac-observation", "manifest-observation">> \in Seq(Files)
        /\ <<"vulnerable", "secure">> \in Seq(Files)
        /\ {"application", "exposure", "reachability", "builds"} \subseteq Kinds
    BY DEF Files, Kinds
  <2> QED BY <2>1, Tasks
<1>6. Check("internet-vulnerable-impact") \in Inner
  BY DEF Check, CheckTask, Impact, Inner
<1>7. Plain \subseteq Inner /\ RunTask \subseteq Inner /\ Baseline \in Inner /\ Reach \in Inner
  BY Tasks DEF Plain
<1> DEFINE impact == <<
      Scenario("secure-apply"), Baseline, Observe(2, "secure-observation"),
      VulnerableScenario("vulnerable-gated"), Baseline,
      Into(VulnerableScenario("vulnerable-ungated"), "vulnerable"),
      Observe(1, "iac-observation"), Observe(2, "vulnerable-observation"),
      Check("internet-vulnerable-impact"), Check("vulnerable-ledger"), Check("encryption-enabled"),
      Compare("application", <<"secure-observation", "vulnerable-observation">>),
      Check("corp-legitimate-paths")>>
<1> DEFINE denylist == <<Into(VulnerableScenario("half-fix-denylist"), "denylist"), Reach,
                  Compare("exposure", <<"vulnerable", "denylist">>)>>
<1> DEFINE drift == <<VulnerableScenario("half-fix-drift"), Check("internet-drifted-export"),
               Exec("remove-undeclared"), Exec("drift")>>
<1> DEFINE manifest == <<VulnerableScenario("manifest-exposed"), Baseline,
                  VulnerableScenario("manifest-exposed-ungated"), Reach, Observe(1, "manifest-observation"),
                  Compare("reachability", <<"iac-observation", "manifest-observation">>)>>
<1> DEFINE builds == <<Compare("builds", <<"vulnerable", "secure">>)>>
<1> DEFINE scan == Shape("half-fix-source-scan")
<1> DEFINE report == Shape("half-fix-report-only")
<1> DEFINE path == Shape("half-fix-review-path-only")
<1>8. impact \in Seq(Inner)
  BY <1>1, <1>2, <1>3, <1>4, <1>5, <1>6, <1>7
<1>9. denylist \in Seq(Inner) /\ drift \in Seq(Inner) /\ manifest \in Seq(Inner) /\ builds \in Seq(Inner)
  BY <1>1, <1>2, <1>3, <1>4, <1>5, <1>7
<1>10. scan \in Seq(Inner) /\ report \in Seq(Inner) /\ path \in Seq(Inner) /\ Restore \in Seq(Inner)
  <2>1. scan \in Seq(Plain) /\ report \in Seq(Plain) /\ path \in Seq(Plain) /\ Restore \in Seq(Plain)
    BY Scripts DEF ScenarioId
  <2> HIDE DEF scan, report, path
  <2> QED BY <1>7, <2>1, Wider
<1>11. Demonstrated = impact \o Restore \o scan \o report \o denylist \o Restore \o path \o drift
                        \o Restore \o manifest \o Restore \o builds
  BY DEF Demonstrated
<1> HIDE DEF impact, denylist, drift, manifest, builds, scan, report, path
<1>12. impact \o Restore \o scan \o report \o denylist \o Restore \in Seq(Inner)
  BY <1>8, <1>9, <1>10, Joined
<1> QED BY <1>9, <1>10, <1>11, <1>12, Joined

\* The rows of the table, and the resets in between.
LEMMA CountedTasks ==
  ASSUME NEW steps \in Seq(RunTask)
  PROVE  Counted(steps) \in Seq(Plain)
<1>1. ASSUME NEW i \in DOMAIN steps PROVE [steps[i] EXCEPT !.counted = TRUE] \in Plain
  <2>1. steps[i] \in RunTask
    OBVIOUS
  <2> QED BY <2>1, OtherTasks, Tasks
<1> QED BY <1>1 DEF Counted

LEMMA MeasuredTasks ==
  ASSUME NEW step \in RunTask
  PROVE  Measured(step) \in Seq(Plain)
<1>1. <<step>> \in Seq(RunTask)
  OBVIOUS
<1>2. Counted(<<step>>) \in Seq(Plain)
  BY <1>1, CountedTasks
<1> QED BY <1>2, Scripts, Joined DEF Measured

\* The comparison ends by taking everything down.
LEMMA ComparisonTasks ==
  \E front \in Seq(Plain \cup {Down}) : Comparison = front \o <<Compare("table", <<>>), Down>>
<1> DEFINE rows == Counted(<<Scenario("secure-apply")>> \o Refusals
                           \o Each(<<"reviewed-exposure-unapproved", "routine-change">>))
<1> DEFINE measured(job) == Measured(Scenario(job))
<1> DEFINE open(job) == Measured(VulnerableScenario(job))
<1>1. rows \in Seq(Plain)
  <2>1. <<Scenario("secure-apply")>> \in Seq(RunTask)
    BY RunTasks DEF Jobs, ScenarioId
  <2>2. Each(<<"reviewed-exposure-unapproved", "routine-change">>) \in Seq(RunTask)
    <3>1. <<"reviewed-exposure-unapproved", "routine-change">> \in Seq(Jobs)
      BY DEF Jobs, ScenarioId
    <3> QED BY <3>1, Scenes
  <2>3. <<Scenario("secure-apply")>> \o Refusals
          \o Each(<<"reviewed-exposure-unapproved", "routine-change">>) \in Seq(RunTask)
    BY <2>1, <2>2, Scripts, Joined
  <2> QED BY <2>3, CountedTasks
<1>2. \A job \in Jobs : measured(job) \in Seq(Plain) /\ open(job) \in Seq(Plain)
  BY RunTasks, MeasuredTasks
<1>3. ScenarioId \subseteq Jobs
  BY DEF Jobs
<1>4. <<Down, Up, UpVulnerable, Truncate>> \in Seq(Plain \cup {Down})
  BY Tasks
<1> DEFINE front ==
      <<Down, Up, UpVulnerable, Truncate>> \o rows
      \o measured("reviewed-exposure") \o measured("manifest-intended") \o open("vulnerable-gated")
      \o open("vulnerable-ungated") \o open("half-fix-source-scan") \o open("half-fix-report-only")
      \o open("half-fix-denylist") \o open("half-fix-review-path-only") \o open("manifest-exposed")
      \o open("manifest-exposed-ungated") \o open("half-fix-drift")
<1>5. Comparison = front \o <<Compare("table", <<>>), Down>>
  BY DEF Comparison
<1>6. \A job \in Jobs : measured(job) \in Seq(Plain \cup {Down}) /\ open(job) \in Seq(Plain \cup {Down})
  <2> HIDE DEF measured, open
  <2> QED BY <1>2, Wider
<1>7. rows \in Seq(Plain \cup {Down})
  <2> HIDE DEF rows
  <2> QED BY <1>1, Wider
<1>8. front \in Seq(Plain \cup {Down})
  <2> HIDE DEF rows, measured, open
  <2>1. /\ measured("reviewed-exposure") \in Seq(Plain \cup {Down})
        /\ measured("manifest-intended") \in Seq(Plain \cup {Down})
        /\ open("vulnerable-gated") \in Seq(Plain \cup {Down})
        /\ open("vulnerable-ungated") \in Seq(Plain \cup {Down})
        /\ open("half-fix-source-scan") \in Seq(Plain \cup {Down})
        /\ open("half-fix-report-only") \in Seq(Plain \cup {Down})
        /\ open("half-fix-denylist") \in Seq(Plain \cup {Down})
        /\ open("half-fix-review-path-only") \in Seq(Plain \cup {Down})
        /\ open("manifest-exposed") \in Seq(Plain \cup {Down})
        /\ open("manifest-exposed-ungated") \in Seq(Plain \cup {Down})
        /\ open("half-fix-drift") \in Seq(Plain \cup {Down})
    BY <1>3, <1>6 DEF ScenarioId
  <2>2. \A s \in Seq(Plain \cup {Down}), t \in Seq(Plain \cup {Down}) : s \o t \in Seq(Plain \cup {Down})
    BY Joined
  <2> HIDE DEF front
  <2> QED BY <1>4, <1>7, <2>1, <2>2, Zenon DEF front
<1> HIDE DEF front
<1> QED BY <1>5, <1>8

\* A command has a first step, and `vulnerable' and `compare' end by taking
\* everything down.  Only `vulnerable' has the public segment change something,
\* and it takes nothing down in between.
LEMMA ScriptFacts ==
  ASSUME NEW c \in Command
  PROVE  /\ Script[c] \in Seq(Inner \cup {Down}) /\ Len(Script[c]) \in Nat \ {0}
         /\ c \in OptIn => Script[c][Len(Script[c])] = Down
         /\ c # "vulnerable" => Script[c] \in Seq(Usual)
         /\ c = "vulnerable" => /\ Script[c][1] = Down /\ Script[c][2] = Up /\ Script[c][3] = UpVulnerable
                               /\ Len(Script[c]) > 3
                               /\ \A i \in 4..(Len(Script[c]) - 1) : Script[c][i] \in Inner
<1> DEFINE All == Inner \cup {Down}
<1>1. Plain \subseteq Usual /\ Usual \subseteq All /\ RunTask \subseteq Usual /\ Down \in Usual
  BY Tasks DEF Plain, Usual
<1>2. \A s \in Seq(Usual), t \in Seq(Usual) :
        s \o t \in Seq(Usual) /\ Len(s \o t) = Len(s) + Len(t)
  BY Joined
<1>3. \A s \in Seq(Plain) : s \in Seq(Usual) /\ Len(s) \in Nat
  BY <1>1
<1>4. /\ Refusals \in Seq(Usual) /\ ManifestSurface \in Seq(Usual)
      /\ Legitimate \in Seq(Usual) /\ Checks \in Seq(Usual)
  BY <1>1, <1>3, Scripts
<1>5. Len(Refusals) > 0 /\ Len(ManifestSurface) > 0 /\ Len(Legitimate) > 0 /\ Len(Checks) > 0
  BY DEF Refusals, Each, ManifestSurface, Legitimate, Checks
<1>6. ASSUME Script[c] \in Seq(Usual), Len(Script[c]) > 0, c \notin OptIn
      PROVE  /\ Script[c] \in Seq(All) /\ Len(Script[c]) \in Nat \ {0}
             /\ c \notin OptIn /\ c # "vulnerable" /\ Script[c] \in Seq(Usual)
  BY <1>1, <1>6 DEF OptIn
<1>7. CASE c \in {"up", "down", "refusals", "paths", "manifests", "checks", "state"}
  <2>1. Check("state-matches-fixture") \in Usual /\ Up \in Usual
    BY <1>1, Tasks DEF Names
  <2>2. Scenario("secure-apply") \in Usual
    BY <1>1, RunTasks DEF Jobs, ScenarioId
  <2> DEFINE short == {<<Up, Scenario("secure-apply")>>, <<Down>>, <<Check("state-matches-fixture")>>,
                       Refusals, Legitimate, ManifestSurface, Checks}
  <2>3. Script[c] \in short
    <3>1. c = "up" => Script[c] = <<Up, Scenario("secure-apply")>>
      BY DEF Script
    <3>2. c = "down" => Script[c] = <<Down>>
      BY DEF Script
    <3>3. c = "refusals" => Script[c] = Refusals
      BY DEF Script
    <3>4. c = "paths" => Script[c] = Legitimate
      BY DEF Script
    <3>5. c = "manifests" => Script[c] = ManifestSurface
      BY DEF Script
    <3>6. c = "checks" => Script[c] = Checks
      BY DEF Script
    <3>7. c = "state" => Script[c] = <<Check("state-matches-fixture")>>
      BY DEF Script
    <3> QED BY <1>7, <3>1, <3>2, <3>3, <3>4, <3>5, <3>6, <3>7
  <2>4. \A s \in short : s \in Seq(Usual) /\ Len(s) > 0
    <3>1. <<Up, Scenario("secure-apply")>> \in Seq(Usual) /\ Len(<<Up, Scenario("secure-apply")>>) > 0
      BY <2>1, <2>2
    <3>2. <<Down>> \in Seq(Usual) /\ Len(<<Down>>) > 0
      BY <1>1
    <3>3. /\ <<Check("state-matches-fixture")>> \in Seq(Usual)
          /\ Len(<<Check("state-matches-fixture")>>) > 0
      BY <2>1
    <3> QED BY <1>4, <1>5, <3>1, <3>2, <3>3, Zenon
  <2> HIDE DEF short
  <2>5. Script[c] \in Seq(Usual) /\ Len(Script[c]) > 0
    BY <2>3, <2>4
  <2>6. c \notin OptIn
    BY <1>7 DEF OptIn
  <2> QED BY <1>6, <2>5, <2>6 DEF OptIn
<1>8. CASE c = "verify"
  <2> DEFINE front == <<Up, Offline>>  apply == <<Scenario("secure-apply")>>  back == <<Down>>
  <2>1. front \in Seq(Usual) /\ apply \in Seq(Usual) /\ back \in Seq(Usual) /\ Len(front) = 2
    <3>1. Scenario("secure-apply") \in RunTask
      BY RunTasks DEF Jobs, ScenarioId
    <3>2. Up \in Usual /\ Offline \in Usual
      BY <1>1, Tasks, OtherTasks
    <3> QED BY <1>1, <3>1, <3>2
  <2>2. Script[c] = front \o Refusals \o apply \o Checks \o ManifestSurface \o Legitimate \o back
    BY <1>8 DEF Script
  <2> HIDE DEF front, apply, back
  <2>3. front \o Refusals \in Seq(Usual) /\ Len(front \o Refusals) > 0
    BY <1>2, <1>4, <1>5, <2>1
  <2>4. front \o Refusals \o apply \o Checks \in Seq(Usual) /\ Len(front \o Refusals \o apply \o Checks) > 0
    BY <1>2, <1>4, <2>1, <2>3
  <2>5. Script[c] \in Seq(Usual) /\ Len(Script[c]) > 0
    BY <1>2, <1>4, <2>1, <2>2, <2>4
  <2> QED BY <1>6, <1>8, <2>5 DEF OptIn
<1>9. CASE c = "compare"
  <2>1. PICK front \in Seq(Plain \cup {Down}) : Comparison = front \o <<Compare("table", <<>>), Down>>
    BY ComparisonTasks
  <2>2. Compare("table", <<>>) \in Usual
    <3>1. <<>> \in Seq(Files) /\ "table" \in Kinds
      BY DEF Kinds
    <3> QED BY <1>1, <3>1, Tasks
  <2> DEFINE back == <<Compare("table", <<>>), Down>>
  <2>3. back \in Seq(Usual) /\ Len(back) = 2 /\ back[2] = Down
    BY <1>1, <2>2
  <2>4. front \in Seq(Plain \cup {Down})
    OBVIOUS
  <2>5. front \in Seq(Usual)
    BY <1>1, <2>4
  <2>6. Script[c] = Comparison
    BY <1>9 DEF Script
  <2> HIDE DEF back
  <2>7. /\ Script[c] \in Seq(Usual) /\ Len(Script[c]) = Len(front) + 2
        /\ Script[c][Len(Script[c])] = back[2]
    BY <1>2, <2>1, <2>3, <2>5, <2>6, ConcatProperties DEF back
  <2> QED BY <1>1, <1>9, <2>3, <2>5, <2>7
<1>10. CASE c = "vulnerable"
  <2> DEFINE front == <<Down, Up, UpVulnerable>>  back == <<Down>>
  <2>1. front \in Seq(All) /\ Len(front) = 3 /\ back \in Seq(All) /\ Len(back) = 1 /\ back[1] = Down
    BY <1>1, Tasks
  <2>2. front[1] = Down /\ front[2] = Up /\ front[3] = UpVulnerable
    OBVIOUS
  <2>3. Script[c] = front \o Demonstrated \o back
    BY <1>10 DEF Script, Demonstration
  <2> HIDE DEF front, back
  <2>4. Demonstrated \in Seq(Inner) /\ Demonstrated \in Seq(All)
    BY DemonstratedTasks
  <2> DEFINE long == front \o Demonstrated
             Glued(s, t) == /\ s \o t \in Seq(All) /\ Len(s \o t) = Len(s) + Len(t)
                            /\ \A i \in 1..Len(s) : (s \o t)[i] = s[i]
                            /\ \A i \in 1..Len(t) : (s \o t)[Len(s) + i] = t[i]
  <2>5. \A s \in Seq(All), t \in Seq(All) : Glued(s, t)
    <3> HIDE DEF All
    <3> QED BY Joined, Parts
  <2>6. Glued(front, Demonstrated)
    <3> HIDE DEF All, Glued
    <3> QED BY <2>1, <2>4, <2>5
  <2>7. /\ long \in Seq(All) /\ Len(long) = 3 + Len(Demonstrated) /\ Script[c] = long \o back
        /\ \A i \in 1..3 : long[i] = front[i]
        /\ \A i \in 1..Len(Demonstrated) : long[3 + i] = Demonstrated[i]
    <3> HIDE DEF All
    <3>1. long \in Seq(All) /\ Len(long) = 3 + Len(Demonstrated) /\ Script[c] = long \o back
      BY <2>1, <2>3, <2>6
    <3>2. /\ \A i \in 1..Len(front) : long[i] = front[i]
          /\ \A i \in 1..Len(Demonstrated) : long[Len(front) + i] = Demonstrated[i]
      BY <2>6
    <3> QED BY <2>1, <3>1, <3>2
  <2>8. Glued(long, back)
    <3> HIDE DEF All, Glued, long
    <3> QED BY <2>1, <2>7, <2>5
  <2> HIDE DEF All, long
  <2>9. /\ Script[c] \in Seq(All) /\ Len(Script[c]) = 4 + Len(Demonstrated)
        /\ Script[c][4 + Len(Demonstrated)] = back[1]
        /\ \A i \in 1..(3 + Len(Demonstrated)) : Script[c][i] = long[i]
    <3>1. Len(Demonstrated) \in Nat
      BY <2>4
    <3>2. Script[c] \in Seq(All) /\ Len(Script[c]) = Len(long) + 1
      BY <2>1, <2>7, <2>8
    <3>3. /\ \A i \in 1..Len(long) : Script[c][i] = long[i]
          /\ \A i \in 1..Len(back) : Script[c][Len(long) + i] = back[i]
      BY <2>7, <2>8
    <3>4. Script[c][Len(long) + 1] = back[1]
      BY <2>1, <3>3
    <3>5. Len(long) + 1 = 4 + Len(Demonstrated)
      BY <2>7, <3>1
    <3> QED BY <2>7, <3>2, <3>3, <3>4, <3>5
  <2>10. \A i \in 4..(Len(Script[c]) - 1) : Script[c][i] \in Inner
    <3> SUFFICES ASSUME NEW i \in 4..(Len(Script[c]) - 1) PROVE Script[c][i] \in Inner
      OBVIOUS
    <3> DEFINE k == i - 3
    <3>1. Len(Demonstrated) \in Nat /\ i \in 1..(3 + Len(Demonstrated)) /\ k \in 1..Len(Demonstrated) /\ i = 3 + k
      <4>1. Len(Demonstrated) \in Nat
        BY <2>4
      <4> HIDE DEF Demonstrated
      <4> QED BY <2>9, <4>1
    <3>2. Script[c][i] = long[i]
      BY <2>9, <3>1
    <3>3. long[i] = Demonstrated[k]
      BY <2>7, <3>1
    <3>4. Demonstrated[k] \in Inner
      BY <2>4, <3>1
    <3> QED BY <3>2, <3>3, <3>4
  <2>11. Script[c][1] = Down /\ Script[c][2] = Up /\ Script[c][3] = UpVulnerable
    BY <2>2, <2>4, <2>7, <2>9
  <2>12. Len(Script[c]) \in Nat \ {0} /\ Len(Script[c]) > 3 /\ Script[c][Len(Script[c])] = Down
    <3>1. Len(Demonstrated) \in Nat
      BY <2>4
    <3> HIDE DEF Demonstrated
    <3> QED BY <2>1, <2>9, <3>1
  <2> QED BY <1>10, <2>9, <2>10, <2>11, <2>12 DEF All
<1>11. CASE c \notin {"up", "down", "refusals", "paths", "manifests", "checks", "state", "verify", "compare",
                      "vulnerable"}
  <2>1. Scenario(c) \in Usual
    BY <1>1, RunTasks DEF Jobs
  <2>2. Script[c] = <<Scenario(c)>>
    BY <1>11 DEF Script
  <2>3. Script[c] \in Seq(Usual) /\ Len(Script[c]) > 0
    BY <2>1, <2>2
  <2> QED BY <1>6, <1>11, <2>3 DEF OptIn
<1> QED BY <1>7, <1>8, <1>9, <1>10, <1>11

-----------------------------------------------------------------------------
(* The inductive invariant.                                                *)

Rows == [principal : Principal \cup {Anonymous}, segment : {"corp", "internet"}]

\* What is shown above and in PipelineProofs of the pipelines and the platform.
PipesInv == RunInv /\ DriftInv /\ TypeInv /\ ReportInv /\ CoherentInv

\* The shell is at a step of its command.
ShellInv ==
  /\ shell \in [status : {"running", "stopped", "done"}, command : Command \cup {None}, at : Nat,
                acknowledged : BOOLEAN, prepared : BOOLEAN, disturbed : BOOLEAN]
  /\ shell.status = "running" => shell.command \in Command
  /\ shell.command \in Command => shell.at \in 1..Len(Script[shell.command])

WorldInv ==
  /\ commands \in 0..MaxCommands /\ containers \in SUBSET {"checks", "vulnerable"}
  /\ ledger \in Seq(Rows)

\* At most one pipeline runs, and only at a step that runs it.
QuietInv ==
  /\ \A r \in Run : run[r].pc # "idle" => shell.status = "running" /\ Current.op = "run"
  /\ \A q, r \in Run : run[q].pc # "idle" /\ run[r].pc # "idle" => q = r

\* Without the misconfigured profile no run is under way that is meant to expose
\* anything, what the platform holds is accepted, and nobody outside has changed
\* anything.
UnopenedInv ==
  "vulnerable" \notin containers =>
    /\ Calm /\ \A slot \in Slot : Clean(slot)
    /\ \A i \in DOMAIN ledger : ledger[i].segment # "internet"

\* `vulnerable' has its profile up until its last step takes it down.
OpenInv ==
  shell.status = "running" /\ shell.command = "vulnerable" /\ shell.at > 3 => "vulnerable" \in containers

FinishInv == shell.status = "done" /\ shell.command \in OptIn => containers = {}

DemoInv == PipesInv /\ ShellInv /\ WorldInv /\ QuietInv /\ UnopenedInv /\ OpenInv /\ FinishInv

-----------------------------------------------------------------------------
(* The pipelines and what their clients read.                              *)

Emptied == [slot \in Slot |-> None]

LEMMA EmptyState == IsState(Emptied)
BY DEF Emptied, IsState

\* What is no step of a pipeline leaves the transcripts alone.
LEMMA PipesKept ==
  ASSUME PipesInv, run' = run, platform' \in {platform, Emptied}, failures' \in 0..MaxFailures
  PROVE  PipesInv'
<1>1. RunInv'
  BY DEF PipesInv, RunInv
<1>2. DriftInv'
  BY EmptyState DEF PipesInv, DriftInv, Checked, DriftAllowlist
<1>3. TypeInv'
  BY DEF PipesInv, TypeInv, Typed
<1>4. ReportInv'
  BY DEF PipesInv, ReportInv, Faithful, Pending, Untouched, Unaudited, AuditedOnce, Settled
<1>5. CoherentInv'
  BY DEF PipesInv, CoherentInv, Coherent
<1> QED BY <1>1, <1>2, <1>3, <1>4, <1>5 DEF PipesInv

LEMMA PipesStep == ASSUME PipesInv, NEW r \in Run, Step(r) PROVE PipesInv'
<1>1. Next
  BY DEF Next
<1> QED BY <1>1, InvStep, DriftNext, TypeNext, ReportNext, CoherentNext DEF PipesInv

LEMMA IdleFacts ==
  /\ DOMAIN Idle = Fields /\ Idle.pc = "idle" /\ Idle.job = None /\ Idle.drift = None
  /\ ~Idle.passed /\ Idle.wrote = {} /\ ~Idle.applied /\ Idle.audit = <<>>
  /\ Idle.result = "DEPLOY_REFUSED" /\ Idle \in Transcript
<1>1. /\ DOMAIN Idle = Fields /\ Idle.pc = "idle" /\ Idle.job = None /\ Idle.drift = None
      /\ ~Idle.passed /\ Idle.wrote = {} /\ ~Idle.applied /\ Idle.audit = <<>>
      /\ Idle.result = "DEPLOY_REFUSED"
  BY DEF Idle, Fresh, Fields
<1>2. Idle \in Transcript
  <2>1. Idle.pc = "idle" /\ Fresh(None) \in Transcript
    BY <1>1, FreshTyped
  <2> QED BY <2>1, WithLabel DEF Idle, Label
<1> QED BY <1>1, <1>2

\* A slot that a pipeline has left is empty again.
LEMMA PipesReset ==
  ASSUME PipesInv, NEW r \in Run, run' = [run EXCEPT ![r] = Idle], platform' = platform,
         failures' \in 0..MaxFailures
  PROVE  PipesInv'
<1>1. Becomes(r, Idle)
  BY DEF Becomes
<1>2. run'[r] = Idle /\ \A q \in Run : q # r => run'[q] = run[q]
  BY <1>1, OthersStay DEF PipesInv
<1> HIDE DEF Idle
<1>3. RunInv'
  <2>1. Idle.job \in ScenarioId => Good(Idle, Env[r])
    BY IdleFacts DEF Good, Untouched
  <2> QED BY <1>1, <2>1, IdleFacts, OneRunStep DEF PipesInv, CommandStep
<1>4. DriftInv'
  <2>1. Checked(Idle)
    BY IdleFacts DEF Checked
  <2> QED BY <1>1, <2>1, DriftStep DEF PipesInv, DriftInv
<1>5. TypeInv'
  <2>1. Typed(Idle)
    BY IdleFacts, QuietTyped
  <2> QED BY <1>1, <2>1, TypeStep DEF PipesInv
<1>6. ReportInv'
  <2>1. Faithful(Idle)
    BY IdleFacts, Zenon DEF Faithful, Unaudited, Settled
  <2> QED BY <1>2, <2>1 DEF PipesInv, ReportInv, Faithful, Pending, Untouched, Unaudited, AuditedOnce, Settled
<1>7. CoherentInv'
  BY <1>2, IdleFacts DEF PipesInv, CoherentInv, Coherent, Resting
<1> QED BY <1>3, <1>4, <1>5, <1>6, <1>7 DEF PipesInv

\* No answer is the mark of a request that got none.
LEMMA Answered ==
  ASSUME IsState(platform), NEW k \in DOMAIN Probes, NEW caller
  PROVE  Response(Probes[k], caller) # "lost"
<1> DEFINE probe == Probes[k]
           object == [bucket |-> probe.name, key |-> probe.key]
<1>1. CASE probe.kind = "bucket"
  <2>1. object \in ObjectId
    BY <1>1, ProbesAssumption DEF ObjectId
  <2>2. platform[ObjectSlot(object)] # None => platform[ObjectSlot(object)] \in Body
    BY <2>1 DEF ObjectSlot, Slot, IsState, ValueOf
  <2>3. ReadAllowed(platform, caller, object) => platform[ObjectSlot(object)] # None
    BY DEF ReadAllowed
  <2>4. Answers(probe, caller) \in Body \cup {"refused"}
    BY <1>1, <2>2, <2>3 DEF Answers
  <2> QED BY <2>4, DemoAssumption DEF Response
<1>2. CASE probe.kind # "bucket"
  BY <1>2 DEF Answers, Response
<1> QED BY <1>1, <1>2

\* A client misses at most one answer, and one only while something may fail.
LEMMA Missed ==
  ASSUME IsState(platform), failures \in 0..MaxFailures, NEW i, NEW saw \in Views(i)
  PROVE  Losses(saw) = 0 \/ (Losses(saw) = 1 /\ failures < MaxFailures)
<1> DEFINE all == [k \in DOMAIN Probes |-> Response(Probes[k], CallerOf(i))]
<1>1. \A k \in DOMAIN Probes : all[k] # "lost"
  BY Answered
<1> HIDE DEF all
<1>2. CASE saw = all
  <2>1. {k \in DOMAIN saw : saw[k] = "lost"} = {}
    BY <1>1, <1>2 DEF all
  <2> QED BY <2>1, FS_EmptySet DEF Losses
<1>3. CASE saw # all
  <2>1. failures < MaxFailures
    BY <1>3 DEF Views, all
  <2>2. PICK k \in DOMAIN Probes : saw = [all EXCEPT ![k] = "lost"]
    BY <1>3 DEF Views, all
  <2>3. {j \in DOMAIN saw : saw[j] = "lost"} = {k}
    BY <1>1, <2>2 DEF all
  <2> QED BY <2>1, <2>3, FS_Singleton DEF Losses
<1> QED BY <1>2, <1>3

-----------------------------------------------------------------------------
(* The steps of the shell.                                                 *)

\* The step the shell is at, and where it is in the script.
LEMMA AtStep ==
  ASSUME ShellInv, shell.status = "running"
  PROVE  /\ Current \in Inner \cup {Down}
         /\ shell.command \in OptIn /\ shell.at = Len(Script[shell.command]) => Current = Down
         /\ shell.command # "vulnerable" => Current \in Usual
         /\ shell.command = "vulnerable" =>
              /\ shell.at = 3 => Current = UpVulnerable
              /\ shell.at \in 1..2 => Current \in {Down, Up}
              /\ shell.at > 3 /\ shell.at < Len(Script[shell.command]) => Current \in Inner
              /\ shell.at = Len(Script[shell.command]) => Current = Down
<1> DEFINE c == shell.command
           i == shell.at
<1>1. c \in Command /\ i \in 1..Len(Script[c])
  BY DEF ShellInv
<1>2. Script[c] \in Seq(Inner \cup {Down}) /\ Len(Script[c]) \in Nat
  BY <1>1, ScriptFacts
<1>3. Current \in Inner \cup {Down}
  BY <1>1, <1>2 DEF Current
<1>4. c # "vulnerable" => Current \in Usual
  <2>1. c # "vulnerable" => Script[c] \in Seq(Usual)
    BY <1>1, ScriptFacts
  <2> QED BY <1>1, <2>1 DEF Current
<1>5. c \in OptIn /\ i = Len(Script[c]) => Current = Down
  BY <1>1, ScriptFacts DEF Current
<1>6. ASSUME c = "vulnerable"
      PROVE  /\ i = 3 => Current = UpVulnerable
             /\ i \in 1..2 => Current \in {Down, Up}
             /\ i > 3 /\ i < Len(Script[c]) => Current \in Inner
  <2>1. /\ Script[c][1] = Down /\ Script[c][2] = Up /\ Script[c][3] = UpVulnerable
        /\ \A j \in 4..(Len(Script[c]) - 1) : Script[c][j] \in Inner
    BY <1>1, <1>6, ScriptFacts
  <2>2. i > 3 /\ i < Len(Script[c]) => i \in 4..(Len(Script[c]) - 1)
    BY <1>1, <1>2
  <2>3. i \in 1..2 => i = 1 \/ i = 2
    BY <1>1
  <2> QED BY <2>1, <2>2, <2>3 DEF Current
<1> QED BY <1>3, <1>4, <1>5, <1>6 DEF OptIn

\* What going on makes of the shell.
LEMMA ShellGoesOn ==
  ASSUME ShellInv, shell.status = "running", NEW ended \in BOOLEAN, NEW disturbed \in BOOLEAN,
         Proceed(ended, disturbed)
  PROVE  /\ ShellInv' /\ shell'.command = shell.command
         /\ shell'.status = "running" =>
              ended /\ shell'.at = shell.at + 1 /\ shell.at < Len(Script[shell.command])
         /\ shell'.status = "done" => ended /\ shell.at = Len(Script[shell.command])
<1> DEFINE len == Len(Script[shell.command])
<1>1. shell.command \in Command /\ shell.at \in 1..len /\ len \in Nat
  BY ScriptFacts DEF ShellInv
<1>2. /\ shell'.command = shell.command
      /\ shell'.at = IF ended /\ shell.at < len THEN shell.at + 1 ELSE shell.at
      /\ shell'.status = IF ~ended THEN "stopped" ELSE IF shell.at = len THEN "done" ELSE "running"
      /\ shell'.disturbed = (shell.disturbed \/ disturbed)
      /\ shell'.acknowledged = shell.acknowledged /\ shell'.prepared = shell.prepared
      /\ shell' = [shell EXCEPT !.disturbed = shell'.disturbed, !.at = shell'.at, !.status = shell'.status]
  BY DEF Proceed, ShellInv
<1>3. shell'.at \in 1..len
  <2> HIDE DEF len
  <2> QED BY <1>1, <1>2
<1>4. ShellInv'
  <2>1. /\ shell'.at \in Nat /\ shell'.disturbed \in BOOLEAN
        /\ shell'.status \in {"running", "stopped", "done"}
    BY <1>1, <1>2, <1>3 DEF ShellInv
  <2>2. shell' \in [status : {"running", "stopped", "done"}, command : Command \cup {None}, at : Nat,
                    acknowledged : BOOLEAN, prepared : BOOLEAN, disturbed : BOOLEAN]
    BY <1>2, <2>1 DEF ShellInv
  <2> QED BY <1>1, <1>2, <1>3, <2>2 DEF ShellInv
<1> QED BY <1>1, <1>2, <1>4

\* The row a check leaves: only the impact's is of somebody outside.
LEMMA PostedRows ==
  ASSUME NEW name
  PROVE  /\ Posted(name) \in Seq(Rows)
         /\ name # Impact => \A i \in DOMAIN Posted(name) : Posted(name)[i].segment # "internet"
<1>1. OutsideRole.principal = Anonymous /\ OutsideRole.segment = "internet"
  BY ObserverAssumption, DemoAssumption DEF OutsideRole, CallerOf
<1>2. OpsRole.principal = Anonymous /\ OpsRole.segment = "corp"
  BY DemoAssumption DEF OpsRole, CorpRole, FinanceRole, CallerOf
<1> DEFINE row(c) == <<[principal |-> c.principal, segment |-> c.segment]>>
<1>3. \A c : c.principal = Anonymous /\ c.segment \in {"corp", "internet"} => row(c) \in Seq(Rows)
  BY DEF Rows
<1>4. CASE name = "ops-admin-change"
  <2>1. Posting(name) = {OpsRole} /\ (CHOOSE c \in {OpsRole} : TRUE) = OpsRole
    BY <1>4 DEF Posting
  <2>2. Posted(name) = row(OpsRole) \/ Posted(name) = <<>>
    BY <2>1 DEF Posted
  <2>3. row(OpsRole) \in Seq(Rows) /\ <<>> \in Seq(Rows)
    BY <1>2, <1>3
  <2>4. \A i \in DOMAIN row(OpsRole) : row(OpsRole)[i].segment # "internet"
    BY <1>2
  <2> DEFINE posted == row(OpsRole)
  <2> HIDE DEF posted
  <2>5. Posted(name) = posted \/ Posted(name) = <<>>
    BY <2>2 DEF posted
  <2>6. posted \in Seq(Rows) /\ \A i \in DOMAIN posted : posted[i].segment # "internet"
    BY <2>3, <2>4 DEF posted
  <2>7. CASE Posted(name) = <<>>
    BY <2>7
  <2> QED BY <2>5, <2>6, <2>7
<1>5. CASE name = Impact
  <2>1. Posting(name) = {OutsideRole} /\ (CHOOSE c \in {OutsideRole} : TRUE) = OutsideRole
    BY <1>5 DEF Posting, Impact
  <2>2. Posted(name) = row(OutsideRole) \/ Posted(name) = <<>>
    BY <2>1 DEF Posted
  <2>3. row(OutsideRole) \in Seq(Rows) /\ <<>> \in Seq(Rows)
    BY <1>1, <1>3
  <2> QED BY <1>5, <2>2, <2>3
<1>6. CASE name \notin {"ops-admin-change", Impact}
  <2>1. Posting(name) = {}
    BY <1>6 DEF Posting, Impact
  <2> QED BY <2>1 DEF Posted
<1> QED BY <1>4, <1>5, <1>6

\* A step that is no run's: it does what it does, or it does nothing.
Acts(ended) ==
  /\ UNCHANGED <<run, commands>>
  /\ \/ Effect(Current)
     \/ /\ UNCHANGED <<platform, containers, ledger>>
        /\ ended => Current.op \notin {"up", "up-vulnerable", "down", "check"}

LEMMA WorldStep ==
  ASSUME DemoInv, shell.status = "running", \A r \in Run : run[r].pc = "idle",
         NEW ended \in BOOLEAN, NEW disturbed \in BOOLEAN, Proceed(ended, disturbed),
         Acts(ended), failures' \in 0..MaxFailures
  PROVE  DemoInv'
<1>1. /\ ShellInv' /\ shell'.command = shell.command
      /\ shell'.status = "running" =>
           ended /\ shell'.at = shell.at + 1 /\ shell.at < Len(Script[shell.command])
      /\ shell'.status = "done" => ended /\ shell.at = Len(Script[shell.command])
  BY ShellGoesOn DEF DemoInv
<1>2. Current \in Inner \cup {Down}
  BY AtStep DEF DemoInv
<1>3. Current.op = "down" <=> Current = Down
  BY <1>2 DEF Inner, RunTask, CheckTask, ObserveTask, CompareTask, Down
<1>4. PipesInv'
  BY PipesKept DEF DemoInv, Acts, Effect, Emptied
<1>5. WorldInv'
  <2>1. commands' \in 0..MaxCommands /\ containers' \in SUBSET {"checks", "vulnerable"}
    BY DEF DemoInv, WorldInv, Acts, Effect
  <2>2. Posted(Current.name) \in Seq(Rows) /\ ledger \in Seq(Rows)
    BY PostedRows DEF DemoInv, WorldInv
  <2>3. ledger \o Posted(Current.name) \in Seq(Rows)
    BY <2>2, Joined
  <2>4. ledger' \in {ledger, <<>>, ledger \o Posted(Current.name)}
    BY DEF Acts, Effect
  <2>5. <<>> \in Seq(Rows)
    OBVIOUS
  <2>6. ledger' \in Seq(Rows)
    BY <2>2, <2>3, <2>4, <2>5, Zenon
  <2> QED BY <2>1, <2>6 DEF WorldInv
<1>6. QuietInv'
  BY DEF Acts, QuietInv
<1>7. UnopenedInv'
  <2> SUFFICES ASSUME "vulnerable" \notin containers'
               PROVE  /\ Calm' /\ \A slot \in Slot : Clean(slot)'
                      /\ \A i \in DOMAIN ledger' : ledger'[i].segment # "internet"
    BY DEF UnopenedInv
  <2>1. Calm'
    BY DEF Calm, Busy, Acts
  <2>2. CASE Effect(Current) /\ Current.op = "down"
    <3>1. platform' = Emptied /\ ledger' = <<>>
      BY <2>2 DEF Effect, Emptied
    <3>2. \A slot \in Slot : Accepted(slot, platform'[slot])
      BY <3>1 DEF Emptied, Accepted
    <3> QED BY <2>1, <3>1, <3>2 DEF Clean, Accepted
  <2>3. CASE ~(Effect(Current) /\ Current.op = "down")
    <3>1. "vulnerable" \notin containers /\ platform' = platform
      BY <2>3 DEF Acts, Effect
    <3>2. \A slot \in Slot : Accepted(slot, platform'[slot])
      BY <3>1 DEF DemoInv, UnopenedInv, Clean
    <3>3. Current.op = "check" => Current.name # Impact
      <4>1. CASE shell.command # "vulnerable"
        BY <4>1, AtStep DEF DemoInv, Usual
      <4>2. CASE shell.command = "vulnerable"
        <5>1. ~(shell.at > 3)
          BY <3>1, <4>2 DEF DemoInv, OpenInv
        <5>2. shell.at = 3 \/ shell.at \in 1..2
          BY <4>2, <5>1, ScriptFacts DEF DemoInv, ShellInv
        <5>3. Current \in {UpVulnerable, Down, Up}
          BY <4>2, <5>2, AtStep DEF DemoInv
        <5> QED BY <5>3 DEF UpVulnerable, Down, Up
      <4> QED BY <4>1, <4>2
    <3>4. ledger' = ledger \/ (Current.op = "check" /\ ledger' = ledger \o Posted(Current.name))
      BY <2>3 DEF Acts, Effect
    <3>5. \A i \in DOMAIN ledger : ledger[i].segment # "internet"
      BY <3>1 DEF DemoInv, UnopenedInv
    <3>6. \A i \in DOMAIN ledger' : ledger'[i].segment # "internet"
      <4>1. CASE ledger' = ledger
        BY <3>5, <4>1
      <4>2. CASE ledger' = ledger \o Posted(Current.name) /\ Current.name # Impact
        <5> DEFINE rows == Posted(Current.name)
        <5>1. /\ ledger \in Seq(Rows) /\ rows \in Seq(Rows)
              /\ \A i \in DOMAIN rows : rows[i].segment # "internet"
          BY <4>2, PostedRows DEF DemoInv, WorldInv
        <5> HIDE DEF rows
        <5>2. ledger' = ledger \o rows
          BY <4>2 DEF rows
        <5> QED BY <3>5, <5>1, <5>2
      <4> QED BY <3>3, <3>4, <4>1, <4>2
    <3> QED BY <2>1, <3>2, <3>6 DEF Clean, Accepted
  <2> QED BY <2>2, <2>3
<1>8. OpenInv'
  <2> SUFFICES ASSUME shell'.status = "running", shell'.command = "vulnerable", shell'.at > 3
               PROVE  "vulnerable" \in containers'
    BY DEF OpenInv
  <2>1. /\ ended /\ shell.at + 1 > 3 /\ shell.at \in Nat /\ shell.command = "vulnerable"
        /\ shell.at < Len(Script[shell.command])
    BY <1>1 DEF DemoInv, ShellInv
  <2>2. CASE shell.at = 3
    <3>1. Current = UpVulnerable
      BY <2>1, <2>2, AtStep DEF DemoInv
    <3>2. Current.op = "up-vulnerable"
      BY <3>1 DEF UpVulnerable
    <3> QED BY <2>1, <3>2 DEF Acts, Effect
  <2>3. CASE shell.at > 3
    <3>1. "vulnerable" \in containers /\ Current \in Inner
      BY <2>1, <2>3, AtStep DEF DemoInv, OpenInv
    <3>2. Current.op # "down"
      BY <3>1 DEF Inner, RunTask, CheckTask, ObserveTask, CompareTask
    <3> QED BY <3>1, <3>2 DEF Acts, Effect
  <2>4. shell.at = 3 \/ shell.at > 3
    BY <2>1
  <2> QED BY <2>2, <2>3, <2>4
<1>9. FinishInv'
  <2> SUFFICES ASSUME shell'.status = "done", shell'.command \in OptIn PROVE containers' = {}
    BY DEF FinishInv
  <2>1. Current = Down
    BY <1>1, AtStep DEF DemoInv
  <2>2. Current.op = "down"
    BY <1>3, <2>1
  <2> QED BY <1>1, <2>2 DEF Acts, Effect
<1> QED BY <1>1, <1>4, <1>5, <1>6, <1>7, <1>8, <1>9 DEF DemoInv

-----------------------------------------------------------------------------
(* The runs of the pipeline.                                               *)

\* Every scenario that is meant to expose something needs both opt-ins.
LEMMA ExposingNeedsOptIn == \A id \in Exposing : Scenarios[id].vulnerable
<1> SUFFICES ASSUME NEW id \in ScenarioId, Scenarios[id].reconciliation = "FAIL"
             PROVE  Scenarios[id].vulnerable
  BY DEF Exposing
<1>1. CASE id \in {"vulnerable-ungated", "half-fix-source-scan", "half-fix-report-only",
                   "manifest-exposed-ungated", "half-fix-denylist", "half-fix-review-path-only",
                   "half-fix-drift"}
  BY <1>1 DEF ScenarioId, Scenarios, Vulnerable, Base
<1>2. CASE id \in {"vulnerable-gated", "manifest-exposed"}
  BY <1>2 DEF ScenarioId, Scenarios, Refused, Gated, Base
<1>3. CASE id \in {"offline-init", "secure-apply", "reviewed-exposure", "routine-change", "manifest-intended"}
  BY <1>3 DEF ScenarioId, Scenarios, Gated, Base
<1>4. CASE id \in {"refuse-anonymous-export", "refuse-unrestricted-admin", "fail-closed-unparsable",
                   "fail-closed-unknown-type", "fail-closed-unrecognized-field"}
  BY <1>4 DEF ScenarioId, Scenarios, Evaluating, Refused, Gated, Base
<1>5. CASE id \in {"fail-closed-engine-error", "binding-unapproved-plan", "binding-modified-plan",
                   "binding-stale-approval", "reviewed-exposure-unapproved"}
  BY <1>5 DEF ScenarioId, Scenarios, Refused, Gated, Base
<1> QED BY <1>1, <1>2, <1>3, <1>4, <1>5, Zenon DEF ScenarioId

\* A pipeline takes a step while the shell waits for it.
LEMMA PipelineStep ==
  ASSUME DemoInv, NEW r \in Run, Step(r),
         shell.status = "running", Current.op = "run", \A q \in Run \ {r} : run[q].pc = "idle",
         NEW disturbed \in BOOLEAN, shell' = [shell EXCEPT !.disturbed = disturbed],
         UNCHANGED <<commands, containers, ledger>>, "vulnerable" \notin containers => Calm'
  PROVE  DemoInv'
<1>1. PICK u : Becomes(r, u) /\ Moves(run[r], u)
  BY StepMoves DEF Moved, DemoInv, PipesInv
<1>2. run'[r] = u /\ \A q \in Run : q # r => run'[q] = run[q]
  BY <1>1, OthersStay DEF DemoInv, PipesInv
<1>3. PipesInv'
  BY PipesStep DEF DemoInv
<1>4. /\ shell'.status = shell.status /\ shell'.command = shell.command /\ shell'.at = shell.at
      /\ ShellInv'
  BY DEF DemoInv, ShellInv
<1>5. Current' = Current
  BY <1>4 DEF Current
<1>6. WorldInv' /\ OpenInv' /\ FinishInv'
  BY <1>4 DEF DemoInv, WorldInv, OpenInv, FinishInv
<1>7. QuietInv'
  BY <1>2, <1>4, <1>5 DEF QuietInv
<1>8. UnopenedInv'
  <2> SUFFICES ASSUME "vulnerable" \notin containers PROVE Calm' /\ \A slot \in Slot : Accepted(slot, platform'[slot])
    BY DEF DemoInv, UnopenedInv, Clean, Accepted
  <2> QED BY <1>1, CleanMoves DEF DemoInv, PipesInv, UnopenedInv
<1> QED BY <1>3, <1>4, <1>6, <1>7, <1>8 DEF DemoInv

\* The default pipeline refuses what the misconfigured one is for.
LEMMA StartedCalm ==
  ASSUME DemoInv, "vulnerable" \notin containers, Current \in RunTask,
         Current.needs \in containers \cup {None},
         \/ Start(Current.slot, Current.job)
         \/ StartDrift(Current.slot) \/ StartRemoval(Current.slot)
  PROVE  Calm'
<1> DEFINE r == Current.slot
<1>1. r = SecureRun /\ r \in Run
  BY Slots, DemoAssumption DEF RunTask
<1>2. ASSUME NEW u, Becomes(r, u), u.pc = "end" \/ u.job \notin Exposing PROVE Calm'
  <2>1. run'[r] = u /\ \A q \in Run : q # r => run'[q] = run[q]
    BY <1>1, <1>2, OthersStay DEF DemoInv, PipesInv
  <2> HIDE DEF r
  <2> QED BY <1>2, <2>1 DEF DemoInv, UnopenedInv, Calm, Busy
<1>3. CASE Start(r, Current.job) /\ Current.job \in Exposing
  <2>1. ~Available(Scenarios[Current.job], Env[SecureRun])
    BY <1>3, ExposingNeedsOptIn, DemoAssumption DEF Available
  <2>2. Becomes(r, Failed(Fresh(Current.job)))
    BY <1>1, <1>3, <2>1 DEF Start
  <2>3. Failed(Fresh(Current.job)).pc = "end"
    BY DEF Failed, Fresh
  <2> QED BY <1>2, <2>2, <2>3
<1>4. CASE Start(r, Current.job) /\ Current.job \notin Exposing
  <2> DEFINE job == Current.job
             s == Scenarios[job]
             begun == IF s.skipRemote THEN Fresh(job)
                      ELSE [Fresh(job) EXCEPT !.before = platform, !.after = platform]
             t == IF Available(s, Env[r]) THEN begun ELSE Failed(Fresh(job))
  <2>1. t.job = job
    BY DEF Fresh, Failed
  <2>2. Becomes(r, t)
    BY <1>4 DEF Start
  <2> HIDE DEF t
  <2> QED BY <1>2, <1>4, <2>1, <2>2
<1>5. CASE StartDrift(r)
  <2> DEFINE t == [Fresh("drift") EXCEPT !.pc = "drift"]
  <2>1. t.job \notin Exposing
    BY Commands DEF Fresh, Exposing
  <2> QED BY <1>2, <1>5, <2>1 DEF StartDrift
<1>6. CASE StartRemoval(r)
  <2> DEFINE t == [Fresh("remove-undeclared") EXCEPT
                     !.pc = "remove",
                     !.todo = {slot \in UndeclaredSlots : platform[slot] # None}]
  <2>1. t.job \notin Exposing
    BY Commands DEF Fresh, Exposing
  <2> QED BY <1>2, <1>6, <2>1 DEF StartRemoval
<1> QED BY <1>3, <1>4, <1>5, <1>6

\* A pipeline is begun.
LEMMA InvBegin == ASSUME DemoInv, BeginRun PROVE DemoInv'
<1>1. shell.status = "running" /\ Current.op = "run" /\ \A q \in Run : run[q].pc = "idle"
  BY DEF BeginRun, Doing
<1>2. Current \in Inner \cup {Down}
  BY <1>1, AtStep DEF DemoInv
<1>3. Current \in RunTask
  BY <1>1, <1>2 DEF Inner, CheckTask, ObserveTask, CompareTask, Down
<1>4. CASE Current.needs \in containers \cup {None}
  <2>1. /\ UNCHANGED <<shell, commands, containers, ledger>>
        /\ \/ Start(Current.slot, Current.job)
           \/ StartDrift(Current.slot) \/ StartRemoval(Current.slot)
    BY <1>4 DEF BeginRun
  <2>2. Current.slot \in Run
    BY <1>3 DEF RunTask
  <2>3. Begin(Current.slot)
    <3>1. ScenarioId \subseteq Job /\ "drift" \in Job /\ "remove-undeclared" \in Job
      BY DemoAssumption
    <3> QED BY <2>1, <3>1 DEF Begin, Start
  <2>4. Step(Current.slot)
    BY <2>3 DEF Step
  <2>5. "vulnerable" \notin containers => Calm'
    BY <1>3, <1>4, <2>1, StartedCalm
  <2>6. shell' = [shell EXCEPT !.disturbed = shell.disturbed] /\ shell.disturbed \in BOOLEAN
    BY <2>1 DEF DemoInv, ShellInv
  <2> QED BY <1>1, <2>1, <2>2, <2>4, <2>5, <2>6, PipelineStep
<1>5. CASE Current.needs \notin containers \cup {None}
  <2>1. Proceed(FALSE, FALSE) /\ UNCHANGED <<platform, run, failures, commands, containers, ledger>>
    BY <1>5 DEF BeginRun
  <2>2. failures' \in 0..MaxFailures
    BY <2>1 DEF DemoInv, PipesInv, TypeInv
  <2> QED BY <1>1, <2>1, <2>2, WorldStep DEF Acts
<1> QED BY <1>4, <1>5

\* It goes on.
LEMMA InvRunStep == ASSUME DemoInv, NEW r \in Run, RunStep(r) PROVE DemoInv'
<1>1. run[r].pc \notin Resting /\ Step(r) /\ UNCHANGED <<commands, containers, ledger>>
  BY DEF RunStep, Resting
<1>2. PICK disturbed \in BOOLEAN : shell' = [shell EXCEPT !.disturbed = disturbed]
  BY DEF RunStep, DemoInv, ShellInv
<1>3. /\ shell.status = "running" /\ Current.op = "run"
      /\ \A q \in Run \ {r} : run[q].pc = "idle"
  BY <1>1 DEF DemoInv, QuietInv, Resting
<1>4. ASSUME "vulnerable" \notin containers PROVE Calm'
  <2>1. PICK u : Becomes(r, u) /\ Moves(run[r], u)
    BY <1>1, StepMoves DEF Moved, DemoInv, PipesInv
  <2>2. Busy(r)
    BY <1>1 DEF Busy, Resting
  <2>3. run'[r] = u /\ u.job = run[r].job /\ \A q \in Run \ {r} : run'[q] = run[q]
    BY <2>1, <2>2, StepActors DEF DemoInv, PipesInv
  <2> QED BY <1>4, <2>2, <2>3 DEF DemoInv, UnopenedInv, Calm, Busy
<1> QED BY <1>1, <1>2, <1>3, <1>4, PipelineStep

\* It has exited, and the shell goes on.
LEMMA InvEndRun == ASSUME DemoInv, NEW r \in Run, EndRun(r) PROVE DemoInv'
<1>1. /\ run[r].pc = "end" /\ run' = [run EXCEPT ![r] = Idle]
      /\ UNCHANGED <<platform, commands, containers, ledger>>
  BY DEF EndRun
<1>2. PICK first \in Views(1), second \in Views(2) :
        LET t == run[r]
            reconciled == Reconciled(t, Document(1, first) \cup Document(2, second))
            ended == t.passed /\ (Current.observed => reconciled.passed)
            losses == Losses(first) + Losses(second) + (IF EngineFailed(t) THEN 1 ELSE 0)
        IN /\ failures + losses <= MaxFailures
           /\ failures' = failures + losses
           /\ Proceed(ended, losses # 0)
  BY DEF EndRun
<1> DEFINE t == run[r]
           ended == t.passed /\ (Current.observed => Reconciled(t, Document(1, first) \cup Document(2, second)).passed)
           losses == Losses(first) + Losses(second) + (IF EngineFailed(t) THEN 1 ELSE 0)
<1>3. failures' \in 0..MaxFailures
  <2>1. IsState(platform) /\ failures \in 0..MaxFailures
    BY DEF DemoInv, PipesInv, DriftInv, TypeInv
  <2>2. first \in Views(1) /\ second \in Views(2)
    OBVIOUS
  <2>3. Losses(first) \in Nat /\ Losses(second) \in Nat
    BY <2>1, <2>2, Missed
  <2>4. losses \in Nat /\ failures + losses <= MaxFailures /\ failures' = failures + losses
    BY <1>2, <2>3
  <2> HIDE DEF losses
  <2> QED BY <2>1, <2>4, MaxFailuresAssumption
<1>4. PICK e \in BOOLEAN, disturbed \in BOOLEAN : Proceed(e, disturbed)
  <2>1. ended \in BOOLEAN
    <3>1. t.passed \in BOOLEAN
      BY DEF DemoInv, PipesInv, TypeInv, Transcript
    <3> QED BY <3>1
  <2>2. (losses # 0) \in BOOLEAN /\ Proceed(ended, losses # 0)
    BY <1>2
  <2> HIDE DEF ended, losses
  <2> QED BY <2>1, <2>2
<1>5. PipesInv'
  BY <1>1, <1>3, PipesReset DEF DemoInv
<1>6. shell.status = "running" /\ Current.op = "run" /\ \A q \in Run \ {r} : run[q].pc = "idle"
  BY <1>1 DEF DemoInv, QuietInv
<1>7. \A q \in Run : run'[q].pc = "idle"
  <2>1. run'[r] = Idle /\ \A q \in Run : q # r => run'[q] = run[q]
    <3>1. Becomes(r, Idle)
      BY <1>1 DEF Becomes
    <3> QED BY <3>1, OthersStay DEF DemoInv, PipesInv
  <2> QED BY <1>6, <2>1, IdleFacts
<1>8. /\ ShellInv' /\ shell'.command = shell.command
      /\ shell'.status = "running" =>
           e /\ shell'.at = shell.at + 1 /\ shell.at < Len(Script[shell.command])
      /\ shell'.status = "done" => e /\ shell.at = Len(Script[shell.command])
  BY <1>4, <1>6, ShellGoesOn DEF DemoInv
<1>9. Current \notin {Down, UpVulnerable, Up}
  BY <1>6 DEF Down, UpVulnerable, Up
<1>10. QuietInv'
  BY <1>7 DEF QuietInv
<1>11. UnopenedInv'
  BY <1>1, <1>7 DEF DemoInv, UnopenedInv, Calm, Busy, Clean, Accepted
<1>12. OpenInv'
  <2> SUFFICES ASSUME shell'.status = "running", shell'.command = "vulnerable", shell'.at > 3
               PROVE  "vulnerable" \in containers
    BY <1>1 DEF OpenInv
  <2>1. shell.at + 1 > 3 /\ shell.at \in Nat /\ shell.command = "vulnerable"
    BY <1>8 DEF DemoInv, ShellInv
  <2>2. shell.at # 3
    BY <1>6, <1>9, <2>1, AtStep DEF DemoInv
  <2>3. shell.at > 3
    BY <2>1, <2>2
  <2> QED BY <1>6, <2>1, <2>3 DEF DemoInv, OpenInv
<1>13. FinishInv'
  <2>1. shell'.status = "done" => shell'.command \notin OptIn
    BY <1>6, <1>8, <1>9, AtStep DEF DemoInv
  <2> QED BY <2>1 DEF FinishInv
<1>14. WorldInv'
  BY <1>1 DEF DemoInv, WorldInv
<1> QED BY <1>5, <1>8, <1>10, <1>11, <1>12, <1>13, <1>14 DEF DemoInv

-----------------------------------------------------------------------------
(* The other steps, and the whole demonstration.                           *)

LEMMA InvInvoke == ASSUME DemoInv, Invoke PROVE DemoInv'
<1>1. /\ UNCHANGED <<platform, run, failures, containers, ledger>>
      /\ commands < MaxCommands /\ commands' = commands + 1 /\ shell.status # "running"
  BY DEF Invoke
<1>2. PICK command \in Command, acknowledged \in BOOLEAN :
        shell' = [status |-> IF command \in OptIn /\ ~acknowledged THEN "stopped" ELSE "running",
                  command |-> command, at |-> 1, acknowledged |-> acknowledged,
                  prepared |-> Prepared(command), disturbed |-> FALSE]
  BY DEF Invoke
<1>3. command \in Command /\ 1 \in 1..Len(Script[command])
  BY ScriptFacts
<1>4. Prepared(command) \in BOOLEAN
  BY DEF Prepared
<1>5. ShellInv' /\ shell'.at = 1 /\ shell'.status # "done"
  BY <1>2, <1>3, <1>4 DEF ShellInv
<1>6. PipesInv'
  BY <1>1, PipesKept DEF DemoInv, PipesInv, TypeInv
<1>7. WorldInv'
  BY <1>1, DemoAssumption DEF DemoInv, WorldInv
<1>8. QuietInv'
  BY <1>1 DEF DemoInv, QuietInv
<1>9. UnopenedInv'
  BY <1>1 DEF DemoInv, UnopenedInv, Calm, Busy, Clean, Accepted
<1>10. OpenInv' /\ FinishInv'
  BY <1>5 DEF OpenInv, FinishInv
<1> QED BY <1>5, <1>6, <1>7, <1>8, <1>9, <1>10 DEF DemoInv

\* A step of the compose file, of a client or of a comparison.
LEMMA InvOtherStep ==
  ASSUME DemoInv, Deploy \/ TruncateTable \/ ClientCheck \/ ClientObserve \/ PipelineCompare \/ StepFails
  PROVE  DemoInv'
<1>1. shell.status = "running" /\ \A r \in Run : run[r].pc = "idle"
  BY DEF Deploy, TruncateTable, ClientCheck, ClientObserve, PipelineCompare, StepFails, Doing
<1>2. IsState(platform) /\ failures \in 0..MaxFailures
  BY DEF DemoInv, PipesInv, DriftInv, TypeInv
<1>3. CASE Deploy
  <2>1. Acts(TRUE) /\ Proceed(TRUE, FALSE) /\ failures' = failures
    BY <1>3 DEF Deploy, Acts, Effect
  <2> QED BY <1>1, <1>2, <2>1, WorldStep
<1>4. CASE TruncateTable
  <2>1. Acts(TRUE) /\ Proceed(TRUE, FALSE) /\ failures' = failures
    BY <1>4 DEF TruncateTable, Doing, Acts
  <2> QED BY <1>1, <1>2, <2>1, WorldStep
<1>5. CASE ClientCheck
  <2> DEFINE ended == containers # {} /\ Passes(Current.name)
  <2>1. Acts(ended) /\ Proceed(ended, FALSE) /\ failures' = failures
    BY <1>5 DEF ClientCheck, Acts, Effect
  <2>2. ended \in BOOLEAN
    OBVIOUS
  <2> HIDE DEF ended
  <2> QED BY <1>1, <1>2, <2>1, <2>2, WorldStep
<1>6. CASE ClientObserve
  <2>1. PICK saw \in Views(Current.client) :
          Proceed(containers # {}, Losses(saw) # 0) /\ failures' = failures + Losses(saw)
    BY <1>6 DEF ClientObserve
  <2>2. saw \in Views(Current.client)
    OBVIOUS
  <2>3. Losses(saw) = 0 \/ (Losses(saw) = 1 /\ failures < MaxFailures)
    BY <1>2, <2>2, Missed
  <2>4. failures' \in 0..MaxFailures
    BY <1>2, <2>1, <2>3, MaxFailuresAssumption
  <2> DEFINE ended == containers # {}
             missed == Losses(saw) # 0
  <2>5. Acts(ended) /\ Proceed(ended, missed)
    BY <1>6, <2>1 DEF ClientObserve, Doing, Acts
  <2>6. ended \in BOOLEAN /\ missed \in BOOLEAN
    OBVIOUS
  <2> HIDE DEF ended, missed
  <2> QED BY <1>1, <2>4, <2>5, <2>6, WorldStep
<1>7. CASE PipelineCompare
  <2> DEFINE ended == "checks" \in containers /\ Agree(Current.kind, Current.files)
  <2>1. Acts(ended) /\ Proceed(ended, FALSE) /\ failures' = failures
    BY <1>7 DEF PipelineCompare, Doing, Acts
  <2>2. ended \in BOOLEAN
    OBVIOUS
  <2> HIDE DEF ended
  <2> QED BY <1>1, <1>2, <2>1, <2>2, WorldStep
<1>8. CASE StepFails
  <2>1. Acts(FALSE) /\ Proceed(FALSE, TRUE)
    BY <1>8 DEF StepFails, Acts, Effect
  <2>2. failures' \in 0..MaxFailures
    BY <1>2, <1>8, MaxFailuresAssumption DEF StepFails
  <2> QED BY <1>1, <2>1, <2>2, WorldStep
<1> QED BY <1>3, <1>4, <1>5, <1>6, <1>7, <1>8

LEMMA InvUnchanged == ASSUME DemoInv, UNCHANGED demoVars PROVE DemoInv'
<1>1. PipesInv'
  BY PipesKept DEF demoVars, DemoInv, PipesInv, TypeInv
<1>2. Current' = Current
  BY DEF demoVars, Current
<1>3. ShellInv' /\ WorldInv' /\ QuietInv' /\ OpenInv' /\ FinishInv'
  BY <1>2 DEF demoVars, DemoInv, ShellInv, WorldInv, QuietInv, OpenInv, FinishInv
<1>4. UnopenedInv'
  BY DEF demoVars, DemoInv, UnopenedInv, Calm, Busy, Clean, Accepted
<1> QED BY <1>1, <1>3, <1>4 DEF DemoInv

LEMMA InvDemoInit == DemoInit => DemoInv
<1> SUFFICES ASSUME DemoInit PROVE DemoInv
  OBVIOUS
<1>1. Init
  BY DEF DemoInit
<1>2. PipesInv
  BY <1>1, InvInit, DriftInit, TypeInit, ReportInit, CoherentInit DEF PipesInv
<1>3. ShellInv
  <2>1. None \in Command => Len(Script[None]) \in Nat \ {0}
    BY ScriptFacts
  <2> QED BY <2>1 DEF DemoInit, ShellInv
<1>4. WorldInv
  BY DemoAssumption DEF DemoInit, WorldInv
<1>5. \A r \in Run : run[r].pc = "idle"
  BY <1>1 DEF Init, Fresh
<1>6. QuietInv
  BY <1>5 DEF QuietInv
<1>7. UnopenedInv
  BY <1>1, <1>5 DEF DemoInit, Init, UnopenedInv, Calm, Busy, Clean, Accepted
<1>8. OpenInv /\ FinishInv
  BY DEF DemoInit, OpenInv, FinishInv
<1> QED BY <1>2, <1>3, <1>4, <1>6, <1>7, <1>8 DEF DemoInv

LEMMA DemoHolds == DemoSpec => []DemoInv
<1>1. DemoInv /\ [DemoNext]_demoVars => DemoInv'
  <2> SUFFICES ASSUME DemoInv, [DemoNext]_demoVars PROVE DemoInv'
    OBVIOUS
  <2>1. CASE Over \/ UNCHANGED demoVars
    BY <2>1, InvUnchanged DEF Over
  <2>2. CASE Invoke
    BY <2>2, InvInvoke
  <2>3. CASE BeginRun
    BY <2>3, InvBegin
  <2>4. CASE \E r \in Run : RunStep(r) \/ EndRun(r)
    BY <2>4, InvRunStep, InvEndRun
  <2>5. CASE Deploy \/ TruncateTable \/ ClientCheck \/ ClientObserve \/ PipelineCompare \/ StepFails
    BY <2>5, InvOtherStep
  <2> QED BY <2>1, <2>2, <2>3, <2>4, <2>5 DEF DemoNext, ShellStep
<1> QED BY <1>1, InvDemoInit, PTL DEF DemoSpec

\* The shell stays within the script of its command, the pipelines run only while
\* it waits for one, one at a time, and the ledger has the rows of the two clients
\* that make the transition, whatever fails and wherever a command stops (demo.sh).
THEOREM DemoTypes == DemoSpec => []DemoTypeOK
<1>1. DemoInv => DemoTypeOK
  <2> SUFFICES ASSUME DemoInv PROVE DemoTypeOK
    OBVIOUS
  <2>1. ShellInv /\ WorldInv /\ QuietInv /\ failures \in 0..MaxFailures
    BY DEF DemoInv, PipesInv, TypeInv
  <2>2. shell.command # None => shell.at \in DOMAIN Script[shell.command]
    <3>1. shell.command # None => shell.command \in Command
      BY <2>1 DEF ShellInv
    <3>2. shell.command \in Command => DOMAIN Script[shell.command] = 1..Len(Script[shell.command])
      BY ScriptFacts
    <3> QED BY <2>1, <3>1, <3>2 DEF ShellInv
  <2> QED BY <2>1, <2>2 DEF DemoTypeOK, ShellInv, WorldInv, QuietInv, Rows
<1> QED BY <1>1, DemoHolds, PTL

\* For any value sets and overlays that describe the same resources, and any
\* commands one after the other, each stopped at any step: without the
\* misconfigured profile the platform exposes nothing an allowlist does not name,
\* and nobody outside has performed the admin transition; a demonstration that
\* ended has taken the profile down (demo.sh, Available).
THEOREM OptInTheorem == DemoSpec => []NothingWithoutOptIn
<1>1. DemoInv => NothingWithoutOptIn
  BY MixedReads, MixedConnects DEF DemoInv, UnopenedInv, FinishInv, NothingWithoutOptIn, ExposuresNamed
<1> QED BY <1>1, DemoHolds, PTL

\* A script's runs, one after the other in slots that are used again, keep what a
\* pipeline promises: refusals change nothing, what was applied was approved, the
\* transcripts are true and a quiet drift check is right (demo.sh, Transcript).
THEOREM PipelinesHoldInScripts ==
  DemoSpec => [](RefusalChangesNothing /\ AppliedWasApproved /\ TranscriptIsTrue /\ DriftReportIsSound)
<1>1. DemoInv => RefusalChangesNothing /\ AppliedWasApproved /\ TranscriptIsTrue
  BY GoodRuns, TrueReports DEF DemoInv, PipesInv
<1>2. DemoInv => DriftReportIsSound
  BY DEF DemoInv, PipesInv, DriftInv, Checked, DriftReportIsSound
<1> QED BY <1>1, <1>2, DemoHolds, PTL

-----------------------------------------------------------------------------
(* What the scenarios come to, one run at a time.                          *)

\* What the table says of a scenario beside what it expects: which of its flags
\* go together.
Consistent(s) ==
  /\ s.expect \in {"applied", "applied-out-of-band", "refused"}
  /\ s.expect = "refused" =>
       s.gated /\ ~s.advisory /\ ~s.outOfBand /\ ~s.drift /\ ~s.skipApply /\ ~s.skipRemote
  /\ s.expect = "applied-out-of-band" =>
       /\ s.gated /\ s.outOfBand /\ ~s.advisory /\ ~s.drift /\ ~s.skipRemote
       /\ s.manifest = "" /\ s.artifact = "" /\ ~s.breakEngine
  /\ s.expect = "applied" =>
       s.binding = "honest" /\ s.artifact = "" /\ ~s.outOfBand /\ ~s.breakEngine
  /\ s.binding # "honest" => s.artifact = "" /\ s.manifest = ""
  /\ s.binding \in {"honest", "unapproved", "stale", "modified"}
  /\ s.manifest # "" => ~s.advisory /\ (s.gated \/ s.scan)
  /\ s.advisory => s.gated
  /\ s.drift => s.gated /\ ~s.advisory /\ s.manifest = ""
  /\ s.skipApply \/ s.skipRemote =>
       s.skipApply /\ s.skipRemote /\ ~s.gated /\ ~s.scan /\ ~s.denylist /\ s.manifest = ""
  /\ s.gated => ~s.scan /\ ~s.denylist

LEMMA TableIsConsistent == \A id \in ScenarioId : Consistent(Scenarios[id])
<1> SUFFICES ASSUME NEW id \in ScenarioId PROVE Consistent(Scenarios[id])
  OBVIOUS
<1>1. CASE id = "offline-init"
  BY <1>1 DEF ScenarioId, Scenarios, Base, Consistent
<1>2. CASE id = "secure-apply"
  BY <1>2 DEF ScenarioId, Scenarios, Gated, Base, Consistent
<1>3. CASE id = "refuse-anonymous-export"
  BY <1>3 DEF ScenarioId, Scenarios, Evaluating, Refused, Gated, Base, Consistent
<1>4. CASE id = "refuse-unrestricted-admin"
  BY <1>4 DEF ScenarioId, Scenarios, Evaluating, Refused, Gated, Base, Consistent
<1>5. CASE id = "fail-closed-unparsable"
  BY <1>5 DEF ScenarioId, Scenarios, Evaluating, Refused, Gated, Base, Consistent
<1>6. CASE id = "fail-closed-unknown-type"
  BY <1>6 DEF ScenarioId, Scenarios, Evaluating, Refused, Gated, Base, Consistent
<1>7. CASE id = "fail-closed-unrecognized-field"
  BY <1>7 DEF ScenarioId, Scenarios, Evaluating, Refused, Gated, Base, Consistent
<1>8. CASE id = "fail-closed-engine-error"
  BY <1>8 DEF ScenarioId, Scenarios, Refused, Gated, Base, Consistent
<1>9. CASE id = "binding-unapproved-plan"
  BY <1>9 DEF ScenarioId, Scenarios, Refused, Gated, Base, Consistent
<1>10. CASE id = "binding-modified-plan"
  BY <1>10 DEF ScenarioId, Scenarios, Refused, Gated, Base, Consistent
<1>11. CASE id = "binding-stale-approval"
  BY <1>11 DEF ScenarioId, Scenarios, Refused, Gated, Base, Consistent
<1>12. CASE id = "reviewed-exposure-unapproved"
  BY <1>12 DEF ScenarioId, Scenarios, Refused, Gated, Base, Consistent
<1>13. CASE id = "reviewed-exposure"
  BY <1>13 DEF ScenarioId, Scenarios, Gated, Base, Consistent
<1>14. CASE id = "routine-change"
  BY <1>14 DEF ScenarioId, Scenarios, Gated, Base, Consistent
<1>15. CASE id = "vulnerable-gated"
  BY <1>15 DEF ScenarioId, Scenarios, Refused, Gated, Base, Consistent
<1>16. CASE id = "vulnerable-ungated"
  BY <1>16 DEF ScenarioId, Scenarios, Vulnerable, Base, Consistent
<1>17. CASE id = "half-fix-source-scan"
  BY <1>17 DEF ScenarioId, Scenarios, Vulnerable, Base, Consistent
<1>18. CASE id = "half-fix-report-only"
  BY <1>18 DEF ScenarioId, Scenarios, Vulnerable, Base, Consistent
<1>19. CASE id = "manifest-intended"
  BY <1>19 DEF ScenarioId, Scenarios, Gated, Base, Consistent
<1>20. CASE id = "manifest-exposed"
  BY <1>20 DEF ScenarioId, Scenarios, Refused, Gated, Base, Consistent
<1>21. CASE id = "manifest-exposed-ungated"
  BY <1>21 DEF ScenarioId, Scenarios, Vulnerable, Base, Consistent
<1>22. CASE id = "half-fix-denylist"
  BY <1>22 DEF ScenarioId, Scenarios, Vulnerable, Base, Consistent
<1>23. CASE id = "half-fix-review-path-only"
  BY <1>23 DEF ScenarioId, Scenarios, Vulnerable, Base, Consistent
<1>24. CASE id = "half-fix-drift"
  BY <1>24 DEF ScenarioId, Scenarios, Vulnerable, Base, Consistent
<1> QED
  BY <1>1, <1>2, <1>3, <1>4, <1>5, <1>6, <1>7, <1>8, <1>9, <1>10, <1>11, <1>12,
     <1>13, <1>14, <1>15, <1>16, <1>17, <1>18, <1>19, <1>20, <1>21, <1>22, <1>23, <1>24 DEF ScenarioId

\* What a decision on a scenario's configuration can be: the policy's, unless the
\* engine failed.
LEMMA VerdictFacts ==
  ASSUME NEW id \in ScenarioId, NEW d \in DecisionsOf(Scenarios[id])
  PROVE  /\ d # None
         /\ id \notin Admissible => Denied(d)
         /\ id \in Admissible /\ Denied(d) => d.class = "policy_engine_error"
         /\ Scenarios[id].breakEngine => Denied(d)
         /\ Evaluated(Scenarios[id]) # Unparsable /\ Denied(d) =>
              \/ d.class = "policy_engine_error"
              \/ d.findings = FindingsOf(Evaluated(Scenarios[id]), AllowlistOf[Scenarios[id].allowlist])
<1> DEFINE s == Scenarios[id]
           graph == Evaluated(s)
           allowlist == AllowlistOf[s.allowlist]
           found == FindingsOf(graph, allowlist)
           evaluated == Answer(IF found = {} THEN "admit" ELSE "deny", "evaluated", found)
<1>1. d # None
  BY EvaluationsTyped, NoneAssumption DEF DecisionsOf
<1>2. \/ graph = Unparsable /\ d = Answer("deny", "unparsable_artifact", {})
      \/ graph # Unparsable /\ d = EngineError
      \/ graph # Unparsable /\ ~s.breakEngine /\ d = evaluated
  BY DEF DecisionsOf, Evaluations
<1>3. id \notin Admissible => Denied(d)
  BY NotDenied DEF DecisionsOf, Admissible
<1>4. EngineError.result = "deny" /\ EngineError.class = "policy_engine_error"
      /\ Answer("deny", "unparsable_artifact", {}).result = "deny"
      /\ evaluated.result = (IF found = {} THEN "admit" ELSE "deny") /\ evaluated.findings = found
  BY DEF EngineError, Answer
<1>5. ASSUME id \in Admissible PROVE found = {}
  <2>1. Violations(graph, allowlist) = {}
    BY <1>5 DEF Admissible, Admits
  <2>2. Uncovered(graph.st, allowlist) = {}
    BY <2>1 DEF Violations, ViolationClass
  <2> QED BY <2>1, <2>2 DEF FindingsOf
<1>6. id \in Admissible => graph # Unparsable
  BY DEF Admissible
<1> HIDE DEF graph, allowlist, found, evaluated, s
<1>7. id \in Admissible /\ Denied(d) => d.class = "policy_engine_error"
  BY <1>2, <1>4, <1>5, <1>6 DEF Denied
<1>8. s.breakEngine => Denied(d)
  BY <1>1, <1>2, <1>4 DEF Denied
<1>9. graph # Unparsable /\ Denied(d) => d.class = "policy_engine_error" \/ d.findings = found
  BY <1>2, <1>4
<1> QED BY <1>1, <1>3, <1>7, <1>8, <1>9 DEF s, graph, allowlist, found

\* Every broken binding is refused, and an honest one of a plan is not.
LEMMA BindingFacts ==
  ASSUME NEW id \in ScenarioId, NEW file, file = [plan |-> Scenarios[id].var, appended |-> FALSE]
  PROVE  Scenarios[id].binding = "honest" <=>
           VerifyApproval(id, Rehearsed(id, file).file, Rehearsed(id, file).approval) = ""
<1> DEFINE binding == Scenarios[id].binding
           written == Rehearsed(id, file).approval
           left == Rehearsed(id, file).file
           class == VerifyApproval(id, left, written)
<1>1. file \in File
  BY DEF File
<1>2. file # None /\ Approval(id, file) # None
  BY <1>1, AbsenceAssumption
<1>3. Approval(id, file).plan = file /\ Approval(id, file).run = RunID(id, file)
  BY DEF Approval
<1>4. binding \in {"honest", "unapproved", "stale", "modified"}
  BY ScenarioFacts
<1>5. class = "" <=> /\ left # None /\ written # None
                     /\ written.plan = left /\ written.run = RunID(id, left)
  BY Zenon DEF VerifyApproval
<1>6. /\ binding = "honest" => written = Approval(id, file) /\ left = file
      /\ binding = "unapproved" => written = None
      /\ binding = "stale" => written = [Approval(id, file) EXCEPT !.run = RunID("some-other-run", file)]
                              /\ left = file
      /\ binding = "modified" => written = Approval(id, file) /\ left = [file EXCEPT !.appended = TRUE]
  BY DEF Rehearsed
<1> HIDE DEF written, left, class
<1>7. ASSUME binding = "honest" PROVE class = ""
  BY <1>2, <1>3, <1>5, <1>6, <1>7
<1>8. ASSUME binding = "unapproved" PROVE class # ""
  BY <1>5, <1>6, <1>8
<1>9. ASSUME binding = "stale" PROVE class # ""
  <2>1. written.run = RunID("some-other-run", file) /\ left = file
    BY <1>6, <1>9 DEF Approval
  <2>2. id # "some-other-run"
    BY DEF ScenarioId
  <2>3. RunID("some-other-run", file) # RunID(id, file)
    BY <2>2 DEF RunID
  <2> QED BY <1>5, <1>9, <2>1, <2>3
<1>10. ASSUME binding = "modified" PROVE class # ""
  <2>1. left.appended = TRUE /\ file.appended = FALSE
    BY <1>6, <1>10
  <2> QED BY <1>3, <1>5, <1>6, <1>10, <2>1
<1> QED BY <1>4, <1>7, <1>8, <1>9, <1>10 DEF written, left, class

-----------------------------------------------------------------------------
\* The slot of the grant that half-fix-drift puts past the pipeline.
Console == GrantSlot(ConsoleGrant)

\* Why a scenario may miss its outcome: its engine failed though it was not broken
\* on purpose, or the grant that is going to drift in is there already.
Excused(t) ==
  \/ \E d \in {t.decision, t.would} :
       d # None /\ d.class = "policy_engine_error" /\ ~Scenarios[t.job].breakEngine
  \/ Scenarios[t.job].drift /\ t.before[Console] # None

\* The run was told what its configuration calls for.
Grounded(t) ==
  LET s == Scenarios[t.job] IN
    /\ s.scan \/ s.denylist => Denied(t.would)
    /\ s.advisory => t.advisory /\ Denied(t.decision) /\ Cardinality(t.decision.findings) >= 2
    /\ s.gated /\ ~s.advisory => t.decision # None /\ ~Denied(t.decision)

\* A run that is to be refused never applies, and finds the platform as it was.
Refusing(t, st) ==
  LET s == Scenarios[t.job] IN
    /\ t.pc \in {"resolve", "bind", "after", "end"}
    /\ t.pc # "end" => t.before = st
    /\ t.pc = "bind" => s.binding # "honest" /\ t.file = [plan |-> s.var, appended |-> FALSE]
    /\ t.pc = "after" => AuditedOnce(t)
    /\ t.pc = "end" => t.error \/ t.passed

\* A run that is to go on out of band is refused by the policy before it does.
Continuing(t) ==
  /\ t.pc \in {"resolve", "apply", "after", "end"}
  /\ t.pc \in {"apply", "after"} => AuditedOnce(t) /\ Denied(t.decision)
  /\ t.pc = "after" => t.outOfBand /\ t.applied
  /\ t.pc = "end" => t.error \/ t.passed

\* Where the drifting grant is, and what the run has read of it.
Drifting(t, st) ==
  LET s == Scenarios[t.job] IN
    /\ t.pc \in {"resolve", "bind", "apply", "after"} =>
         st[Console] = None /\ \A slot \in t.wrote : st[slot] = Evaluated(s).st[slot]
    /\ t.pc \in {"mutate", "mutated", "drift", "digest"} =>
         t.appliedState[Console] = None /\ st[BucketSlot(ExportBucket)] # None
    /\ t.pc \in {"mutated", "drift", "digest"} => st[Console] = DriftGrant
    /\ t.pc \in {"drift", "digest"} => t.after[Console] = DriftGrant
    /\ t.pc = "digest" => t.live = st

\* A run that is to apply goes on for a reason it may pass on.
Applying(t, st) ==
  LET s == Scenarios[t.job] IN
    /\ t.pc \notin {"resolve", "end"} => Grounded(t) \/ Excused(t)
    /\ t.pc = "bind" => t.file = [plan |-> s.var, appended |-> FALSE]
    /\ t.pc = "after" /\ ~Unaudited(t) => Excused(t)
    /\ t.pc \in {"mutate", "mutated", "drift", "digest"} => s.drift
    /\ t.pc = "end" => t.error \/ t.passed \/ Excused(t)
    /\ s.drift /\ t.before[Console] = None => Drifting(t, st)

OnCourse(t, st) ==
  LET s == Scenarios[t.job] IN
    /\ s.expect = "refused" => Refusing(t, st)
    /\ s.expect = "applied-out-of-band" => Continuing(t)
    /\ s.expect = "applied" => Applying(t, st)

\* The inductive invariant, beside those of PipelineProofs.
OutcomeInv ==
  \A r \in Run : run[r].job \in ScenarioId /\ run[r].pc # "idle" => OnCourse(run[r], platform)

\* A run that is over has failed, met its outcome, or has an excuse.
LEMMA EndedOnCourse ==
  ASSUME NEW t, NEW st, t.job \in ScenarioId, t.pc = "end",
         \/ t.error \/ t.passed
         \/ Scenarios[t.job].expect = "applied" /\ Excused(t)
  PROVE  OnCourse(t, st)
BY DEF OnCourse, Refusing, Continuing, Applying, Drifting

\* What excuses and grounds rest on.
SameGrounds(t, u) ==
  /\ u.job = t.job /\ u.decision = t.decision /\ u.would = t.would
  /\ u.advisory = t.advisory /\ u.before = t.before

LEMMA GroundsFrame ==
  ASSUME NEW t, NEW u, SameGrounds(t, u)
  PROVE  (Grounded(t) <=> Grounded(u)) /\ (Excused(t) <=> Excused(u))
BY DEF SameGrounds, Grounded, Excused

LEMMA Concluded ==
  ASSUME NEW t, DOMAIN t = Fields, t.job \in ScenarioId
  PROVE  LET u == Conclude(Scenarios[t.job], t)
         IN /\ u.pc = "end" /\ u.passed = Meets(Scenarios[t.job], t) /\ u.error = t.error
            /\ u.job = t.job /\ SameGrounds(t, u)
BY DEF Conclude, Fields, SameGrounds

LEMMA ConcludedOnCourse ==
  ASSUME NEW t, NEW st, DOMAIN t = Fields, t.job \in ScenarioId,
         \/ Meets(Scenarios[t.job], t)
         \/ Scenarios[t.job].expect = "applied" /\ Excused(t)
  PROVE  OnCourse(Conclude(Scenarios[t.job], t), st)
<1> DEFINE u == Conclude(Scenarios[t.job], t)
<1>1. /\ u.pc = "end" /\ u.passed = Meets(Scenarios[t.job], t) /\ u.job = t.job /\ SameGrounds(t, u)
  BY Concluded
<1>2. Excused(t) => Excused(u)
  BY <1>1, GroundsFrame
<1> HIDE DEF u
<1>3. OnCourse(u, st)
  BY <1>1, <1>2, EndedOnCourse
<1> QED BY <1>3 DEF u

-----------------------------------------------------------------------------
\* When assert is satisfied.
LEMMA RefusedMeets ==
  ASSUME NEW t, t.job \in ScenarioId, Scenarios[t.job].expect = "refused",
         t.result = "DEPLOY_REFUSED", ~t.applied, AuditedOnce(t), t.before = t.after
  PROVE  Meets(Scenarios[t.job], t)
<1>1. Len(t.audit) = 1
  BY DEF AuditedOnce
<1> QED BY <1>1 DEF Meets

LEMMA ContinuedMeets ==
  ASSUME NEW t, t.job \in ScenarioId, Scenarios[t.job].expect = "applied-out-of-band",
         t.result = "DEPLOY_REFUSED", t.applied, t.outOfBand, AuditedOnce(t), Denied(t.decision)
  PROVE  Meets(Scenarios[t.job], t)
<1>1. Len(t.audit) = 1
  BY DEF AuditedOnce
<1> QED BY <1>1 DEF Meets

LEMMA AppliedMeets ==
  ASSUME NEW t, t.job \in ScenarioId, Scenarios[t.job].expect = "applied",
         t.result = "DEPLOYED", Grounded(t),
         Scenarios[t.job].drift => t.drift # None /\ t.drift.detected /\ t.appliedState # t.after
  PROVE  Meets(Scenarios[t.job], t)
<1> DEFINE s == Scenarios[t.job]
<1>1. Consistent(s)
  BY TableIsConsistent
<1>2. s.denylist => DenylistFindings(Evaluated(s).st) = {}
  BY ShownAssumption
<1>3. /\ s.scan \/ s.denylist => Denied(t.would)
      /\ s.advisory => t.advisory /\ Denied(t.decision) /\ Cardinality(t.decision.findings) >= 2
      /\ s.gated /\ ~s.advisory => t.decision # None /\ ~Denied(t.decision)
  BY DEF Grounded
<1> HIDE DEF s
<1>4. /\ s.drift => s.gated /\ ~s.advisory
      /\ s.manifest # "" /\ ~s.scan => s.gated /\ ~s.advisory
      /\ s.expect = "applied"
  BY <1>1 DEF Consistent, s
<1>5. s.drift => t.drift # None /\ t.drift.detected /\ t.appliedState # t.after
  BY DEF s
<1>6. Meets(s, t)
  BY <1>2, <1>3, <1>4, <1>5 DEF Meets
<1> QED BY <1>6 DEF s

-----------------------------------------------------------------------------
\* finish keeps a run on its course, whatever it is called with.
LEMMA FinishOnCourse ==
  ASSUME NEW t, NEW st, DOMAIN t = Fields, t.job \in ScenarioId, Pending(t),
         Unaudited(t) \/ AuditedOnce(t),
         Scenarios[t.job].expect = "refused" => AuditedOnce(t) /\ t.before = st,
         Scenarios[t.job].expect = "applied-out-of-band" => AuditedOnce(t) /\ Denied(t.decision),
         Scenarios[t.job].expect = "applied" =>
           /\ Grounded(t) \/ Excused(t)
           /\ ~Unaudited(t) => Excused(t)
           /\ Scenarios[t.job].drift /\ t.before[Console] = None => st[Console] = None
  PROVE  LET u == Finish(Scenarios[t.job], t) IN u.job = t.job /\ OnCourse(u, st)
<1> DEFINE s == Scenarios[t.job]
           u == Finish(s, t)
           toApply == [t EXCEPT !.pc = "apply", !.todo = Declared(s)]
           reported == IF t.audit # <<>> THEN t ELSE [t EXCEPT !.result = "DEPLOYED"]
           toAfter == [reported EXCEPT !.pc = "after"]
<1>0. /\ s.expect \in {"applied", "applied-out-of-band", "refused"}
      /\ s.expect = "refused" => ~s.outOfBand /\ ~s.skipRemote
      /\ s.expect = "applied-out-of-band" => s.outOfBand
      /\ s.expect = "applied" => ~s.outOfBand
      /\ s.skipApply => s.skipRemote /\ ~s.gated
      /\ s.drift => s.gated
  BY TableIsConsistent DEF Consistent
<1>x. AuditedOnce(t) => t.audit # <<>>
  BY AuditedIsNoBlank DEF Unaudited
<1>1. CASE t.audit = <<>> /\ s.artifact # ""
  <2>1. u = Failed(t)
    BY <1>1 DEF Finish
  <2>2. Failed(t).pc = "end" /\ Failed(t).error /\ Failed(t).job = t.job
    BY DEF Failed, Fields
  <2> QED BY <2>1, <2>2, EndedOnCourse
<1>2. CASE /\ ~(t.audit = <<>> /\ s.artifact # "")
           /\ IF t.audit # <<>> THEN s.outOfBand ELSE ~s.skipApply
  <2>1. u = toApply
    BY <1>2 DEF Finish
  <2>2. /\ toApply.pc = "apply" /\ toApply.job = t.job /\ toApply.audit = t.audit
        /\ toApply.wrote = {} /\ SameGrounds(t, toApply)
    BY DEF Fields, Pending, Untouched, SameGrounds
  <2> HIDE DEF toApply
  <2>3. s.expect # "refused"
    BY <1>0, <1>x, <1>2
  <2>4. s.expect = "applied-out-of-band" => Continuing(toApply)
    BY <2>2 DEF Continuing, SameGrounds, AuditedOnce
  <2>5. s.expect = "applied" => Applying(toApply, st)
    BY <2>2, GroundsFrame DEF Applying, Drifting, SameGrounds
  <2>6. OnCourse(toApply, st)
    BY <2>2, <2>3, <2>4, <2>5 DEF OnCourse
  <2> QED BY <2>1, <2>2, <2>6
<1>3. CASE /\ ~(t.audit = <<>> /\ s.artifact # "")
           /\ ~IF t.audit # <<>> THEN s.outOfBand ELSE ~s.skipApply
  <2>1. u = IF s.skipRemote THEN Conclude(s, reported) ELSE toAfter
    BY <1>3 DEF Finish
  <2>2. /\ DOMAIN reported = Fields /\ reported.job = t.job /\ reported.wrote = {}
        /\ reported.audit = t.audit /\ SameGrounds(t, reported)
        /\ Unaudited(t) => reported.result = "DEPLOYED"
    BY DEF Fields, Pending, Untouched, Unaudited, SameGrounds
  <2> HIDE DEF reported
  <2>3. /\ toAfter.job = t.job /\ toAfter.pc = "after" /\ toAfter.wrote = {}
        /\ toAfter.audit = t.audit /\ SameGrounds(t, toAfter)
    BY <2>2 DEF Fields, SameGrounds
  <2> HIDE DEF toAfter
  <2>4. CASE s.skipRemote
    <3>1. s.expect = "applied"
      BY <1>0, <1>x, <1>3, <2>4
    <3>2. Excused(t) \/ (Unaudited(t) /\ Grounded(t))
      BY <3>1
    <3>3. Excused(reported) \/ (reported.result = "DEPLOYED" /\ Grounded(reported))
      BY <2>2, <3>2, GroundsFrame
    <3>4. ~s.drift
      BY <2>4, TableIsConsistent DEF Consistent
    <3>5. Meets(s, reported) \/ Excused(reported)
      BY <2>2, <3>1, <3>3, <3>4, AppliedMeets
    <3>6. OnCourse(Conclude(s, reported), st) /\ Conclude(s, reported).job = t.job
      BY <2>2, <3>1, <3>5, ConcludedOnCourse, Concluded
    <3> QED BY <2>1, <2>4, <3>6
  <2>5. CASE ~s.skipRemote
    <3>1. ~Unaudited(t)
      BY <1>0, <1>3, <2>5 DEF Unaudited
    <3>2. s.expect = "refused" => Refusing(toAfter, st)
      BY <2>3 DEF Refusing, SameGrounds, AuditedOnce
    <3>3. s.expect # "applied-out-of-band"
      BY <1>0, <1>x, <1>3
    <3>4. s.expect = "applied" => Applying(toAfter, st)
      BY <2>3, <3>1, GroundsFrame DEF Applying, Drifting, SameGrounds
    <3>5. OnCourse(toAfter, st)
      BY <2>3, <3>2, <3>3, <3>4 DEF OnCourse
    <3> QED BY <2>1, <2>3, <2>5, <3>5
  <2> QED BY <2>4, <2>5
<1> QED BY <1>1, <1>2, <1>3

-----------------------------------------------------------------------------
(* Steps.                                                                  *)

LEMMA OutcomeStep ==
  ASSUME RunInv, NEW r \in Run, Alone(r), NEW t, Becomes(r, t),
         t.job \in ScenarioId => OnCourse(t, platform')
  PROVE  OutcomeInv'
<1>1. run'[r] = t /\ \A q \in Run \ {r} : run'[q] = run[q]
  BY DEF Becomes, RunInv
<1>2. \A q \in Run \ {r} : run'[q].pc = "idle"
  BY <1>1 DEF Alone
<1>3. \A q \in Run : run'[q].job \in ScenarioId /\ run'[q].pc # "idle" => OnCourse(run'[q], platform')
  BY <1>1, <1>2
<1>4. \A q \in Run : (run[q].job \in ScenarioId /\ run[q].pc # "idle" => OnCourse(run[q], platform))'
  BY <1>3 DEF OnCourse, Refusing, Continuing, Applying, Drifting, Grounded, Excused, AuditedOnce, Unaudited
<1> QED BY <1>4 DEF OutcomeInv

LEMMA OutcomeInit == Init => OutcomeInv
BY DEF Init, OutcomeInv, Fresh

\* A scenario begins: it finds the platform as it was before it.
LEMMA OutcomeStart ==
  ASSUME RunInv, NEW r \in Run, Alone(r), NEW job, Start(r, job)
  PROVE  OutcomeInv'
<1> DEFINE s == Scenarios[job]
           begun == IF s.skipRemote THEN Fresh(job)
                    ELSE [Fresh(job) EXCEPT !.before = platform, !.after = platform]
           t == IF Available(s, Env[r]) THEN begun ELSE Failed(Fresh(job))
<1>1. Becomes(r, t) /\ platform' = platform /\ job \in ScenarioId
  BY DEF Start
<1>2. t.job = job
  BY DEF Fresh, Failed
<1>3. CASE Available(s, Env[r])
  <2>1. /\ t.pc = "resolve" /\ t.wrote = {}
        /\ ~s.skipRemote => t.before = platform
    BY <1>3 DEF Fresh
  <2>2. /\ s.expect = "refused" => ~s.skipRemote
        /\ s.drift => ~s.skipRemote
    BY <1>1, TableIsConsistent DEF Consistent
  <2> HIDE DEF t
  <2>3. OnCourse(t, platform')
    BY <1>1, <1>2, <2>1, <2>2 DEF OnCourse, Refusing, Continuing, Applying, Drifting
  <2> QED BY <1>1, <2>3, OutcomeStep
<1>4. CASE ~Available(s, Env[r])
  <2>1. t.pc = "end" /\ t.error
    BY <1>4 DEF Failed, Fresh
  <2> HIDE DEF t
  <2> QED BY <1>1, <1>2, <2>1, EndedOnCourse, OutcomeStep
<1> QED BY <1>3, <1>4

\* The decision on a manifest set.
LEMMA OutcomeEvaluateManifest ==
  ASSUME RunInv, ReportInv, OutcomeInv,
         NEW r \in Run, Alone(r), run[r].job \in ScenarioId, EvaluateManifest(r)
  PROVE  OutcomeInv'
<1> DEFINE id == run[r].job
           s == Scenarios[id]
           t0 == run[r]
<1>1. PICK d \in DecisionsOf(s) :
        LET t == IF s.gated THEN [t0 EXCEPT !.decision = d] ELSE [t0 EXCEPT !.would = d]
        IN Becomes(r, IF s.gated /\ Denied(d)
                      THEN [Refuse(t, "policy", d.class) EXCEPT !.pc = "after"]
                      ELSE [t EXCEPT !.pc = "apply", !.todo = Declared(s)])
  BY DEF EvaluateManifest, ScenarioOf
<1> DEFINE t == IF s.gated THEN [t0 EXCEPT !.decision = d] ELSE [t0 EXCEPT !.would = d]
           refused == Refuse(t, "policy", d.class)
           toAfter == [refused EXCEPT !.pc = "after"]
           toApply == [t EXCEPT !.pc = "apply", !.todo = Declared(s)]
<1>2. /\ DOMAIN t0 = Fields /\ Pending(t0) /\ Unaudited(t0) /\ OnCourse(t0, platform)
      /\ t0.pc = "resolve" /\ s.manifest # "" /\ platform' = platform
  BY DEF RunInv, ReportInv, OutcomeInv, Faithful, EvaluateManifest, At, ScenarioOf
<1>3. /\ DOMAIN t = Fields /\ t.job = id /\ Pending(t) /\ Unaudited(t) /\ t.before = t0.before
      /\ s.gated => t.decision = d
      /\ ~s.gated => t.would = d
  BY <1>2 DEF Fields, Pending, Untouched, Unaudited
<1>4. /\ d # None
      /\ id \notin Admissible => Denied(d)
      /\ id \in Admissible /\ Denied(d) => d.class = "policy_engine_error"
      /\ s.breakEngine => Denied(d)
  BY VerdictFacts
<1>5. /\ s.expect \in {"applied", "refused"}
      /\ s.expect = "refused" => s.gated /\ s.binding = "honest"
      /\ s.expect = "applied" => ~s.breakEngine
      /\ ~s.advisory /\ ~s.drift
      /\ s.gated => ~s.scan /\ ~s.denylist
  BY <1>2, TableIsConsistent DEF Consistent
<1>6. /\ s.expect = "applied" /\ s.gated => id \in Admissible
      /\ s.scan \/ s.denylist => id \notin Admissible
      /\ s.expect = "refused" /\ ~s.breakEngine => id \notin Admissible
  BY <1>5, ShownAssumption
<1>7. CASE s.gated /\ Denied(d)
  <2> HIDE DEF t
  <2>1. DOMAIN refused = Fields /\ AuditedOnce(refused) /\ refused.job = id
    BY <1>3, RefuseOnce
  <2>2. refused.before = t0.before /\ refused.decision = d
    BY <1>3, <1>7 DEF Refuse, Fields
  <2> HIDE DEF refused
  <2>3. /\ toAfter.pc = "after" /\ toAfter.job = id /\ toAfter.before = t0.before /\ toAfter.decision = d
        /\ AuditedOnce(toAfter)
    BY <2>1, <2>2 DEF Fields, AuditedOnce
  <2>4. Becomes(r, toAfter)
    BY <1>1, <1>7 DEF refused, t
  <2> HIDE DEF toAfter
  <2>5. s.expect = "applied" => Excused(toAfter)
    BY <1>4, <1>5, <1>6, <1>7, <2>3 DEF Excused
  <2>6. s.expect = "refused" => Refusing(toAfter, platform)
    BY <1>2, <2>3 DEF OnCourse, Refusing
  <2>7. OnCourse(toAfter, platform')
    BY <1>2, <1>5, <2>3, <2>5, <2>6 DEF OnCourse, Applying
  <2> QED BY <2>4, <2>7, OutcomeStep
<1>8. CASE ~(s.gated /\ Denied(d))
  <2>1. Becomes(r, toApply)
    BY <1>1, <1>8
  <2> HIDE DEF t
  <2>2. /\ toApply.pc = "apply" /\ toApply.job = id
        /\ s.gated => toApply.decision = d
        /\ ~s.gated => toApply.would = d
    BY <1>3 DEF Fields
  <2> HIDE DEF toApply
  <2>3. s.expect = "applied"
    BY <1>4, <1>5, <1>6, <1>8
  <2>4. Grounded(toApply)
    BY <1>4, <1>5, <1>6, <1>8, <2>2 DEF Grounded
  <2>5. OnCourse(toApply, platform')
    BY <1>5, <2>2, <2>3, <2>4 DEF OnCourse, Applying
  <2> QED BY <2>1, <2>5, OutcomeStep
<1> QED BY <1>7, <1>8

\* The decision on a plan or an artifact.
LEMMA OutcomeEvaluate ==
  ASSUME RunInv, ReportInv, OutcomeInv,
         NEW r \in Run, Alone(r), run[r].job \in ScenarioId, Evaluate(r)
  PROVE  OutcomeInv'
<1> DEFINE id == run[r].job
           s == Scenarios[id]
           t0 == run[r]
           file == IF s.artifact # "" THEN None ELSE [plan |-> s.var, appended |-> FALSE]
           t == [t0 EXCEPT !.file = file]
<1>1. PICK d \in DecisionsOf(s) : Becomes(r, Judged(s, t, d))
  BY DEF Evaluate, ScenarioOf
<1>2. /\ DOMAIN t0 = Fields /\ Pending(t0) /\ Unaudited(t0) /\ OnCourse(t0, platform)
      /\ t0.pc = "resolve" /\ s.manifest = "" /\ platform' = platform
  BY DEF RunInv, ReportInv, OutcomeInv, Faithful, Evaluate, At, ScenarioOf
<1>3. /\ DOMAIN t = Fields /\ t.job = id /\ Pending(t) /\ Unaudited(t) /\ t.before = t0.before
      /\ t.file = file
  BY <1>2 DEF Fields, Pending, Untouched, Unaudited
<1> HIDE DEF t
<1>4. /\ d # None
      /\ id \notin Admissible => Denied(d)
      /\ id \in Admissible /\ Denied(d) => d.class = "policy_engine_error"
      /\ s.breakEngine => Denied(d)
      /\ Evaluated(s) # Unparsable /\ Denied(d) =>
           \/ d.class = "policy_engine_error"
           \/ d.findings = FindingsOf(Evaluated(s), AllowlistOf[s.allowlist])
  BY VerdictFacts
<1>5. Consistent(s)
  BY TableIsConsistent
<1>6. /\ s.expect = "applied" /\ s.gated /\ ~s.advisory => id \in Admissible
      /\ s.scan \/ s.denylist \/ s.advisory \/ s.outOfBand => id \notin Admissible
      /\ s.expect = "refused" /\ s.binding = "honest" /\ ~s.breakEngine => id \notin Admissible
      /\ s.advisory => /\ Evaluated(s) # Unparsable
                       /\ Cardinality(FindingsOf(Evaluated(s), AllowlistOf[s.allowlist])) >= 2
  BY ShownAssumption
\* Where the run stands on the platform.
<1>7. /\ s.expect = "refused" => t.before = platform
      /\ s.expect = "applied" /\ s.drift /\ t.before[Console] = None => platform[Console] = None
  BY <1>2, <1>3 DEF OnCourse, Refusing, Applying, Drifting
<1>8. CASE ~s.gated \/ s.scan \/ s.denylist
  <2> DEFINE u == [t EXCEPT !.would = d]
  <2>1. Judged(s, t, d) = Finish(s, u)
    BY <1>8 DEF Judged
  <2>2. DOMAIN u = Fields /\ u.job = id /\ Pending(u) /\ Unaudited(u) /\ u.would = d /\ u.before = t.before
    BY <1>3 DEF Fields, Pending, Untouched, Unaudited
  <2> HIDE DEF u
  <2>3. s.expect = "applied" /\ ~s.gated /\ ~s.advisory
    BY <1>5, <1>8 DEF Consistent
  <2>4. Grounded(u)
    BY <1>4, <1>6, <2>2, <2>3 DEF Grounded
  <2>5. OnCourse(Finish(s, u), platform')
    BY <1>2, <1>7, <2>2, <2>3, <2>4, FinishOnCourse
  <2> QED BY <1>1, <2>1, <2>5, OutcomeStep
<1>9. CASE ~(~s.gated \/ s.scan \/ s.denylist) /\ Denied(d) /\ ~s.advisory
  <2> DEFINE v == [t EXCEPT !.decision = d]
             u == Refuse(v, "policy", d.class)
  <2>1. Judged(s, t, d) = Finish(s, u)
    BY <1>9 DEF Judged
  <2>2. DOMAIN v = Fields /\ v.job = id /\ Pending(v) /\ Unaudited(v) /\ v.decision = d /\ v.before = t.before
    BY <1>3 DEF Fields, Pending, Untouched, Unaudited
  <2> HIDE DEF v
  <2>3. DOMAIN u = Fields /\ u.job = id /\ Pending(u) /\ AuditedOnce(u)
    BY <2>2, RefuseOnce
  <2>4. u.decision = d /\ u.before = t.before
    BY <2>2 DEF Refuse, Fields
  <2> HIDE DEF u
  <2>5. s.expect = "applied" => Excused(u)
    BY <1>4, <1>5, <1>6, <1>9, <2>3, <2>4 DEF Excused, Consistent
  <2>6. OnCourse(Finish(s, u), platform')
    BY <1>2, <1>7, <1>9, <2>3, <2>4, <2>5, FinishOnCourse
  <2> QED BY <1>1, <2>1, <2>6, OutcomeStep
<1>10. CASE ~(~s.gated \/ s.scan \/ s.denylist) /\ ~(Denied(d) /\ ~s.advisory)
  <2> DEFINE u == [t EXCEPT !.decision = d, !.advisory = Denied(d), !.pc = "bind"]
  <2>1. Judged(s, t, d) = u
    BY <1>10 DEF Judged
  <2>2. /\ u.job = id /\ u.pc = "bind" /\ u.decision = d /\ u.advisory = Denied(d)
        /\ u.before = t.before /\ u.file = file /\ u.wrote = {}
    BY <1>3 DEF Fields, Pending, Untouched
  <2> HIDE DEF u
  <2>3. s.expect = "refused" => s.binding # "honest"
    BY <1>4, <1>5, <1>6, <1>10 DEF Consistent
  <2>4. s.expect # "applied-out-of-band"
    BY <1>4, <1>5, <1>6, <1>10 DEF Consistent
  <2>5. s.artifact = ""
    BY <1>5, <2>3, <2>4 DEF Consistent
  <2>6. ASSUME s.expect = "applied" PROVE Grounded(u) \/ Excused(u)
    <3>1. CASE s.advisory
      <4>1. Denied(d)
        BY <1>4, <1>6, <3>1
      <4>2. d.class = "policy_engine_error" \/ Cardinality(d.findings) >= 2
        BY <1>4, <1>6, <3>1, <4>1
      <4>3. ~s.scan /\ ~s.denylist /\ ~s.breakEngine
        BY <1>5, <1>10, <2>6 DEF Consistent
      <4> QED BY <1>4, <2>2, <3>1, <4>1, <4>2, <4>3 DEF Grounded, Excused
    <3>2. CASE ~s.advisory
      BY <1>4, <1>10, <2>2, <3>2 DEF Grounded
    <3> QED BY <3>1, <3>2
  <2>7. s.expect = "refused" => Refusing(u, platform)
    BY <1>7, <2>2, <2>3, <2>5 DEF Refusing
  <2>8. s.expect = "applied" => Applying(u, platform)
    BY <1>7, <2>2, <2>5, <2>6 DEF Applying, Drifting
  <2>9. OnCourse(u, platform')
    BY <1>2, <2>2, <2>4, <2>7, <2>8 DEF OnCourse
  <2> QED BY <1>1, <2>1, <2>9, OutcomeStep
<1> QED BY <1>8, <1>9, <1>10

\* The approval of a plan: a broken binding is refused, an honest one is not.
LEMMA OutcomeBind ==
  ASSUME RunInv, ReportInv, OutcomeInv,
         NEW r \in Run, Alone(r), run[r].job \in ScenarioId, BindApproval(r)
  PROVE  OutcomeInv'
<1> DEFINE t == run[r]
           id == t.job
           s == Scenarios[id]
           rehearsed == Rehearsed(id, t.file)
           class == VerifyApproval(id, rehearsed.file, rehearsed.approval)
           bound == [t EXCEPT !.approval = rehearsed.approval, !.file = rehearsed.file]
           u == IF class = "" THEN bound ELSE Refuse(bound, "binding", class)
<1>1. Becomes(r, Finish(s, u)) /\ platform' = platform
  BY DEF BindApproval, ScenarioOf
<1>2. /\ DOMAIN t = Fields /\ Pending(t) /\ Unaudited(t) /\ OnCourse(t, platform) /\ t.pc = "bind"
  BY DEF RunInv, ReportInv, OutcomeInv, Faithful, BindApproval, At
<1>3. Consistent(s)
  BY TableIsConsistent
<1>4. /\ DOMAIN bound = Fields /\ bound.job = id /\ Pending(bound) /\ Unaudited(bound)
      /\ SameGrounds(t, bound)
  BY <1>2 DEF Fields, Pending, Untouched, Unaudited, SameGrounds
<1> HIDE DEF bound
<1>5. s.expect # "applied-out-of-band"
  BY <1>2 DEF OnCourse, Continuing
<1>6. t.file = [plan |-> s.var, appended |-> FALSE] /\ (s.expect = "refused" => s.binding # "honest")
  BY <1>2, <1>3, <1>5 DEF OnCourse, Refusing, Applying, Consistent
<1>7. s.binding = "honest" <=> class = ""
  BY <1>6, BindingFacts
<1> HIDE DEF class, rehearsed
<1>8. CASE s.expect = "refused"
  <2>1. u = Refuse(bound, "binding", class)
    BY <1>6, <1>7, <1>8
  <2>2. DOMAIN u = Fields /\ u.job = id /\ Pending(u) /\ AuditedOnce(u)
    BY <1>4, <2>1, RefuseOnce
  <2>3. u.before = platform
    BY <1>2, <1>4, <1>8, <2>1 DEF Refuse, Fields, OnCourse, Refusing, SameGrounds
  <2> HIDE DEF u
  <2>4. OnCourse(Finish(s, u), platform')
    BY <1>1, <1>8, <2>2, <2>3, FinishOnCourse
  <2> QED BY <1>1, <2>4, OutcomeStep DEF u
<1>9. CASE s.expect = "applied"
  <2>1. u = bound
    BY <1>3, <1>7, <1>9 DEF Consistent
  <2>2. Grounded(bound) \/ Excused(bound)
    BY <1>2, <1>4, <1>9, GroundsFrame DEF OnCourse, Applying
  <2>3. s.drift /\ bound.before[Console] = None => platform[Console] = None
    BY <1>2, <1>4, <1>9 DEF OnCourse, Applying, Drifting, SameGrounds
  <2>4. OnCourse(Finish(s, bound), platform')
    BY <1>1, <1>4, <1>9, <2>2, <2>3, FinishOnCourse
  <2> HIDE DEF u
  <2> QED BY <1>1, <2>1, <2>4, OutcomeStep DEF u
<1> QED BY <1>3, <1>5, <1>8, <1>9 DEF Consistent

\* A resource is put.
LEMMA OutcomePut ==
  ASSUME RunInv, DriftInv, TypeInv, OutcomeInv,
         NEW r \in Run, Alone(r), run[r].job \in ScenarioId, Put(r)
  PROVE  OutcomeInv'
<1> DEFINE t == run[r]
           s == Scenarios[t.job]
<1>1. PICK slot \in Ready(s, t.todo) :
        /\ platform' = [platform EXCEPT ![slot] = Evaluated(s).st[slot]]
        /\ Becomes(r, [t EXCEPT !.todo = @ \ {slot}, !.wrote = @ \cup {slot}])
  BY DEF Put, ScenarioOf
<1> DEFINE u == [t EXCEPT !.todo = @ \ {slot}, !.wrote = @ \cup {slot}]
<1>2. DOMAIN t = Fields /\ t.pc = "apply" /\ OnCourse(t, platform) /\ t \in Transcript
  BY DEF RunInv, OutcomeInv, TypeInv, Put, At
<1>3. slot \in Slot /\ t.wrote \subseteq Slot
  BY <1>2 DEF Ready, Transcript
<1>4. \A other \in Slot : platform'[other] = IF other = slot THEN Evaluated(s).st[slot] ELSE platform[other]
  BY <1>1, PlatformPut DEF DriftInv
<1>5. /\ u.pc = "apply" /\ u.job = t.job /\ u.wrote = t.wrote \cup {slot} /\ u.audit = t.audit
      /\ SameGrounds(t, u)
  BY <1>2 DEF Fields, SameGrounds
<1> HIDE DEF u
<1>6. s.drift /\ t.before[Console] = None /\ s.expect = "applied" => Drifting(u, platform')
  <2> SUFFICES ASSUME s.drift, t.before[Console] = None, s.expect = "applied"
               PROVE  Drifting(u, platform')
    OBVIOUS
  <2>1. platform[Console] = None /\ \A other \in t.wrote : platform[other] = Evaluated(s).st[other]
    BY <1>2 DEF OnCourse, Applying, Drifting
  <2>2. Console \in Slot /\ Evaluated(s).st[Console] = None
    BY SlotsAreSlots, DriftingAssumption DEF Console
  <2>3. platform'[Console] = None
    BY <1>4, <2>1, <2>2
  <2>4. \A other \in u.wrote : platform'[other] = Evaluated(s).st[other]
    BY <1>3, <1>4, <1>5, <2>1
  <2> QED BY <1>5, <2>3, <2>4 DEF Drifting
<1>7. s.expect # "refused"
  BY <1>2 DEF OnCourse, Refusing
<1>8. s.expect = "applied-out-of-band" => Continuing(u)
  BY <1>2, <1>5 DEF OnCourse, Continuing, SameGrounds, AuditedOnce
<1>9. s.expect = "applied" => Applying(u, platform')
  BY <1>2, <1>5, <1>6, GroundsFrame DEF OnCourse, Applying, SameGrounds
<1>10. OnCourse(u, platform')
  BY <1>5, <1>7, <1>8, <1>9 DEF OnCourse
<1> QED BY <1>1, <1>10, OutcomeStep DEF u

\* An apply ends.
LEMMA OutcomeApplied ==
  ASSUME RunInv, OutcomeInv,
         NEW r \in Run, Alone(r), run[r].job \in ScenarioId, Applied(r)
  PROVE  OutcomeInv'
<1> DEFINE t == run[r]
           s == Scenarios[t.job]
           t1 == [t EXCEPT !.applied = TRUE, !.pc = "after"]
           u == IF t1.audit = <<>> THEN [t1 EXCEPT !.result = "DEPLOYED"] ELSE [t1 EXCEPT !.outOfBand = TRUE]
<1>1. Becomes(r, u) /\ platform' = platform
  BY DEF Applied
<1>2. /\ DOMAIN t = Fields /\ t.pc = "apply" /\ OnCourse(t, platform) /\ Good(t, Env[r])
  BY DEF RunInv, OutcomeInv, Applied, At
<1>3. DOMAIN t1 = Fields /\ t1.audit = t.audit /\ t1.applied = TRUE /\ t1.pc = "after" /\ t1.job = t.job
      /\ t1.wrote = t.wrote /\ SameGrounds(t, t1)
  BY <1>2 DEF Fields, SameGrounds
<1> HIDE DEF t1
<1>4. /\ u.pc = "after" /\ u.job = t.job /\ u.wrote = t.wrote /\ u.audit = t.audit /\ u.applied = TRUE
      /\ t.audit # <<>> => u.outOfBand = TRUE
      /\ SameGrounds(t, u)
  BY <1>3 DEF Fields, SameGrounds
<1> HIDE DEF u
<1>5. s.expect # "refused"
  BY <1>2 DEF OnCourse, Refusing
<1>6. s.expect = "applied-out-of-band" => Continuing(u)
  BY <1>2, <1>4, AuditedIsNoBlank DEF OnCourse, Continuing, SameGrounds, AuditedOnce, Unaudited
<1>7. s.expect = "applied" => Unaudited(u)
  BY <1>2, <1>4, TableIsConsistent DEF Good, Consistent, Unaudited
<1>8. s.expect = "applied" => Applying(u, platform)
  BY <1>2, <1>4, <1>7, GroundsFrame DEF OnCourse, Applying, Drifting, SameGrounds
<1>9. OnCourse(u, platform')
  BY <1>1, <1>4, <1>5, <1>6, <1>8 DEF OnCourse
<1> QED BY <1>1, <1>9, OutcomeStep

\* The state digest after: the run concludes, or goes on to drift.
LEMMA OutcomeReadAfter ==
  ASSUME RunInv, TypeInv, ReportInv, OutcomeInv,
         NEW r \in Run, Alone(r), run[r].job \in ScenarioId, ReadAfter(r)
  PROVE  OutcomeInv'
<1> DEFINE t == run[r]
           s == Scenarios[t.job]
           read == [t EXCEPT !.after = platform, !.appliedState = IF t.applied THEN platform ELSE None]
           onward == [read EXCEPT !.pc = "mutate"]
<1>1. Becomes(r, IF s.drift /\ read.applied THEN onward ELSE Conclude(s, read)) /\ platform' = platform
  BY DEF ReadAfter, ScenarioOf
<1>2. /\ DOMAIN t = Fields /\ t.pc = "after" /\ OnCourse(t, platform) /\ Good(t, Env[r]) /\ Faithful(t)
      /\ t.result \in {"DEPLOYED", "DEPLOY_REFUSED"}
  BY DEF RunInv, ReportInv, OutcomeInv, TypeInv, Transcript, ReadAfter, At
<1>3. /\ DOMAIN read = Fields /\ read.job = t.job /\ read.applied = t.applied /\ read.audit = t.audit
      /\ read.result = t.result /\ read.outOfBand = t.outOfBand /\ read.after = platform
      /\ t.applied => read.appliedState = platform
      /\ SameGrounds(t, read)
  BY <1>2 DEF Fields, SameGrounds
<1>4. /\ onward.job = t.job /\ onward.pc = "mutate"
      /\ t.applied => onward.appliedState = platform
      /\ SameGrounds(t, onward)
  BY <1>2 DEF Fields, SameGrounds
<1> HIDE DEF read, onward
<1>5. /\ t.result = "DEPLOY_REFUSED" <=> ~Unaudited(t)
      /\ t.result = "DEPLOYED" => s.skipApply \/ t.applied
      /\ t.applied => Declared(s) \subseteq t.wrote
      /\ ~Unaudited(t) /\ ~s.outOfBand => ~t.applied
  BY <1>2 DEF Faithful, Settled, Good, Untouched, Unaudited
<1>6. /\ s.expect \in {"applied", "applied-out-of-band", "refused"}
      /\ s.expect = "refused" => ~s.outOfBand /\ ~s.drift
      /\ s.expect = "applied-out-of-band" => ~s.drift
      /\ s.drift => s.manifest = "" /\ ~s.skipApply
  BY TableIsConsistent DEF Consistent
<1>7. ASSUME Becomes(r, Conclude(s, read)), Meets(s, read) \/ (s.expect = "applied" /\ Excused(t))
      PROVE  OutcomeInv'
  <2>1. Excused(t) => Excused(read)
    BY <1>3, GroundsFrame
  <2>2. OnCourse(Conclude(s, read), platform')
    BY <1>3, <1>7, <2>1, ConcludedOnCourse
  <2> QED BY <1>7, <2>2, OutcomeStep
<1>8. CASE s.expect = "refused"
  <2>1. AuditedOnce(t) /\ t.before = platform
    BY <1>2, <1>8 DEF OnCourse, Refusing
  <2>2. AuditedOnce(read) /\ read.before = read.after
    BY <1>3, <2>1 DEF AuditedOnce, SameGrounds
  <2>3. Meets(s, read)
    BY <1>3, <1>5, <1>6, <1>8, <2>1, <2>2, AuditedIsNoBlank, RefusedMeets
  <2> QED BY <1>1, <1>6, <1>7, <1>8, <2>3
<1>9. CASE s.expect = "applied-out-of-band"
  <2>1. AuditedOnce(t) /\ Denied(t.decision) /\ t.outOfBand /\ t.applied
    BY <1>2, <1>9 DEF OnCourse, Continuing
  <2>2. AuditedOnce(read) /\ Denied(read.decision)
    BY <1>3, <2>1 DEF AuditedOnce, SameGrounds
  <2>3. Meets(s, read)
    BY <1>3, <1>5, <1>9, <2>1, <2>2, AuditedIsNoBlank, ContinuedMeets
  <2> QED BY <1>1, <1>6, <1>7, <1>9, <2>3
<1>10. CASE s.expect = "applied" /\ s.drift /\ t.applied
  <2>1. Applying(t, platform)
    BY <1>2, <1>10 DEF OnCourse
  <2>2. ASSUME t.before[Console] = None PROVE Drifting(onward, platform)
    <3>1. platform[Console] = None /\ \A slot \in t.wrote : platform[slot] = Evaluated(s).st[slot]
      BY <1>2, <1>10, <2>1, <2>2 DEF Applying, Drifting
    <3>2. BucketSlot(ExportBucket) \in Slot /\ Evaluated(s).st[BucketSlot(ExportBucket)] # None
      BY <1>10, DriftingAssumption, GrantAssumption DEF BucketSlot, Slot
    <3>3. BucketSlot(ExportBucket) \in Declared(s)
      BY <1>6, <1>10, <3>2 DEF Declared
    <3>4. platform[BucketSlot(ExportBucket)] # None
      BY <1>5, <1>10, <3>1, <3>2, <3>3
    <3> QED BY <1>4, <1>10, <3>1, <3>4 DEF Drifting
  <2>3. Applying(onward, platform)
    BY <1>2, <1>4, <1>10, <2>1, <2>2, GroundsFrame DEF Applying, SameGrounds
  <2>4. OnCourse(onward, platform')
    BY <1>1, <1>4, <1>10, <2>3 DEF OnCourse
  <2> QED BY <1>1, <1>3, <1>10, <2>4, OutcomeStep
<1>11. CASE s.expect = "applied" /\ ~(s.drift /\ t.applied)
  <2>1. (Grounded(t) \/ Excused(t)) /\ (~Unaudited(t) => Excused(t))
    BY <1>2, <1>11 DEF OnCourse, Applying
  <2>2. ASSUME ~Excused(t) PROVE Meets(s, read)
    <3>1. t.result = "DEPLOYED" /\ ~s.drift
      BY <1>2, <1>5, <1>6, <1>11, <2>1, <2>2
    <3>2. Grounded(read)
      BY <1>3, <2>1, <2>2, GroundsFrame
    <3> QED BY <1>3, <1>11, <3>1, <3>2, AppliedMeets
  <2> QED BY <1>1, <1>3, <1>7, <1>11, <2>2
<1> QED BY <1>6, <1>8, <1>9, <1>10, <1>11

\* The grant drifts in, the state is read, and read again by the drift check.
LEMMA OutcomeDrifts ==
  ASSUME RunInv, DriftInv, OutcomeInv,
         NEW r \in Run, Alone(r), run[r].job \in ScenarioId, Mutate(r) \/ ReadMutated(r) \/ DriftRead(r)
  PROVE  OutcomeInv'
<1> DEFINE t == run[r]
           s == Scenarios[t.job]
<1>1. /\ DOMAIN t = Fields /\ t.pc \in {"mutate", "mutated", "drift"} /\ OnCourse(t, platform)
      /\ Console \in Slot /\ BucketSlot(ExportBucket) # Console
  BY SlotsAreSlots DEF RunInv, OutcomeInv, Mutate, ReadMutated, DriftRead, At, Console, BucketSlot, GrantSlot
<1>2. s.expect = "applied" /\ Applying(t, platform)
  BY <1>1, TableIsConsistent DEF OnCourse, Refusing, Continuing, Consistent
<1>3. (Grounded(t) \/ Excused(t)) /\ s.drift /\ (t.before[Console] = None => Drifting(t, platform))
  BY <1>1, <1>2 DEF Applying
\* What the run becomes has the same grounds and goes on drifting.
<1>4. ASSUME NEW u, Becomes(r, u), SameGrounds(t, u), u.pc \in {"mutated", "drift", "digest"},
             t.before[Console] = None => Drifting(u, platform')
      PROVE  OutcomeInv'
  <2>1. Applying(u, platform')
    BY <1>3, <1>4, GroundsFrame DEF Applying, SameGrounds
  <2>2. OnCourse(u, platform')
    BY <1>2, <1>4, <2>1 DEF OnCourse, SameGrounds
  <2> QED BY <1>4, <2>2, OutcomeStep
<1>5. CASE Mutate(r)
  <2> DEFINE u == [t EXCEPT !.pc = "mutated", !.wrote = @ \cup {GrantSlot(ConsoleGrant)}]
  <2>1. /\ Becomes(r, u) /\ t.pc = "mutate"
        /\ platform' = [platform EXCEPT ![Console] = DriftGrant]
    BY <1>5 DEF Mutate, At, Console
  <2>2. SameGrounds(t, u) /\ u.pc = "mutated" /\ u.appliedState = t.appliedState
    BY <1>1 DEF Fields, SameGrounds
  <2> HIDE DEF u
  <2>3. \A slot \in Slot : platform'[slot] = IF slot = Console THEN DriftGrant ELSE platform[slot]
    BY <2>1, PlatformPut DEF DriftInv
  <2>4. BucketSlot(ExportBucket) \in Slot
    BY GrantAssumption DEF BucketSlot, Slot
  <2>5. t.before[Console] = None => Drifting(u, platform')
    BY <1>1, <1>3, <2>1, <2>2, <2>3, <2>4 DEF Drifting
  <2> QED BY <1>4, <2>1, <2>2, <2>5
<1>6. CASE ReadMutated(r)
  <2> DEFINE u == [t EXCEPT !.after = platform, !.pc = "drift"]
  <2>1. Becomes(r, u) /\ t.pc = "mutated" /\ platform' = platform
    BY <1>6 DEF ReadMutated, At
  <2>2. SameGrounds(t, u) /\ u.pc = "drift" /\ u.appliedState = t.appliedState /\ u.after = platform
    BY <1>1 DEF Fields, SameGrounds
  <2> HIDE DEF u
  <2>3. t.before[Console] = None => Drifting(u, platform')
    BY <1>3, <2>1, <2>2 DEF Drifting
  <2> QED BY <1>4, <2>1, <2>2, <2>3
<1>7. CASE DriftRead(r)
  <2> DEFINE u == [t EXCEPT !.live = platform, !.pc = "digest"]
  <2>1. Becomes(r, u) /\ t.pc = "drift" /\ platform' = platform
    BY <1>7 DEF DriftRead, At
  <2>2. /\ SameGrounds(t, u) /\ u.pc = "digest" /\ u.appliedState = t.appliedState
        /\ u.after = t.after /\ u.live = platform
    BY <1>1 DEF Fields, SameGrounds
  <2> HIDE DEF u
  <2>3. t.before[Console] = None => Drifting(u, platform')
    BY <1>3, <2>1, <2>2 DEF Drifting
  <2> QED BY <1>4, <2>1, <2>2, <2>3
<1> QED BY <1>5, <1>6, <1>7

LEMMA DriftGrantIsGrant == DriftGrant # None
BY DriftGrantType, AbsenceAssumption DEF ValueOf

\* A state with the drifting grant on the bucket it opens is none the policy admits.
LEMMA DriftingIsDenied ==
  ASSUME NEW id \in ScenarioId, Scenarios[id].drift, IsState(platform),
         platform[Console] = DriftGrant, platform[BucketSlot(ExportBucket)] # None,
         NEW d \in Evaluations(Graphed(platform), AllowlistOf[Scenarios[id].allowlist], FALSE)
  PROVE  Denied(d)
<1> DEFINE allowlist == AllowlistOf[Scenarios[id].allowlist]
           graph == Graphed(platform)
<1> SUFFICES ASSUME ~Denied(d) PROVE FALSE
  OBVIOUS
<1>1. Admits(graph, allowlist)
  BY NotDenied
<1>2. graph \in Graph /\ graph.st = platform
  BY DEF Graphed, Graph, IsState
<1>3. allowlist \in Allowlist
  BY DesiredAssumption DEF Allowlist
<1>4. ExportBucket \in ListedBuckets(platform)
  BY GrantAssumption DEF ListedBuckets, Listed
<1>5. DriftGrant # None
  BY DriftGrantIsGrant
<1>6. ConsoleGrant \in BucketGrants(platform, ExportBucket)
  BY <1>5, GrantAssumption DEF BucketGrants, GrantsOn, DriftGrant, Console
<1>7. Unspecified \in Addresses(platform[GrantSlot(ConsoleGrant)].source_ranges)
  BY AddrAssumption, BlocksAssumption DEF Addresses, DriftGrant, Console
<1> HIDE DEF allowlist, graph
<1>8. PICK e \in Entries(allowlist) :
        /\ e.kind = "bucket" /\ e.name = ExportBucket
        /\ graph.st[GrantSlot(ConsoleGrant)].principals \subseteq e.principals
  BY <1>1, <1>2, <1>3, <1>4, <1>6, <1>7, GrantIsNamed
<1>9. Anonymous \in e.principals
  BY <1>2, <1>8 DEF DriftGrant, Console
<1>10. e \in allowlist
  BY <1>8 DEF Entries
<1> QED BY <1>8, <1>9, <1>10, DriftingAssumption DEF allowlist

\* The drift check reports the grant, and the run concludes.
LEMMA OutcomeDriftReport ==
  ASSUME RunInv, DriftInv, TypeInv, ReportInv, OutcomeInv,
         NEW r \in Run, Alone(r), run[r].job \in ScenarioId, DriftReport(r)
  PROVE  OutcomeInv'
<1> DEFINE t == run[r]
           s == Scenarios[t.job]
<1>1. PICK d \in Evaluations(Graphed(t.live), DriftAllowlist(t), FALSE) :
        LET u == [t EXCEPT !.drift = [digest |-> platform, detected |-> Denied(d)]]
        IN Becomes(r, IF u.job \in ScenarioId THEN Conclude(ScenarioOf(r), u)
                      ELSE [u EXCEPT !.pc = "end", !.passed = ~Denied(d)])
  BY DEF DriftReport
<1> DEFINE report == [digest |-> platform, detected |-> Denied(d)]
           u == [t EXCEPT !.drift = report]
<1>2. /\ DOMAIN t = Fields /\ t.pc = "digest" /\ OnCourse(t, platform) /\ Good(t, Env[r]) /\ Faithful(t)
      /\ t.result \in {"DEPLOYED", "DEPLOY_REFUSED"} /\ IsState(platform) /\ platform' = platform
  BY DEF RunInv, ReportInv, OutcomeInv, TypeInv, Transcript, DriftInv, DriftReport, At
<1>3. s.expect = "applied" /\ Applying(t, platform) /\ ~s.outOfBand
  BY <1>2, TableIsConsistent DEF OnCourse, Refusing, Continuing, Consistent
<1>4. (Grounded(t) \/ Excused(t)) /\ s.drift /\ (t.before[Console] = None => Drifting(t, platform))
  BY <1>2, <1>3 DEF Applying
<1>5. /\ DOMAIN u = Fields /\ u.job = t.job /\ u.drift = report /\ u.result = t.result
      /\ u.appliedState = t.appliedState /\ u.after = t.after /\ SameGrounds(t, u)
  BY <1>2 DEF Fields, SameGrounds
<1>6. Becomes(r, Conclude(s, u))
  BY <1>1, <1>5 DEF ScenarioOf
<1> HIDE DEF u
<1>7. ASSUME ~Excused(t) PROVE Meets(s, u)
  <2>1. Grounded(u)
    BY <1>4, <1>5, <1>7, GroundsFrame
  <2>2. t.before[Console] = None
    BY <1>4, <1>7 DEF Excused
  <2>3. /\ t.appliedState[Console] = None /\ platform[BucketSlot(ExportBucket)] # None
        /\ platform[Console] = DriftGrant /\ t.after[Console] = DriftGrant /\ t.live = platform
    BY <1>2, <1>4, <2>2 DEF Drifting
  <2>4. Denied(d)
    BY <1>2, <1>4, <2>3, DriftingIsDenied DEF DriftAllowlist
  <2>5. u.drift # None /\ u.drift.detected
    <3>1. report \in [digest : Stored, detected : BOOLEAN]
      BY <1>2, PlatformStored DEF Denied
    <3>2. report.detected = Denied(d)
      OBVIOUS
    <3> HIDE DEF report
    <3> QED BY <1>5, <2>4, <3>1, <3>2, AbsenceAssumption
  <2>6. u.appliedState # u.after
    BY <1>5, <2>3, DriftGrantIsGrant
  <2>7. t.result = "DEPLOYED"
    BY <1>2, <1>3 DEF Good, Faithful, Settled, Unaudited
  <2> QED BY <1>3, <1>5, <2>1, <2>5, <2>6, <2>7, AppliedMeets
<1>8. Excused(t) => Excused(u)
  BY <1>5, GroundsFrame
<1>9. OnCourse(Conclude(s, u), platform')
  BY <1>3, <1>5, <1>7, <1>8, ConcludedOnCourse
<1> QED BY <1>6, <1>9, OutcomeStep

\* A failure ends a scenario.
LEMMA OutcomeFail ==
  ASSUME RunInv, NEW r \in Run, Alone(r), Fail(r)
  PROVE  OutcomeInv'
<1>1. DOMAIN run[r] = Fields /\ Becomes(r, Failed(run[r]))
  BY DEF RunInv, Fail
<1>2. Failed(run[r]).pc = "end" /\ Failed(run[r]).error
  BY <1>1 DEF Failed, Fields
<1>3. Failed(run[r]).job \in ScenarioId => OnCourse(Failed(run[r]), platform')
  BY <1>2, EndedOnCourse
<1> QED BY <1>1, <1>3, OutcomeStep

\* An operator command is no scenario, whatever its steps are.
LEMMA OutcomeCommand ==
  ASSUME RunInv, NEW r \in Run, Alone(r),
         \/ StartDrift(r) \/ StartRemoval(r) \/ Remove(r) \/ Removed(r)
         \/ run[r].job \notin ScenarioId /\ (DriftRead(r) \/ DriftReport(r))
  PROVE  OutcomeInv'
<1>1. DOMAIN run[r] = Fields /\ (run[r].pc = "remove" => run[r].job \notin ScenarioId)
  BY DEF RunInv, Good
<1>2. ASSUME NEW u, Becomes(r, u), u.job \notin ScenarioId PROVE OutcomeInv'
  BY <1>2, OutcomeStep
<1>3. CASE StartDrift(r)
  <2> DEFINE u == [Fresh("drift") EXCEPT !.pc = "drift"]
  <2>1. Becomes(r, u) /\ u.job = "drift"
    BY <1>3 DEF StartDrift, Fresh
  <2> QED BY <1>2, <2>1, Commands
<1>4. CASE StartRemoval(r)
  <2> DEFINE u == [Fresh("remove-undeclared") EXCEPT
                     !.pc = "remove", !.todo = {slot \in UndeclaredSlots : platform[slot] # None}]
  <2>1. Becomes(r, u) /\ u.job = "remove-undeclared"
    BY <1>4 DEF StartRemoval, Fresh
  <2> QED BY <1>2, <2>1, Commands
<1>5. CASE Remove(r)
  <2>1. PICK slot : Becomes(r, IF platform[slot] = None THEN Failed(run[r])
                               ELSE [run[r] EXCEPT !.todo = @ \ {slot}, !.wrote = @ \cup {slot}])
    BY <1>5 DEF Remove
  <2> DEFINE u == IF platform[slot] = None THEN Failed(run[r])
                  ELSE [run[r] EXCEPT !.todo = @ \ {slot}, !.wrote = @ \cup {slot}]
  <2>2. u.job = run[r].job /\ run[r].job \notin ScenarioId
    BY <1>1, <1>5 DEF Remove, At, Failed, Fields
  <2> QED BY <1>2, <2>1, <2>2
<1>6. CASE Removed(r)
  <2> DEFINE u == [run[r] EXCEPT !.pc = "end", !.passed = TRUE]
  <2>1. Becomes(r, u) /\ u.job = run[r].job /\ run[r].job \notin ScenarioId
    BY <1>1, <1>6 DEF Removed, At, Fields
  <2> QED BY <1>2, <2>1
<1>7. CASE run[r].job \notin ScenarioId /\ DriftRead(r)
  <2> DEFINE u == [run[r] EXCEPT !.live = platform, !.pc = "digest"]
  <2>1. Becomes(r, u) /\ u.job = run[r].job
    BY <1>1, <1>7 DEF DriftRead, Fields
  <2> QED BY <1>2, <1>7, <2>1
<1>8. CASE run[r].job \notin ScenarioId /\ DriftReport(r)
  <2>1. PICK d : LET t == [run[r] EXCEPT !.drift = [digest |-> platform, detected |-> Denied(d)]]
                 IN Becomes(r, IF t.job \in ScenarioId THEN Conclude(ScenarioOf(r), t)
                               ELSE [t EXCEPT !.pc = "end", !.passed = ~Denied(d)])
    BY <1>8 DEF DriftReport
  <2> DEFINE t == [run[r] EXCEPT !.drift = [digest |-> platform, detected |-> Denied(d)]]
             u == [t EXCEPT !.pc = "end", !.passed = ~Denied(d)]
  <2>2. t.job = run[r].job /\ u.job = run[r].job
    BY <1>1 DEF Fields
  <2>3. Becomes(r, u)
    BY <1>8, <2>1, <2>2
  <2> HIDE DEF u
  <2> QED BY <1>2, <1>8, <2>2, <2>3
<1> QED BY <1>3, <1>4, <1>5, <1>6, <1>7, <1>8

\* Any step of a pipeline that runs alone.
LEMMA OutcomeAlone ==
  ASSUME RunInv, DriftInv, TypeInv, ReportInv, OutcomeInv, NEW r \in Run, Alone(r), Step(r)
  PROVE  OutcomeInv'
<1>1. CASE Begin(r)
  BY <1>1, OutcomeStart, OutcomeCommand DEF Begin
<1>2. CASE run[r].job \in ScenarioId
  BY <1>1, <1>2, OutcomeEvaluateManifest, OutcomeEvaluate, OutcomeBind, OutcomePut, OutcomeApplied,
     OutcomeReadAfter, OutcomeDrifts, OutcomeDriftReport, OutcomeCommand, OutcomeFail DEF Step
<1>3. CASE run[r].job \notin ScenarioId
  <2>1. run[r].pc \in CommandStep
    BY <1>3 DEF RunInv
  <2>2. ~EvaluateManifest(r) /\ ~Evaluate(r) /\ ~BindApproval(r) /\ ~Put(r) /\ ~Applied(r)
        /\ ~ReadAfter(r) /\ ~Mutate(r) /\ ~ReadMutated(r)
    BY <2>1 DEF CommandStep, At, EvaluateManifest, Evaluate, BindApproval, Put, Applied,
                ReadAfter, Mutate, ReadMutated
  <2> QED BY <1>1, <1>3, <2>2, OutcomeCommand, OutcomeFail DEF Step
<1> QED BY <1>2, <1>3

LEMMA OutcomeStays == ASSUME OutcomeInv, UNCHANGED <<platform, run>> PROVE OutcomeInv'
BY DEF OutcomeInv, OnCourse, Refusing, Continuing, Applying, Drifting, Grounded, Excused,
       AuditedOnce, Unaudited

LEMMA OutcomeHolds == OutcomeInv => ScenariosMeetTheirOutcome
<1> SUFFICES ASSUME OutcomeInv, NEW r \in Run, Scenic(r), run[r].pc = "end", ~run[r].error, ~run[r].passed
             PROVE  \/ \E d \in {run[r].decision, run[r].would} :
                         d # None /\ d.class = "policy_engine_error" /\ ~ScenarioOf(r).breakEngine
                    \/ ScenarioOf(r).drift /\ run[r].before[GrantSlot(ConsoleGrant)] # None
  BY DEF ScenariosMeetTheirOutcome
<1>1. run[r].job \in ScenarioId /\ OnCourse(run[r], platform)
  BY DEF OutcomeInv, Scenic
<1>2. Excused(run[r])
  BY <1>1, TableIsConsistent DEF OnCourse, Refusing, Continuing, Applying, Consistent
<1> QED BY <1>2 DEF Excused, ScenarioOf, Console

\* For any value sets, overlays and allowlists of which the gate admits what is to
\* be applied and refuses what is to be refused: every scenario meets the outcome
\* it declares, whatever ran before it and whatever platform it finds, when its
\* engine answers and nothing fails (scenario.go 106-307, harness.go 394-453).  One
\* pipeline at a time, as the scripts run them: a digest does not tell a change of
\* one's own from a neighbour's.
THEOREM OutcomeTheorem ==
  ASSUME \A r, q \in Run : r = q PROVE Spec => []ScenariosMeetTheirOutcome
<1>1. RunInv /\ DriftInv /\ TypeInv /\ ReportInv /\ OutcomeInv /\ [Next]_vars => OutcomeInv'
  <2>1. \A r \in Run : Alone(r)
    BY DEF Alone
  <2> QED BY <2>1, OutcomeAlone, OutcomeStays DEF Next, vars
<1>2. Spec => [](RunInv /\ DriftInv)
  BY DriftInit, DriftNext, RunsAreGood, PTL DEF Spec
<1>3. Spec => []TypeInv
  BY <1>2, TypeInit, TypeNext, PTL DEF Spec
<1>4. Spec => []ReportInv
  BY <1>2, ReportInit, ReportNext, PTL DEF Spec
<1>5. Spec => []OutcomeInv
  BY <1>1, <1>2, <1>3, <1>4, OutcomeInit, PTL DEF Spec
<1> QED BY <1>5, OutcomeHolds, PTL

\* The same of the scripts of the demonstration, with their several containers:
\* whichever commands are given and wherever they stop, no scenario that ran its
\* course has missed the outcome it declares without one of these two excuses
\* (demo.sh, harness.go 394-453).
THEOREM OutcomesInScripts == DemoSpec => []ScenariosMeetTheirOutcome
<1>1. DemoInv /\ OutcomeInv /\ [DemoNext]_demoVars => OutcomeInv'
  <2> SUFFICES ASSUME DemoInv, OutcomeInv, [DemoNext]_demoVars PROVE OutcomeInv'
    OBVIOUS
  <2>1. RunInv /\ DriftInv /\ TypeInv /\ ReportInv /\ QuietInv
    BY DEF DemoInv, PipesInv
  <2>2. CASE UNCHANGED <<platform, run>>
    BY <2>2, OutcomeStays
  <2>3. CASE BeginRun
    <3>1. ScenarioId \subseteq Job /\ "drift" \in Job /\ "remove-undeclared" \in Job
      BY DemoAssumption
    <3>2. \A q \in Run : run[q].pc = "idle"
      BY <2>3 DEF BeginRun, Doing
    <3>3. CASE Current.needs \in containers \cup {None}
      <4>1. Current \in RunTask
        <5>1. shell.status = "running" /\ Current.op = "run"
          BY <2>3 DEF BeginRun, Doing
        <5>2. Current \in Inner \cup {Down}
          BY <5>1, AtStep DEF DemoInv
        <5> QED BY <5>1, <5>2 DEF Inner, CheckTask, ObserveTask, CompareTask, Down
      <4>2. Current.slot \in Run /\ Begin(Current.slot)
        BY <2>3, <3>1, <3>3, <4>1 DEF RunTask, BeginRun, Begin, Start
      <4>3. Alone(Current.slot) /\ Step(Current.slot)
        BY <3>2, <4>2 DEF Alone, Step
      <4> QED BY <2>1, <4>2, <4>3, OutcomeAlone
    <3>4. CASE Current.needs \notin containers \cup {None}
      BY <2>2, <2>3, <3>4 DEF BeginRun
    <3> QED BY <3>3, <3>4
  <2>4. ASSUME NEW r \in Run, RunStep(r) PROVE OutcomeInv'
    <3>1. Alone(r) /\ Step(r)
      BY <2>1, <2>4 DEF RunStep, QuietInv, Alone
    <3> QED BY <2>1, <3>1, OutcomeAlone
  <2>5. ASSUME NEW r \in Run, EndRun(r) PROVE OutcomeInv'
    <3>1. Alone(r) /\ Becomes(r, Idle)
      BY <2>1, <2>5 DEF EndRun, QuietInv, Alone, Becomes
    <3>2. Idle.pc = "idle" /\ run' = [run EXCEPT ![r] = Idle]
      BY <2>5, IdleFacts DEF EndRun
    <3>3. \A q \in Run : run'[q].pc = "idle"
      BY <2>1, <3>1, <3>2 DEF Alone, RunInv
    <3> QED BY <3>3 DEF OutcomeInv
  <2>6. CASE Deploy \/ TruncateTable \/ ClientCheck \/ ClientObserve \/ PipelineCompare \/ StepFails
    <3>1. \A r \in Run : run[r].pc = "idle"
      BY <2>6 DEF Deploy, TruncateTable, ClientCheck, ClientObserve, PipelineCompare, StepFails, Doing
    <3>2. run' = run
      BY <2>6 DEF Deploy, TruncateTable, ClientCheck, ClientObserve, PipelineCompare, StepFails, Effect
    <3> QED BY <3>1, <3>2 DEF OutcomeInv
  <2>7. CASE Invoke \/ Over \/ UNCHANGED demoVars
    BY <2>2, <2>7 DEF Invoke, Over, demoVars
  <2> QED BY <2>3, <2>4, <2>5, <2>6, <2>7 DEF DemoNext, ShellStep
<1>2. DemoInit => OutcomeInv
  BY OutcomeInit DEF DemoInit
<1>3. DemoSpec => []OutcomeInv
  BY <1>1, <1>2, DemoHolds, PTL DEF DemoSpec
<1> QED BY <1>3, OutcomeHolds, PTL
=============================================================================
