------------------------------ MODULE Reconcile ------------------------------
(***************************************************************************)
(* A scenario end to end (scripts/demo.sh): the pipeline runs it, a client *)
(* in every segment then asks for each resource in turn (cmd/client        *)
(* observe), and the reconciliation compares what the public segment       *)
(* reached with what an allowlist names (internal/tofu/reconcile.go).  The *)
(* observers run concurrently, one request at a time, against a platform   *)
(* that the runs of the other slots go on changing.                        *)
(***************************************************************************)
EXTENDS Observation

CONSTANTS
  Script,      \* the slot whose runs the script observes
  Keeps        \* the scenarios whose public observation is put aside

ASSUME ScriptAssumption == Script \in Run

VARIABLES
  stage,     \* where the script is after the pipeline's run
  observer,  \* every observer's step and the answers it has
  report,    \* the reconciled transcript's verdict, or None
  kept,      \* a set the public segment reported earlier, or None
  seen       \* history: what the public segment could, and could not, reach meanwhile

scriptVars == <<stage, observer, report, kept, seen>>
allVars == <<platform, run, failures, stage, observer, report, kept, seen>>

-----------------------------------------------------------------------------
(* The documents so far.                                                   *)

SetOf(i) == Document(i, observer[i].saw)

\* The document of the public segment.
PublicSet == UNION {SetOf(i) : i \in {i \in Ids : Observers[i].segment = "internet"}}

-----------------------------------------------------------------------------
(* The script.                                                             *)

Quiet == [pc |-> "idle", saw |-> <<>>]
Nothing == [open |-> {}, closed |-> {}]

\* What a client at the probe's address reaches in a state, asking for nothing else.
OpenNow ==
  {ResourceOf(Probes[k]) : k \in
     {k \in DOMAIN Probes :
        Reachable(Answers(Probes[k], [principal |-> Anonymous, segment |-> "internet", addr |-> ProbeAddress]))}}

ScriptInit ==
  /\ Init
  /\ stage = "idle"
  /\ observer = [i \in Ids |-> Quiet]
  /\ report = None
  /\ kept = None
  /\ seen = Nothing

\* A run's step.  The script starts its next run when it is done observing.
Pipe(r) ==
  /\ r = Script => stage # "observing"
  /\ Step(r)
  /\ UNCHANGED kept
  /\ IF r = Script THEN /\ stage' = "idle"
                        /\ report' = None
                        /\ observer' = [i \in Ids |-> Quiet]
     ELSE UNCHANGED <<stage, report, observer>>

\* The pipeline's exit status was zero: both probes are started.
Launch ==
  /\ stage = "idle"
  /\ run[Script].pc = "end" /\ Scenic(Script) /\ run[Script].passed
  /\ stage' = "observing"
  /\ observer' = [i \in Ids |-> [pc |-> "edge", saw |-> <<>>]]
  /\ UNCHANGED <<platform, run, failures, report, kept>>

Observing(i, pc) == stage = "observing" /\ observer[i].pc = pc
Turns(i, o) == observer' = [observer EXCEPT ![i] = o]

\* whoami at the edge; only the public segment has a listener there.
AskEdge(i) ==
  /\ Observing(i, "edge")
  /\ Turns(i, [observer[i] EXCEPT !.pc = IF Observers[i].segment = "internet" THEN "asking" ELSE "corp"])
  /\ UNCHANGED <<platform, run, failures, stage, report, kept>>

\* whoami with the finance role; outside the corporate segment nobody answers.
AskCorp(i) ==
  /\ Observing(i, "corp")
  /\ Turns(i, [observer[i] EXCEPT !.pc = IF Observers[i].segment = "corp" THEN "asking" ELSE "failed"])
  /\ UNCHANGED <<platform, run, failures, stage, report, kept>>

\* Mutant: a request that fails ends the document.
HeardUntilLost(i, answer) ==
  LET saw == Append(observer[i].saw, answer)
  IN Turns(i, [pc |-> IF Len(saw) = Len(Probes) \/ answer = "lost" THEN "done" ELSE "asking", saw |-> saw])

Heard(i, answer) ==
  LET saw == Append(observer[i].saw, answer)
  IN Turns(i, [pc |-> IF Len(saw) = Len(Probes) THEN "done" ELSE "asking", saw |-> saw])

\* The next request of the list.
Ask(i) ==
  /\ Observing(i, "asking")
  /\ Heard(i, Answers(Probes[Len(observer[i].saw) + 1], CallerOf(i)))
  /\ UNCHANGED <<platform, run, failures, stage, report, kept>>

\* A request fails or runs into the ten seconds of its timeout.  A whoami at the
\* edge that fails is tried with the other role; an observation goes on.
Lose(i) ==
  /\ failures < MaxFailures
  /\ failures' = failures + 1
  /\ \/ Observing(i, "edge") /\ Turns(i, [observer[i] EXCEPT !.pc = "corp"])
     \/ Observing(i, "corp") /\ Turns(i, [observer[i] EXCEPT !.pc = "failed"])
     \/ Observing(i, "asking") /\ Heard(i, "lost")
  /\ UNCHANGED <<platform, run, stage, report, kept>>

\* The script stops at the first of its probes that failed.
Abandon ==
  /\ stage = "observing"
  /\ \E i \in Ids : observer[i].pc = "failed" /\ \A j \in 1..(i - 1) : observer[j].pc = "done"
  /\ stage' = "stopped"
  /\ UNCHANGED <<platform, run, failures, observer, report, kept>>

\* Both probes have reported: the transcript and their documents are reconciled.
Report ==
  /\ stage = "observing"
  /\ \A i \in Ids : observer[i].pc = "done"
  /\ stage' = "reported"
  /\ report' = Reconciled(run[Script], UNION {SetOf(i) : i \in Ids})
  /\ UNCHANGED <<platform, run, failures, observer, kept>>

\* The public segment's document is put aside for a later comparison.
Keep ==
  /\ stage = "reported" /\ run[Script].job \in Keeps
  /\ kept' = [job |-> run[Script].job, seen |-> seen, set |-> PublicSet]
  /\ UNCHANGED <<platform, run, failures, stage, observer, report>>

\* History of the time between the launch and the report.
Witness ==
  seen' = IF stage' = "observing"
          THEN [open |-> seen.open \cup OpenNow', closed |-> seen.closed \cup (Probed \ OpenNow')]
          ELSE IF stage' = "reported" THEN seen ELSE Nothing

ScriptStep ==
  \/ \E r \in Run : Pipe(r)
  \/ Launch
  \/ \E i \in Ids : AskEdge(i) \/ AskCorp(i) \/ Ask(i) \/ Lose(i)
  \/ Abandon \/ Report \/ Keep

ScriptNext == ScriptStep /\ Witness

ScriptSpec == ScriptInit /\ [][ScriptNext]_allVars

-----------------------------------------------------------------------------
(* Types.                                                                  *)

Observed == [segment : {"corp", "internet"}, resource : Probed, answer : Body \cup {"served", "refused", "lost"}]
History == [open : SUBSET Probed, closed : SUBSET Probed]

\* The script's own state; a document that is complete has an answer for every
\* resource, in the order they are asked for (cmd/client/main.go 145-155).
ScriptTypeOK ==
  /\ stage \in {"idle", "observing", "stopped", "reported"}
  /\ \A i \in Ids :
       /\ observer[i].pc \in {"idle", "edge", "corp", "asking", "done", "failed"}
       /\ observer[i].saw \in Seq(Body \cup {"served", "refused", "lost"})
       /\ observer[i].pc = "done" <=> Len(observer[i].saw) = Len(Probes)
  /\ stage = "reported" => report \in [reached : SUBSET Probed, unreviewed : SUBSET Probed,
                                       verdict : {"PASS", "FAIL"}, passed : BOOLEAN]
  /\ stage # "reported" => report = None
  /\ kept # None => kept.job \in Keeps /\ kept.set \subseteq Observed /\ kept.seen \in History
  /\ seen \in History

-----------------------------------------------------------------------------
(* Safety.                                                                 *)

\* Every request of a document was answered.
Complete(set) == \A o \in set : o.answer # "lost"

\* Nothing the public segment reaches came or went while it was observed.
Steady(history) == history.open \cap history.closed = {}

Intended == PlanOf["secure.tfvars"].st

\* A verdict is about moments that were: whatever other runs change between two
\* requests, a resource is reported unreviewed only if the public segment could
\* reach it at some moment of the observation, and left out of a complete report
\* only if at some moment it could not (reconcile.go 105-119).
VerdictHadItsMoments ==
  stage = "reported" =>
    /\ report.reached \subseteq seen.open
    /\ Complete(PublicSet) => Probed \ report.reached \subseteq seen.closed

\* A scenario that starts where nothing unreviewed is exposed and no undeclared
\* grant is left (one of a plan that stopped half way exposes nothing before its
\* object is put), and that is observed without a failure or another run's
\* writes, reconciles with the verdict it declares: the misconfigured ones fail,
\* and the refused ones do not (scenario.go 63-66, reconcile.go 121-134).
ReconciledAsDeclared ==
  stage = "reported" /\ Complete(PublicSet) /\ Steady(seen)
    /\ run[Script].before # None /\ (\A slot \in UndeclaredSlots : run[Script].before[slot] = None)
    /\ ExposuresNamed(run[Script].before, AllowlistOf[ScenarioOf(Script).allowlist]) =>
  report.passed

\* What the policy computes of a configuration is what the world then reaches:
\* the `applied exposure' and the `reachable from internet' of a row name the same
\* unreviewed resources, unless the platform was changed behind the configuration
\* (table.go 132-171, README.md 159-160).
ComputedIsObserved ==
  stage = "reported" /\ Complete(PublicSet) /\ Steady(seen)
    /\ run[Script].before = Intended /\ run[Script].applied /\ ~ScenarioOf(Script).drift
    /\ (\A d \in {run[Script].decision, run[Script].would} : d # None => d.class = "evaluated") =>
  {[kind |-> IF f.kind = "bucket" THEN "bucket" ELSE "workload_port", name |-> f.name] :
     f \in AppliedExposure(run[Script])} = report.unreviewed

\* A comparison of two public documents, neither with a lost request, passes just
\* when the public segment reached the same resources both times
\* (reconcile.go 196-239, 352-406).
ComparisonsAreExact ==
  stage = "reported" /\ kept # None
    /\ Complete(kept.set) /\ Complete(PublicSet) /\ Steady(kept.seen) /\ Steady(seen) =>
  /\ SameReach(kept.set, PublicSet) <=> kept.seen.open = seen.open
  /\ SameObservations(kept.set, PublicSet) => SameReach(kept.set, PublicSet)

=============================================================================
