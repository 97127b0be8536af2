---------------------------- MODULE Observation ----------------------------
(***************************************************************************)
(* What the observers of the demonstration ask for (cmd/client observe),   *)
(* what the platform answers them, and what the pipeline command makes of  *)
(* a transcript and their documents: the reconciliation and the            *)
(* comparisons (internal/tofu/reconcile.go), and the columns of the table  *)
(* (internal/tofu/table.go).  Definitions only; Reconcile and Demo say     *)
(* when the requests are made.                                             *)
(***************************************************************************)
EXTENDS Pipeline

CONSTANTS
  Observers,   \* the clients in the order they are waited for: [segment, addr, principal]
  Probes,      \* what observe asks for, in order: [kind, name, key]
  ProbeAddress \* the public client's address

\* The public observer is the probe client, and the edge it asks at takes no
\* principal header; every other client sits in the corporate segment.
ASSUME ObserverAssumption ==
  /\ \A i \in DOMAIN Observers :
       /\ SegmentName(Observers[i].addr) = Observers[i].segment
       /\ Observers[i].segment \in {"corp", "internet"}
       /\ Observers[i].segment = "internet" =>
            Observers[i].addr = ProbeAddress /\ Observers[i].principal = Anonymous
  /\ \E i \in DOMAIN Observers : Observers[i].segment = "internet"

\* A resource is asked for once: a bucket by one of its objects.
ResourceOf(probe) == [kind |-> probe.kind, name |-> probe.name]
ASSUME ProbesAssumption ==
  /\ Probes \in Seq([kind : {"bucket"}, name : BucketName, key : ObjectKey]
                      \cup [kind : {"workload_port"}, name : WorkloadName \X PortName, key : {None}])
  /\ Probes # <<>>
  /\ \A j, k \in DOMAIN Probes : ResourceOf(Probes[j]) = ResourceOf(Probes[k]) => j = k

-----------------------------------------------------------------------------
(* One observation.                                                        *)

Ids == DOMAIN Observers
Probed == {ResourceOf(Probes[k]) : k \in DOMAIN Probes}

\* The corporate role asserts a principal.
CallerOf(i) ==
  [principal |-> Observers[i].principal, segment |-> Observers[i].segment, addr |-> Observers[i].addr]

\* What the platform answers a caller that asks for a probe's resource.
Answers(probe, caller) ==
  IF probe.kind = "bucket"
  THEN LET object == [bucket |-> probe.name, key |-> probe.key]
       IN IF ReadAllowed(platform, caller, object) THEN platform[ObjectSlot(object)] ELSE "refused"
  ELSE IF ConnectAllowed(platform, caller, probe.name[1], probe.name[2]) THEN "served" ELSE "refused"

\* An observation is Reachable when the answer is 200; a request that got no
\* answer is reported as one that was refused is.
Reachable(answer) == answer \notin {"refused", "lost"}

\* The document of an observer that got these answers, in order: its segment, and
\* an answer per resource.
Document(i, saw) ==
  {[segment |-> Observers[i].segment, resource |-> ResourceOf(Probes[k]), answer |-> saw[k]] :
     k \in DOMAIN saw}

-----------------------------------------------------------------------------
(* The reconciliation and the comparisons of sets of observations.         *)

\* Mutant: whatever an allowlist names is taken to be public.
EveryEntry(allowlist) == {[kind |-> e.kind, name |-> e.name] : e \in allowlist}

\* PublicEntries: the ranges decide, and for a bucket that everybody is named.
PublicEntries(allowlist) ==
  {[kind |-> e.kind, name |-> e.name] :
     e \in {e \in allowlist : /\ ProbeAddress \in Addresses(e.sources)
                              /\ e.kind = "bucket" => Anonymous \in e.principals}}

\* Mutant: every segment's observations are looked at.
ReachedFromAnywhere(set) == {o.resource : o \in {o \in set : Reachable(o.answer)}}

ReachedPublicly(set) ==
  {o.resource : o \in {o \in set : o.segment = "internet" /\ Reachable(o.answer)}}

\* The verdict over a transcript and the documents that follow it on the stream.
\* readStream refuses a stream without an observation.
Reconciled(t, set) ==
  LET reached == ReachedPublicly(set)
      unreviewed == reached \ PublicEntries(AllowlistOf[Scenarios[t.job].allowlist])
      verdict == IF unreviewed = {} THEN "PASS" ELSE "FAIL"
  IN [reached |-> reached, unreviewed |-> unreviewed, verdict |-> verdict,
      passed |-> t.passed /\ verdict = Scenarios[t.job].reconciliation]

\* Mutant: what a later set no longer reaches is no difference.
SameReachOneWay(first, second) == ReachedPublicly(second) \subseteq ReachedPublicly(first)

\* CompareReachability: the same resources, and each as reachable as before.
SameReach(first, second) ==
  LET public(set) == {o \in set : o.segment = "internet"}
      resources(set) == {o.resource : o \in public(set)}
  IN /\ public(first) # {} /\ resources(first) = resources(second)
     /\ ReachedPublicly(first) = ReachedPublicly(second)

\* CompareObservations: the sorted sets agree entry by entry, status and digest.
SameObservations(first, second) == first # {} /\ first = second

\* Mutant: only an enforced gate's decision is looked at.
ExposureDecided(t) ==
  IF t.decision = None \/ ~t.applied THEN {} ELSE {f \in t.decision.findings : f.kind # "class"}

\* appliedExposure: what the policy computed of what was applied.
AppliedExposure(t) ==
  LET decision == IF t.decision # None THEN t.decision ELSE t.would
  IN IF decision = None \/ ~t.applied THEN {} ELSE {f \in decision.findings : f.kind # "class"}

\* CompareApplication: the service answered both times, and the same.
SameApplication(first, second, service) ==
  LET answered(set) == {o.answer : o \in {o \in set : o.resource = service /\ Reachable(o.answer)}}
  IN answered(first) # {} /\ answered(first) = answered(second)

\* What the policy reports as exposed, and how it renders who reaches it: once
\* everybody is admitted, naming anybody else adds nothing.
Reachability(st) ==
  LET principals(b) == IF Anonymous \in BucketPrincipals(st, b) THEN {Anonymous} ELSE BucketPrincipals(st, b)
  IN {[resource |-> BucketTarget(b), principals |-> principals(b), sources |-> Merge(BucketRanges(st, b))] :
        b \in {b \in ListedBuckets(st) : BucketGrants(st, b) # {}}}
     \cup {[resource |-> [kind |-> "port", name |-> wp], principals |-> {}, sources |-> PortSources(st, wp[1], wp[2])] :
             wp \in ListedPorts(st)}

\* CompareExposures: the resources that both evaluations rendered are reached alike.
SameExposure(t, u) ==
  LET evaluated(x) == IF x.would # None THEN x.would ELSE x.decision
      exposed(x) == IF evaluated(x) = None \/ evaluated(x).class # "evaluated" THEN {}
                    ELSE Reachability(Evaluated(Scenarios[x.job]).st)
      shared == {e.resource : e \in exposed(t)} \cap {e.resource : e \in exposed(u)}
  IN /\ shared # {}
     /\ {e \in exposed(t) : e.resource \in shared} = {e \in exposed(u) : e.resource \in shared}

-----------------------------------------------------------------------------
(* The row of a reconciled transcript.                                     *)

EvaluatedBy(s, t) ==
  CASE s.scan /\ s.manifest # "" -> "base manifests"
    [] s.scan /\ s.manifest = "" -> "source text"
    [] ~s.scan /\ s.denylist     -> "resolved state (literals)"
    [] ~s.scan /\ ~s.denylist    -> IF t.decision # None THEN "resolved state" ELSE "nothing"

\* The source scans find nothing in what is checked in.
DecidedBy(s, t) ==
  IF s.scan THEN "0 findings"
  ELSE IF s.denylist THEN IF DenylistFindings(Evaluated(s).st) = {} THEN "0 findings" ELSE "findings"
  ELSE IF t.decision # None THEN t.decision.result ELSE "none"

Enforcement(t) ==
  IF t.outOfBand THEN "refused, applied anyway"
  ELSE IF t.advisory THEN "advisory, applied"
  ELSE IF t.applied THEN "applied" ELSE "refused"

StateChange(t) == IF t.before = t.after THEN "unchanged" ELSE "changed"

\* rowOf, with the names of the resources; a transcript has both state digests
\* when its scenario reads the control plane.
RowOf(t, reconciled) ==
  LET s == Scenarios[t.job] IN
  [scenario |-> t.job, evaluated |-> EvaluatedBy(s, t), decision |-> DecidedBy(s, t),
   enforcement |-> Enforcement(t), exposed |-> {f.name : f \in AppliedExposure(t)},
   reachable |-> {r.name : r \in reconciled.reached},
   state |-> IF s.skipRemote THEN "" ELSE StateChange(t), verdict |-> reconciled.verdict]
=============================================================================
