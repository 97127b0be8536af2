--------------------------- MODULE Configurations ---------------------------
(***************************************************************************)
(* What the value sets, overlays and allowlists of the repository (infra/, *)
(* policy/) have in common, as far as it matters to what a platform may    *)
(* expose on which several of them were applied one after the other.       *)
(***************************************************************************)
EXTENDS Pipeline

Configuration(id) == Evaluated(Scenarios[id])

\* Every value set and overlay describes resources that secure.tfvars describes
\* too, besides the grants that remove-undeclared enumerates.
ASSUME DescribedAssumption ==
  \A id \in ScenarioId : Scenarios[id].artifact = "" =>
    \A slot \in Slot \ UndeclaredSlots :
      Configuration(id).st[slot] # None => PlanOf["secure.tfvars"].st[slot] # None

\* The scenarios that are not meant to expose anything and that the gate lets pass.
Acceptable ==
  {id \in ScenarioId \ Exposing :
     Scenarios[id].artifact = "" /\ Admits(Configuration(id), AllowlistOf[Scenarios[id].allowlist])}

\* A configuration describes the bucket of every grant and the workload of every
\* rule in it.
ASSUME WholeAssumption ==
  \A id \in Acceptable :
    LET st == Configuration(id).st IN
      /\ \A b \in BucketName : GrantsOn(st, BucketTarget(b), "read") # {} => b \in ListedBuckets(st)
      /\ \A w \in WorkloadName, p \in PortName : RulesOn(st, w, p) # {} => Listed(st, WorkloadSlot(w))

\* None of them moves a workload to another bind address.
ASSUME BindAssumption ==
  \A id1, id2 \in Acceptable, w \in WorkloadName :
    LET slot == WorkloadSlot(w)
        st1 == Configuration(id1).st
        st2 == Configuration(id2).st
    IN Listed(st1, slot) /\ Listed(st2, slot) => st1[slot] = st2[slot]

\* What some allowlist names: none of them is a file without entries.
Named == UNION {AllowlistOf[Scenarios[id].allowlist] : id \in ScenarioId}

ASSUME NamedAssumption == Named # None

\* The gate admits what the repository applies behind it and refuses what it shows
\* as an exposure: the misconfigured value set with two findings, the one written
\* around the denylist's literals without one there.
ASSUME ShownAssumption ==
  \A id \in ScenarioId :
    LET s == Scenarios[id]
        graph == Evaluated(s)
    IN /\ s.expect = "applied" /\ s.gated /\ ~s.advisory => id \in Admissible
       /\ s.scan \/ s.denylist \/ s.advisory \/ s.outOfBand => id \notin Admissible
       /\ s.expect = "refused" /\ s.binding = "honest" /\ ~s.breakEngine => id \notin Admissible
       /\ s.denylist => DenylistFindings(graph.st) = {}
       /\ s.advisory => graph # Unparsable /\ Cardinality(FindingsOf(graph, AllowlistOf[s.allowlist])) >= 2

\* The grant that drifts in is none of the configuration, and opens a bucket of it
\* to everybody, whom no entry of the allowlist names there.
ASSUME DriftingAssumption ==
  \A id \in ScenarioId :
    LET s == Scenarios[id] IN
    s.drift =>
      /\ Evaluated(s).st[GrantSlot(ConsoleGrant)] = None
      /\ Evaluated(s).st[BucketSlot(ExportBucket)] # None
      /\ \A e \in AllowlistOf[s.allowlist] :
           e.kind = "bucket" /\ e.name = ExportBucket => Anonymous \notin e.principals
=============================================================================
