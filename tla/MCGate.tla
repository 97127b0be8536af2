------------------------------- MODULE MCGate -------------------------------
(***************************************************************************)
(* Small instances of Gate for TLC: eight addresses with every aligned     *)
(* block of them, one bucket with up to two grants, one port with a rule.  *)
(***************************************************************************)
EXTENDS Gate, TLC

CONSTANTS n0, n1, n2, n3, n4, n5, n6, n7,
          finance, exports, refunds, engine_, admin, g1, g2, r1, sealed, body,
          byFinance, byEverybody, byBoth, byOperations

\* The addresses in order, and the aligned blocks: /0 is 0..7.
MCAddrs == <<n0, n1, n2, n3, n4, n5, n6, n7>>
B(lo, hi) == {MCAddrs[i] : i \in (lo + 1)..(hi + 1)}
Only(i) == B(i, i)
MCAddr == B(0, 7)
MCBlock == {B(i, i) : i \in 0..7} \cup {B(i, i + 1) : i \in {0, 2, 4, 6}}
             \cup {B(0, 3), B(4, 7), B(0, 7)}
Corp == B(2, 3)
Net == B(4, 5)
MCSegments == <<[name |-> "corp", cidr |-> Corp], [name |-> "internet", cidr |-> Net]>>

Graphs(st) == [st |-> st, unknown |-> FALSE, unrecognized |-> FALSE]

Refunds == [bucket |-> exports, key |-> refunds]
ReadGrant(ps, rs) ==
  [target |-> BucketTarget(exports), principals |-> ps, actions |-> {"read"}, source_ranges |-> rs]

\* The bucket with its object and two grants.
Storage(a, b) ==
  [s \in Slot |->
     CASE s = BucketSlot(exports) -> sealed
       [] s = ObjectSlot(Refunds) -> body
       [] s = GrantSlot(g1)       -> a
       [] s = GrantSlot(g2)       -> b
       [] OTHER                   -> None]

PrincipalSets == {{finance}, {Anonymous}, {finance, Anonymous}}
RangeSets == {{}, {Corp}, {Only(2), Only(3)}, {Only(3)}, {Corp, Net}, {B(0, 3), B(4, 7)}, {Unparsable, Corp}}
StorageGraphs ==
  {Graphs(Storage(ReadGrant(ps, rs), b)) :
     ps \in PrincipalSets, rs \in RangeSets,
     b \in {None, ReadGrant({finance}, {Only(2)}), ReadGrant({finance}, {Net}),
            [ReadGrant({Anonymous}, {B(0, 7)}) EXCEPT !.actions = {"write"}]}}
  \cup {[Graphs(Storage(ReadGrant({finance}, {Corp}), None)) EXCEPT !.unknown = TRUE],
        [Graphs(Storage(ReadGrant({finance}, {Corp}), None)) EXCEPT !.unrecognized = TRUE],
        Graphs([s \in Slot |-> None]), Graphs(Storage(None, None)),
        \* the grant is there and the bucket it opens is not listed
        Graphs([Storage(ReadGrant({Anonymous}, {B(0, 7)}), None) EXCEPT ![BucketSlot(exports)] = None])}

\* The fare engine's admin port, its bind address and its one rule.
Fabric(bind, rs) ==
  [s \in Slot |->
     CASE s = WorkloadSlot(engine_) -> [binds |-> [p \in PortName |-> bind]]
       [] s = RuleSlot(r1) -> [workload |-> engine_, port |-> admin, source_ranges |-> rs]
       [] OTHER            -> None]
FabricGraphs ==
  {Graphs(Fabric(bind, rs)) : bind \in {None, n0, n2, n4, n1, n7, Unparsable}, rs \in RangeSets}

BucketRule(rule, ps, rs) ==
  [rule |-> rule, kind |-> "bucket", name |-> exports, principals |-> ps, sources |-> rs]
PortRule(rule, rs) ==
  [rule |-> rule, kind |-> "workload_port", name |-> <<engine_, admin>>, sources |-> rs]

Allowlists ==
  {None, {},
   {BucketRule(byFinance, {finance}, {Corp})},
   {BucketRule(byFinance, {finance}, {Corp}), BucketRule(byEverybody, {Anonymous}, {B(0, 7)})},
   {BucketRule(byBoth, {finance, Anonymous}, {B(0, 3), B(4, 7)})},
   {BucketRule(byFinance, {finance}, {Only(2), Only(3), Unparsable})},
   {PortRule(byOperations, {Only(2)})},
   {PortRule(byOperations, {Only(2)}), PortRule(byEverybody, {Corp, Net})}}

Run(a, l) == [artifact |-> a, file |-> "readable", allowlist |-> l, bundle |-> "gate"]

\* What can go wrong around the policy, on one graph it admits and one it does not.
FaultRuns ==
  [artifact  : {Unparsable, Graphs(Storage(ReadGrant({finance}, {Corp}), None)),
                Graphs(Storage(ReadGrant({Anonymous}, {Corp}), None))},
   file      : {"readable", "absent"},
   allowlist : {None, {BucketRule(byFinance, {finance}, {Corp})}},
   bundle    : {"gate", "empty", "foreign"}]

PolicyInputs == {Run(a, l) : a \in StorageGraphs \cup FabricGraphs, l \in Allowlists}
FaultInputs == FaultRuns
AllInputs == PolicyInputs \cup FaultInputs
=============================================================================
