----------------------------- MODULE GatePolicy -----------------------------
(***************************************************************************)
(* The deny-by-default policy (policy/rego/gate.rego) over the normalized  *)
(* resource graph (internal/graph), as operators.  It computes for every   *)
(* bucket and workload port who can reach it, and admits a graph when      *)
(* nothing in it is strange and every exposure lies within one entry of    *)
(* the reviewed allowlist.                                                 *)
(*                                                                         *)
(* A graph carries the same resources as the platform state, so its slots  *)
(* are those of Authz: this is the second implementation of the permission *)
(* model, and what the two must agree on is stated at the end.             *)
(***************************************************************************)
EXTENDS Authz, FiniteSets

CONSTANT RuleName   \* the names of allowlist entries

\* CIDR blocks are disjoint or nested; every address, 0.0.0.0/0 and the segments
\* are blocks.
ASSUME BlocksAssumption ==
  /\ IsFiniteSet(Addr)
  /\ Addr \in Block /\ {} \notin Block /\ \A a \in Addr : {a} \in Block
  /\ \A a, b \in Block : a \cap b = {} \/ a \subseteq b \/ b \subseteq a
  /\ \A i \in DOMAIN Segments : Segments[i].cidr \in Block

-----------------------------------------------------------------------------
(* What the policy reads: a graph and the reviewed allowlist.              *)

\* unknown, unrecognized: resource types and fields the normalizer reported.
Graph == {g \in [st : [Slot -> Resource \cup {None}],
                 unknown : BOOLEAN, unrecognized : BOOLEAN] : IsState(g.st)}

BucketEntry == [rule : RuleName, kind : {"bucket"}, name : BucketName,
                principals : SUBSET (Principal \cup {Anonymous}), sources : SUBSET Cidr]
PortEntry == [rule : RuleName, kind : {"workload_port"},
              name : WorkloadName \X PortName, sources : SUBSET Cidr]
Entry == BucketEntry \cup PortEntry
Allowlist == {None} \cup SUBSET Entry

\* The resources a graph lists; grants and rules are no resources of it.
Listed(st, slot) == st[slot] # None
ListedBuckets(st) == {b \in BucketName : Listed(st, BucketSlot(b))}
ListedPorts(st) ==
  {wp \in WorkloadName \X PortName :
     Listed(st, WorkloadSlot(wp[1])) /\ st[WorkloadSlot(wp[1])].binds[wp[2]] # None}
NoResources(st) ==
  \A s \in Slot : s.kind \in {"bucket", "object", "workload"} => ~Listed(st, s)

-----------------------------------------------------------------------------
(* Effective exposure.                                                     *)

\* Mutant: only the blocks as they are written, adjacent ones stay apart.
MergeVerbatim(ranges) == ranges \ {Unparsable}

\* net.cidr_merge: the largest blocks inside the union of the ranges.
Merge(ranges) ==
  LET within == {b \in Block : b \subseteq Addresses(ranges)}
  IN {b \in within : \A c \in within : b \subseteq c => c = b}

BucketGrants(st, b) == GrantsOn(st, BucketTarget(b), "read")

BucketPrincipals(st, b) == UNION {st[GrantSlot(g)].principals : g \in BucketGrants(st, b)}
BucketRanges(st, b) == UNION {st[GrantSlot(g)].source_ranges : g \in BucketGrants(st, b)}

PortRanges(st, w, p) == UNION {st[RuleSlot(n)].source_ranges : n \in RulesOn(st, w, p)}

\* bind_reach: every segment that holds the bind address, not only the first;
\* an unreadable address would reach nobody and is a violation of its own.
BindReachBlocks(bind) ==
  CASE bind = Unspecified -> {Addr}
    [] bind \in Loopback  -> {}
    [] OTHER -> {Segments[i].cidr : i \in {j \in DOMAIN Segments : bind \in Segments[j].cidr}}

\* intersection: of two nested blocks the narrower one.
Narrower(blocks1, blocks2) ==
  {b \in blocks1 : \E c \in blocks2 : b \subseteq c}
    \cup {b \in blocks2 : \E c \in blocks1 : b \subseteq c}

PortSources(st, w, p) ==
  Merge(Narrower(Merge(PortRanges(st, w, p)),
                 BindReachBlocks(st[WorkloadSlot(w)].binds[p])))

-----------------------------------------------------------------------------
(* Admission.                                                              *)

\* Mutant: an allowed block that overlaps a source is enough.
SourcesTouched(got, allowed) ==
  \A c \in got : \E a \in allowed \ {Unparsable} : c \cap a # {}

\* Every source lies in one allowed block; an unreadable one allows nothing.
SourcesCovered(got, allowed) ==
  \A c \in got : \E a \in allowed \ {Unparsable} : c \subseteq a

\* The entries that admit a bucket or a port.  allowlist is a set of entries,
\* or None when the file has no entries at all.
Entries(allowlist) == IF allowlist = None THEN {} ELSE allowlist

AdmittingBucket(st, b, allowlist) ==
  {e \in Entries(allowlist) :
     /\ e.kind = "bucket" /\ e.name = b
     /\ BucketPrincipals(st, b) \subseteq e.principals
     /\ SourcesCovered(Merge(BucketRanges(st, b)), e.sources)}

AdmittingPort(st, w, p, allowlist) ==
  {e \in Entries(allowlist) :
     /\ e.kind = "workload_port" /\ e.name = <<w, p>>
     /\ SourcesCovered(PortSources(st, w, p), e.sources)}

BucketComputable(st, b) == Parses(BucketRanges(st, b))
PortComputable(st, w, p) == Parses(PortRanges(st, w, p))

-----------------------------------------------------------------------------
(* Violations and the decision.                                            *)

Unreadable(st) ==
  \/ \E g \in GrantId : st[GrantSlot(g)] # None /\ ~Parses(st[GrantSlot(g)].source_ranges)
  \/ \E n \in RuleId : st[RuleSlot(n)] # None /\ ~Parses(st[RuleSlot(n)].source_ranges)

\* The resources whose exposure no entry admits.
Uncovered(st, allowlist) ==
  {BucketTarget(b) : b \in {c \in ListedBuckets(st) :
     /\ BucketGrants(st, c) # {} /\ BucketComputable(st, c)
     /\ AdmittingBucket(st, c, allowlist) = {}}}
  \cup
  {[kind |-> "port", name |-> wp] : wp \in {x \in ListedPorts(st) :
     /\ PortComputable(st, x[1], x[2])
     /\ PortSources(st, x[1], x[2]) # {}
     /\ AdmittingPort(st, x[1], x[2], allowlist) = {}}}

Uncomputable(st) ==
  {BucketTarget(b) : b \in {c \in ListedBuckets(st) :
     BucketGrants(st, c) # {} /\ ~BucketComputable(st, c)}}
  \cup
  {[kind |-> "port", name |-> wp] : wp \in {x \in ListedPorts(st) : ~PortComputable(st, x[1], x[2])}}

ViolationClass ==
  {"empty_artifact", "missing_allowlist", "unknown_resource_type",
   "unrecognized_field", "unparsable_source_range", "unparsable_bind_address",
   "exposure_not_allowlisted", "uncomputable_exposure"}

\* The classes of violation the policy reports.
Violations(graph, allowlist) ==
  LET st == graph.st IN
  {class \in ViolationClass :
     CASE class = "empty_artifact"           -> NoResources(st)
       [] class = "missing_allowlist"        -> allowlist = None
       [] class = "unknown_resource_type"    -> graph.unknown
       [] class = "unrecognized_field"       -> graph.unrecognized
       [] class = "unparsable_source_range"  -> Unreadable(st)
       [] class = "unparsable_bind_address"  ->
            \E wp \in ListedPorts(st) : st[WorkloadSlot(wp[1])].binds[wp[2]] = Unparsable
       [] class = "exposure_not_allowlisted" -> Uncovered(st, allowlist) # {}
       [] class = "uncomputable_exposure"    -> Uncomputable(st) # {}}

\* Two entries that admit one resource under different names give the policy
\* function two answers: the engine stops with an error.
Conflicting(st, allowlist) ==
  \/ \E b \in ListedBuckets(st) :
       /\ BucketGrants(st, b) # {} /\ BucketComputable(st, b)
       /\ \E e, f \in AdmittingBucket(st, b, allowlist) : e.rule # f.rule
  \/ \E wp \in ListedPorts(st) :
       /\ PortComputable(st, wp[1], wp[2])
       /\ \E e, f \in AdmittingPort(st, wp[1], wp[2], allowlist) : e.rule # f.rule

\* Which answer the engine gives for a graph it evaluates to the end.
Admits(graph, allowlist) ==
  Violations(graph, allowlist) = {} /\ ~Conflicting(graph.st, allowlist)

-----------------------------------------------------------------------------
(* What an admission means for the platform's own authorizer (Authz).      *)

\* Every read of an object in a listed bucket is one an entry names.
ReadsNamed(st, allowlist) ==
  \A caller \in Caller, o \in ObjectId :
    o.bucket \in ListedBuckets(st) /\ ReadAllowed(st, caller, o) =>
      \E e \in Entries(allowlist) :
        /\ e.kind = "bucket" /\ e.name = o.bucket
        /\ {caller.principal, Anonymous} \cap e.principals # {}
        /\ caller.addr \in Addresses(e.sources)

\* Every connect to a port is one an entry names.
ConnectsNamed(st, allowlist) ==
  \A caller \in Caller, w \in WorkloadName, p \in PortName :
    ConnectAllowed(st, caller, w, p) =>
      \E e \in Entries(allowlist) :
        /\ e.kind = "workload_port" /\ e.name = <<w, p>>
        /\ caller.addr \in Addresses(e.sources)

ExposuresNamed(st, allowlist) == ReadsNamed(st, allowlist) /\ ConnectsNamed(st, allowlist)
=============================================================================
