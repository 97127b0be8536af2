---------------------------- MODULE PolicyProofs ----------------------------
(***************************************************************************)
(* Proofs about the policy, for any address space whose blocks nest, any   *)
(* graph and any allowlist: what it admits, the authorizer allows to       *)
(* nobody an entry does not name.                                          *)
(***************************************************************************)
EXTENDS GatePolicy, TLAPS, WellFoundedInduction, FiniteSetTheorems

-----------------------------------------------------------------------------
(* Segments.                                                               *)

\* Every nonempty set of naturals has a least element.
LEMMA LeastNat ==
  ASSUME NEW S \in SUBSET Nat, S # {}
  PROVE  \E i \in S : \A j \in S : i <= j
<1> DEFINE less == {p \in Nat \X Nat : p[1] < p[2]}
<1>1. IsWellFoundedOn(less, Nat)
  BY NatLessThanWellFounded DEF OpToRel
<1> HIDE DEF less
<1>2. PICK i \in S : \A j \in S : ~(<<j, i>> \in less)
  BY <1>1, WFMin
<1>3. ASSUME NEW j \in S
      PROVE  i <= j
  <2>1. i \in Nat /\ j \in Nat
    OBVIOUS
  <2>2. j < i => <<j, i>> \in less
    BY <2>1 DEF less
  <2> QED
    BY <1>2, <2>1, <2>2
<1> QED
  BY <1>3

\* FirstSegment finds a declared segment that holds the address (Store.Segment).
LEMMA FirstSegmentHolds ==
  ASSUME NEW a, FirstSegment(a) # 0
  PROVE  FirstSegment(a) \in DOMAIN Segments /\ a \in Segments[FirstSegment(a)].cidr
<1> DEFINE holding == {i \in DOMAIN Segments : a \in Segments[i].cidr}
<1>1. holding # {}
  BY DEF FirstSegment
<1>2. holding \in SUBSET Nat
  BY SegmentsAssumption
<1>3. PICK i \in holding : \A j \in holding : i <= j
  BY <1>1, <1>2, LeastNat
<1>4. FirstSegment(a) \in holding
  BY <1>1, <1>3 DEF FirstSegment
<1> QED
  BY <1>4

-----------------------------------------------------------------------------
(* The address arithmetic of the policy.                                   *)

\* Every block within the union of some ranges lies in one of the blocks that
\* net.cidr_merge makes of them.
LEMMA MergeCovers ==
  ASSUME NEW ranges, NEW c \in Block, c \subseteq Addresses(ranges)
  PROVE  \E m \in Merge(ranges) : c \subseteq m
<1> DEFINE within == {b \in Block : b \subseteq Addresses(ranges)}
           above == {b \in within : c \subseteq b}
           rest(b) == Cardinality(Addr) - Cardinality(b)
           rests == {rest(b) : b \in above}
<1>1. \A b \in Block : /\ IsFiniteSet(b) /\ Cardinality(b) \in Nat
                       /\ Cardinality(b) <= Cardinality(Addr)
  BY AddrAssumption, BlocksAssumption, FS_Subset, FS_CardinalityType
<1>2. Cardinality(Addr) \in Nat
  BY BlocksAssumption, FS_CardinalityType
<1>3. rests \in SUBSET Nat
  BY <1>1, <1>2
<1>4. c \in above
  OBVIOUS
<1>5. rests # {}
  BY <1>4
<1>6. PICK n \in rests : \A k \in rests : n <= k
  BY <1>3, <1>5, LeastNat
<1>7. PICK m \in above : n = rest(m)
  BY <1>6
<1>8. ASSUME NEW d \in within, m \subseteq d
      PROVE  d = m
  <2>1. d \in above
    BY <1>7, <1>8
  <2>2. rest(m) <= rest(d)
    BY <1>6, <1>7, <2>1
  <2>3. Cardinality(d) <= Cardinality(m)
    BY <1>1, <1>2, <2>2
  <2>4. Cardinality(m) <= Cardinality(d) /\ (Cardinality(m) = Cardinality(d) => m = d)
    BY <1>1, <1>8, FS_Subset
  <2> QED
    BY <1>1, <2>3, <2>4
<1>9. m \in Merge(ranges)
  BY <1>7, <1>8 DEF Merge
<1> QED
  BY <1>7, <1>9

\* What Merge makes is blocks.
LEMMA MergeBlocks ==
  ASSUME NEW ranges
  PROVE  Merge(ranges) \subseteq Block
BY DEF Merge

\* The ranges of a set of readable source ranges are blocks within their union.
LEMMA RangeInAddresses ==
  ASSUME NEW ranges, ranges \subseteq Cidr, NEW c \in ranges \ {Unparsable}
  PROVE  c \in Block /\ c \subseteq Addresses(ranges)
BY DEF Cidr, Addresses

\* A block that an entry's sources cover has every address of it named.
LEMMA CoveredIsNamed ==
  ASSUME NEW got, NEW allowed, SourcesCovered(got, allowed),
         NEW m \in got, NEW a \in m
  PROVE  a \in Addresses(allowed)
BY DEF SourcesCovered, Addresses

-----------------------------------------------------------------------------
(* The policy and the authorizer.                                          *)

\* The types of the resources of a graph, as the proofs use them.
LEMMA GraphTypes ==
  ASSUME NEW graph \in Graph
  PROVE  /\ \A g \in GrantId : graph.st[GrantSlot(g)] # None =>
              graph.st[GrantSlot(g)].source_ranges \subseteq Cidr
         /\ \A n \in RuleId : graph.st[RuleSlot(n)] # None =>
              graph.st[RuleSlot(n)].source_ranges \subseteq Cidr
<1> DEFINE st == graph.st
<1>1. IsState(st)
  BY DEF Graph
<1>2. ASSUME NEW g \in GrantId, st[GrantSlot(g)] # None
      PROVE  st[GrantSlot(g)].source_ranges \subseteq Cidr
  <2>1. GrantSlot(g) \in Slot /\ GrantSlot(g).kind = "grant"
    BY DEF GrantSlot, Slot
  <2>2. st[GrantSlot(g)] \in Grant
    BY <1>1, <1>2, <2>1 DEF IsState, ValueOf
  <2> QED
    BY <2>2 DEF Grant
<1>3. ASSUME NEW n \in RuleId, st[RuleSlot(n)] # None
      PROVE  st[RuleSlot(n)].source_ranges \subseteq Cidr
  <2>1. RuleSlot(n) \in Slot /\ RuleSlot(n).kind = "network_rule"
    BY DEF RuleSlot, Slot
  <2>2. st[RuleSlot(n)] \in NetworkRule
    BY <1>1, <1>3, <2>1 DEF IsState, ValueOf
  <2> QED
    BY <2>2 DEF NetworkRule
<1> QED
  BY <1>2, <1>3

\* A graph without violations leaves nothing uncovered and nothing uncomputed.
LEMMA NoViolations ==
  ASSUME NEW graph, NEW allowlist, Violations(graph, allowlist) = {}
  PROVE  Uncovered(graph.st, allowlist) = {} /\ Uncomputable(graph.st) = {}
BY DEF Violations, ViolationClass

\* Whom a grant on a listed bucket of an admitted graph lets read, and from
\* where, is named by an entry.
LEMMA GrantIsNamed ==
  ASSUME NEW graph \in Graph, NEW allowlist \in Allowlist, Admits(graph, allowlist),
         NEW b \in ListedBuckets(graph.st), NEW g \in BucketGrants(graph.st, b),
         NEW addr \in Addresses(graph.st[GrantSlot(g)].source_ranges)
  PROVE  \E e \in Entries(allowlist) :
           /\ e.kind = "bucket" /\ e.name = b
           /\ graph.st[GrantSlot(g)].principals \subseteq e.principals
           /\ addr \in Addresses(e.sources)
<1> DEFINE st == graph.st
<1>1. Uncovered(st, allowlist) = {} /\ Uncomputable(st) = {}
  BY NoViolations DEF Admits
<1>2. g \in GrantId /\ st[GrantSlot(g)] # None
  BY DEF GrantsOn, BucketGrants
<1>3. PICK c \in st[GrantSlot(g)].source_ranges \ {Unparsable} : addr \in c
  BY DEF Addresses
<1>4. BucketComputable(st, b)
  BY <1>1 DEF Uncomputable
<1>5. PICK e \in AdmittingBucket(st, b, allowlist) : TRUE
  BY <1>1, <1>4 DEF Uncovered
<1>6. st[GrantSlot(g)].principals \subseteq BucketPrincipals(st, b)
  BY DEF BucketPrincipals
<1>7. c \in Block /\ c \subseteq Addresses(BucketRanges(st, b))
  <2>1. c \in Block
    BY <1>2, <1>3, GraphTypes DEF Cidr
  <2>2. c \in BucketRanges(st, b) \ {Unparsable}
    BY <1>3 DEF BucketRanges
  <2> QED
    BY <2>1, <2>2 DEF Addresses
<1>8. PICK m \in Merge(BucketRanges(st, b)) : c \subseteq m
  BY <1>7, MergeCovers
<1>9. /\ e \in Entries(allowlist) /\ e.kind = "bucket" /\ e.name = b
      /\ BucketPrincipals(st, b) \subseteq e.principals
      /\ SourcesCovered(Merge(BucketRanges(st, b)), e.sources)
  BY <1>5 DEF AdmittingBucket
<1>10. addr \in Addresses(e.sources)
  BY <1>3, <1>8, <1>9, CoveredIsNamed
<1>11. st[GrantSlot(g)].principals \subseteq e.principals
  BY <1>6, <1>9
<1> QED
  BY <1>9, <1>10, <1>11

\* An admitted graph's buckets are read by nobody an entry does not name.
LEMMA ReadsAreNamed ==
  ASSUME NEW graph \in Graph, NEW allowlist \in Allowlist, Admits(graph, allowlist)
  PROVE  ReadsNamed(graph.st, allowlist)
<1> DEFINE st == graph.st
<1> SUFFICES ASSUME NEW caller \in Caller, NEW o \in ObjectId,
                    o.bucket \in ListedBuckets(st), ReadAllowed(st, caller, o)
             PROVE  \E e \in Entries(allowlist) :
                      /\ e.kind = "bucket" /\ e.name = o.bucket
                      /\ {caller.principal, Anonymous} \cap e.principals # {}
                      /\ caller.addr \in Addresses(e.sources)
  BY DEF ReadsNamed
<1>1. PICK g \in BucketGrants(st, o.bucket) :
         /\ {caller.principal, Anonymous} \cap st[GrantSlot(g)].principals # {}
         /\ caller.addr \in Addresses(st[GrantSlot(g)].source_ranges)
  BY DEF ReadAllowed, BucketGrants
<1>2. PICK e \in Entries(allowlist) :
        /\ e.kind = "bucket" /\ e.name = o.bucket
        /\ st[GrantSlot(g)].principals \subseteq e.principals
        /\ caller.addr \in Addresses(e.sources)
  BY <1>1, GrantIsNamed
<1> QED BY <1>1, <1>2

\* What a bind address serves for the authorizer lies in one of the blocks the
\* policy takes it to serve.
LEMMA BindReachAgrees ==
  ASSUME NEW bind \in Addr, NEW a \in BindReach(bind)
  PROVE  \E r \in BindReachBlocks(bind) : r \in Block /\ a \in r
<1>1. CASE bind \in Loopback
  BY <1>1, AddrAssumption DEF BindReach
<1>2. CASE bind = Unspecified
  BY <1>2, AddrAssumption, BlocksAssumption DEF BindReach, BindReachBlocks
<1>3. CASE bind \notin Loopback /\ bind # Unspecified
  <2> DEFINE i == FirstSegment(bind)
  <2>1. i # 0 /\ a \in Segments[i].cidr
    BY <1>3 DEF BindReach
  <2>2. i \in DOMAIN Segments /\ bind \in Segments[i].cidr
    BY <2>1, FirstSegmentHolds
  <2>3. Segments[i].cidr \in BindReachBlocks(bind)
    BY <1>3, <2>2 DEF BindReachBlocks
  <2> QED
    BY <2>1, <2>2, <2>3, BlocksAssumption
<1> QED
  BY <1>1, <1>2, <1>3

\* Whom a rule on a listed port of an admitted graph lets in, as far as the bind
\* address serves it, is named by an entry.
LEMMA RuleIsNamed ==
  ASSUME NEW graph \in Graph, NEW allowlist \in Allowlist, Admits(graph, allowlist),
         NEW w \in WorkloadName, NEW p \in PortName, <<w, p>> \in ListedPorts(graph.st),
         graph.st[WorkloadSlot(w)].binds[p] # Unparsable,
         NEW n \in RulesOn(graph.st, w, p),
         NEW addr \in Addresses(graph.st[RuleSlot(n)].source_ranges),
         addr \in BindReach(graph.st[WorkloadSlot(w)].binds[p])
  PROVE  \E e \in Entries(allowlist) :
           /\ e.kind = "workload_port" /\ e.name = <<w, p>>
           /\ addr \in Addresses(e.sources)
<1> DEFINE st == graph.st
           bind == st[WorkloadSlot(w)].binds[p]
<1>2. Uncovered(st, allowlist) = {} /\ Uncomputable(st) = {}
  BY NoViolations DEF Admits
<1>3. st[WorkloadSlot(w)] # None /\ bind # None
  BY DEF ListedPorts, Listed
<1>4. bind \in Addr
  <2>1. st[WorkloadSlot(w)] \in Workload
    <3>1. WorkloadSlot(w) \in Slot /\ WorkloadSlot(w).kind = "workload"
      BY DEF WorkloadSlot, Slot
    <3> QED
      BY <1>3, <3>1 DEF Graph, IsState, ValueOf
  <2>2. bind \in Bind \cup {None}
    BY <2>1 DEF Workload
  <2> QED
    BY <1>3, <2>2 DEF Bind
<1>6. PICK c \in st[RuleSlot(n)].source_ranges \ {Unparsable} : addr \in c
  BY DEF Addresses
<1>7. c \in Block /\ c \subseteq Addresses(PortRanges(st, w, p))
  <2>1. n \in RuleId /\ st[RuleSlot(n)] # None
    BY DEF RulesOn
  <2>2. c \in Block
    BY <1>6, <2>1, GraphTypes DEF Cidr
  <2>3. c \in PortRanges(st, w, p) \ {Unparsable}
    BY <1>6 DEF PortRanges
  <2> QED
    BY <2>2, <2>3 DEF Addresses
<1>8. PICK m \in Merge(PortRanges(st, w, p)) : c \subseteq m
  BY <1>7, MergeCovers
<1>10. PICK r \in BindReachBlocks(bind) : r \in Block /\ addr \in r
  BY <1>4, BindReachAgrees
<1> DEFINE both == Narrower(Merge(PortRanges(st, w, p)), BindReachBlocks(bind))
\* The blocks m and r share the address, so the narrower one is in both.
<1>11. PICK k \in both : k \in Block /\ addr \in k
  <2>1. m \in Block /\ addr \in m
    BY <1>6, <1>8, MergeBlocks
  <2>2. m \subseteq r \/ r \subseteq m
    BY <1>10, <2>1, BlocksAssumption
  <2> QED
    BY <1>8, <1>10, <2>1, <2>2 DEF Narrower
<1>12. k \subseteq Addresses(both)
  <2>1. k # Unparsable
    BY <1>11, AddrAssumption
  <2> QED
    BY <1>11, <2>1 DEF Addresses
<1>13. PICK s \in PortSources(st, w, p) : k \subseteq s
  BY <1>11, <1>12, MergeCovers DEF PortSources
<1> DEFINE wp == <<w, p>>
<1>14. PortComputable(st, w, p)
  <2>1. wp[1] = w /\ wp[2] = p
    OBVIOUS
  <2>2. ~PortComputable(st, wp[1], wp[2]) => [kind |-> "port", name |-> wp] \in Uncomputable(st)
    BY DEF Uncomputable
  <2> QED
    BY <1>2, <2>1, <2>2
<1>15. PICK e \in AdmittingPort(st, w, p, allowlist) : TRUE
  <2>1. wp[1] = w /\ wp[2] = p
    OBVIOUS
  <2>2. AdmittingPort(st, wp[1], wp[2], allowlist) = {} =>
          [kind |-> "port", name |-> wp] \in Uncovered(st, allowlist)
    BY <1>13, <1>14, <2>1 DEF Uncovered
  <2> QED
    BY <1>2, <2>1, <2>2
<1>16. /\ e \in Entries(allowlist) /\ e.kind = "workload_port" /\ e.name = <<w, p>>
       /\ SourcesCovered(PortSources(st, w, p), e.sources)
  BY <1>15 DEF AdmittingPort
<1>17. addr \in Addresses(e.sources)
  BY <1>11, <1>13, <1>16, CoveredIsNamed
<1> QED
  BY <1>16, <1>17

\* An admitted graph's ports are reached by nobody an entry does not name.
LEMMA ConnectsAreNamed ==
  ASSUME NEW graph \in Graph, NEW allowlist \in Allowlist, Admits(graph, allowlist)
  PROVE  ConnectsNamed(graph.st, allowlist)
<1> DEFINE st == graph.st
<1> SUFFICES ASSUME NEW caller \in Caller, NEW w \in WorkloadName, NEW p \in PortName,
                    ConnectAllowed(st, caller, w, p)
             PROVE  \E e \in Entries(allowlist) :
                      /\ e.kind = "workload_port" /\ e.name = <<w, p>>
                      /\ caller.addr \in Addresses(e.sources)
  BY DEF ConnectsNamed
<1>1. <<w, p>> \in ListedPorts(st)
  BY DEF ConnectAllowed, ListedPorts, Listed
<1>2. PICK n \in RulesOn(st, w, p) : caller.addr \in Addresses(st[RuleSlot(n)].source_ranges)
  BY DEF ConnectAllowed, EffectiveIngress
<1>3. /\ caller.addr \in BindReach(st[WorkloadSlot(w)].binds[p])
      /\ st[WorkloadSlot(w)].binds[p] # Unparsable
  BY DEF ConnectAllowed, EffectiveIngress, IngressComputable
<1> QED BY <1>1, <1>2, <1>3, RuleIsNamed

\* The policy is sound for the authorizer: gate.rego against authz.go.
THEOREM PolicySound ==
  ASSUME NEW graph \in Graph, NEW allowlist \in Allowlist, Admits(graph, allowlist)
  PROVE  ExposuresNamed(graph.st, allowlist)
BY ReadsAreNamed, ConnectsAreNamed DEF ExposuresNamed

-----------------------------------------------------------------------------
(* Spellings of one reachability.                                          *)

\* Two states that list the same resources and spell the sources of a grant or
\* a rule differently at most.
SameRanges(ranges1, ranges2) ==
  Parses(ranges1) = Parses(ranges2) /\ Addresses(ranges1) = Addresses(ranges2)

SpelledAlike(st, tt) ==
  /\ \A slot \in Slot : tt[slot] = None <=> st[slot] = None
  /\ \A slot \in Slot : slot.kind \notin {"grant", "network_rule"} => tt[slot] = st[slot]
  /\ \A g \in GrantId : st[GrantSlot(g)] # None =>
       /\ tt[GrantSlot(g)].target = st[GrantSlot(g)].target
       /\ tt[GrantSlot(g)].actions = st[GrantSlot(g)].actions
       /\ tt[GrantSlot(g)].principals = st[GrantSlot(g)].principals
       /\ SameRanges(st[GrantSlot(g)].source_ranges, tt[GrantSlot(g)].source_ranges)
  /\ \A n \in RuleId : st[RuleSlot(n)] # None =>
       /\ tt[RuleSlot(n)].workload = st[RuleSlot(n)].workload
       /\ tt[RuleSlot(n)].port = st[RuleSlot(n)].port
       /\ SameRanges(st[RuleSlot(n)].source_ranges, tt[RuleSlot(n)].source_ranges)

\* Merging looks at the addresses only.
LEMMA MergeAlike ==
  ASSUME NEW ranges1, NEW ranges2, SameRanges(ranges1, ranges2)
  PROVE  Merge(ranges1) = Merge(ranges2)
BY DEF Merge, SameRanges

\* The unions of two sets of ranges with a match on the other side for each.
LEMMA UnionAlike ==
  ASSUME NEW A, NEW B,
         \A r \in A : \E q \in B : SameRanges(r, q),
         \A q \in B : \E r \in A : SameRanges(r, q)
  PROVE  SameRanges(UNION A, UNION B)
<1>1. Parses(UNION A) = Parses(UNION B)
  BY DEF SameRanges, Parses
<1>2. \A a : a \in Addresses(UNION A) <=> \E r \in A : a \in Addresses(r)
  BY DEF Addresses
<1>3. \A a : a \in Addresses(UNION B) <=> \E q \in B : a \in Addresses(q)
  BY DEF Addresses
<1>4. \A a : a \in Addresses(UNION A) <=> a \in Addresses(UNION B)
  <2> TAKE a
  <2>1. ASSUME a \in Addresses(UNION A) PROVE a \in Addresses(UNION B)
    <3>1. PICK r \in A : a \in Addresses(r)
      BY <1>2, <2>1
    <3>2. PICK q \in B : SameRanges(r, q)
      OBVIOUS
    <3> QED
      BY <1>3, <3>1, <3>2 DEF SameRanges
  <2>2. ASSUME a \in Addresses(UNION B) PROVE a \in Addresses(UNION A)
    <3>1. PICK q \in B : a \in Addresses(q)
      BY <1>3, <2>2
    <3>2. PICK r \in A : SameRanges(r, q)
      OBVIOUS
    <3> QED
      BY <1>2, <3>1, <3>2 DEF SameRanges
  <2> QED
    BY <2>1, <2>2
<1>5. Addresses(UNION A) = Addresses(UNION B)
  <2> DEFINE X == Addresses(UNION A)
             Y == Addresses(UNION B)
  <2>1. \A a : a \in X <=> a \in Y
    BY <1>4
  <2> HIDE DEF X, Y
  <2>2. X = Y
    BY <2>1, Zenon
  <2> QED
    BY <2>2 DEF X, Y
<1> QED
  BY <1>1, <1>5 DEF SameRanges

\* The slots of the resources, and their kinds.
LEMMA SlotKinds ==
  /\ \A b \in BucketName : BucketSlot(b) \in Slot /\ BucketSlot(b).kind = "bucket"
  /\ \A g \in GrantId : GrantSlot(g) \in Slot /\ GrantSlot(g).kind = "grant"
  /\ \A w \in WorkloadName : WorkloadSlot(w) \in Slot /\ WorkloadSlot(w).kind = "workload"
  /\ \A n \in RuleId : RuleSlot(n) \in Slot /\ RuleSlot(n).kind = "network_rule"
BY DEF BucketSlot, GrantSlot, WorkloadSlot, RuleSlot, Slot

\* What the policy computes of a bucket does not depend on the spelling.
LEMMA BucketAlike ==
  ASSUME NEW st, NEW tt, SpelledAlike(st, tt), NEW b \in BucketName
  PROVE  /\ BucketGrants(tt, b) = BucketGrants(st, b)
         /\ BucketPrincipals(tt, b) = BucketPrincipals(st, b)
         /\ SameRanges(BucketRanges(st, b), BucketRanges(tt, b))
<1>1. BucketGrants(tt, b) = BucketGrants(st, b)
  BY SlotKinds DEF SpelledAlike, BucketGrants, GrantsOn
<1>2. \A g \in BucketGrants(st, b) : g \in GrantId /\ st[GrantSlot(g)] # None
  BY DEF BucketGrants, GrantsOn
<1>3. BucketPrincipals(tt, b) = BucketPrincipals(st, b)
  BY <1>1, <1>2 DEF SpelledAlike, BucketPrincipals
<1>4. SameRanges(BucketRanges(st, b), BucketRanges(tt, b))
  <2> DEFINE A == {st[GrantSlot(g)].source_ranges : g \in BucketGrants(st, b)}
             B == {tt[GrantSlot(g)].source_ranges : g \in BucketGrants(st, b)}
  <2>1. \A r \in A : \E q \in B : SameRanges(r, q)
    BY <1>2 DEF SpelledAlike
  <2>2. \A q \in B : \E r \in A : SameRanges(r, q)
    BY <1>2 DEF SpelledAlike
  <2>3. SameRanges(UNION A, UNION B)
    <3> HIDE DEF A, B
    <3> QED BY <2>1, <2>2, UnionAlike
  <2> QED
    BY <1>1, <2>3 DEF BucketRanges
<1> QED
  BY <1>1, <1>3, <1>4

\* Nor does what it computes of a workload port.
LEMMA PortAlike ==
  ASSUME NEW st, NEW tt, SpelledAlike(st, tt), NEW w \in WorkloadName, NEW p \in PortName
  PROVE  /\ tt[WorkloadSlot(w)] = st[WorkloadSlot(w)]
         /\ SameRanges(PortRanges(st, w, p), PortRanges(tt, w, p))
         /\ PortSources(tt, w, p) = PortSources(st, w, p)
<1>1. tt[WorkloadSlot(w)] = st[WorkloadSlot(w)]
  BY SlotKinds DEF SpelledAlike
<1>2. RulesOn(tt, w, p) = RulesOn(st, w, p)
  BY SlotKinds DEF SpelledAlike, RulesOn
<1>3. \A n \in RulesOn(st, w, p) : n \in RuleId /\ st[RuleSlot(n)] # None
  BY DEF RulesOn
<1>4. SameRanges(PortRanges(st, w, p), PortRanges(tt, w, p))
  <2> DEFINE A == {st[RuleSlot(n)].source_ranges : n \in RulesOn(st, w, p)}
             B == {tt[RuleSlot(n)].source_ranges : n \in RulesOn(st, w, p)}
  <2>1. \A r \in A : \E q \in B : SameRanges(r, q)
    BY <1>3 DEF SpelledAlike
  <2>2. \A q \in B : \E r \in A : SameRanges(r, q)
    BY <1>3 DEF SpelledAlike
  <2>3. SameRanges(UNION A, UNION B)
    <3> HIDE DEF A, B
    <3> QED BY <2>1, <2>2, UnionAlike
  <2> QED
    BY <1>2, <2>3 DEF PortRanges
<1>5. PortSources(tt, w, p) = PortSources(st, w, p)
  BY <1>1, <1>4, MergeAlike DEF PortSources
<1> QED
  BY <1>1, <1>4, <1>5

\* The policy finds the same in two graphs that are spelled alike.
LEMMA ViolationsAlike ==
  ASSUME NEW graph, NEW other, NEW allowlist, SpelledAlike(graph.st, other.st),
         other.unknown = graph.unknown, other.unrecognized = graph.unrecognized
  PROVE  Violations(other, allowlist) = Violations(graph, allowlist)
<1> DEFINE st == graph.st
           tt == other.st
<1>1. \A s \in Slot : Listed(tt, s) <=> Listed(st, s)
  BY DEF SpelledAlike, Listed
<1>2. NoResources(tt) = NoResources(st)
  BY <1>1 DEF NoResources
<1>3. ListedBuckets(tt) = ListedBuckets(st)
  BY <1>1, SlotKinds DEF ListedBuckets
<1>4. ListedPorts(tt) = ListedPorts(st)
  BY <1>1, PortAlike, SlotKinds DEF ListedPorts
<1>5. Unreadable(tt) = Unreadable(st)
  BY SlotKinds DEF Unreadable, SpelledAlike, SameRanges
<1>6. \A b \in ListedBuckets(st) :
        /\ BucketGrants(tt, b) = BucketGrants(st, b)
        /\ BucketComputable(tt, b) = BucketComputable(st, b)
        /\ AdmittingBucket(tt, b, allowlist) = AdmittingBucket(st, b, allowlist)
  <2> TAKE b \in ListedBuckets(st)
  <2>1. b \in BucketName
    BY DEF ListedBuckets
  <2>2. Merge(BucketRanges(tt, b)) = Merge(BucketRanges(st, b))
    BY <2>1, BucketAlike, MergeAlike
  <2>3. AdmittingBucket(tt, b, allowlist) = AdmittingBucket(st, b, allowlist)
    BY <2>1, <2>2, BucketAlike DEF AdmittingBucket
  <2>4. BucketComputable(tt, b) = BucketComputable(st, b)
    BY <2>1, BucketAlike DEF BucketComputable, SameRanges
  <2> QED
    BY <2>1, <2>3, <2>4, BucketAlike
<1>7. \A wp \in ListedPorts(st) :
        /\ PortComputable(tt, wp[1], wp[2]) = PortComputable(st, wp[1], wp[2])
        /\ PortSources(tt, wp[1], wp[2]) = PortSources(st, wp[1], wp[2])
        /\ AdmittingPort(tt, wp[1], wp[2], allowlist) = AdmittingPort(st, wp[1], wp[2], allowlist)
        /\ tt[WorkloadSlot(wp[1])] = st[WorkloadSlot(wp[1])]
  <2> TAKE wp \in ListedPorts(st)
  <2>1. wp[1] \in WorkloadName /\ wp[2] \in PortName
    BY DEF ListedPorts
  <2>2. AdmittingPort(tt, wp[1], wp[2], allowlist) = AdmittingPort(st, wp[1], wp[2], allowlist)
    BY <2>1, PortAlike DEF AdmittingPort
  <2>3. PortComputable(tt, wp[1], wp[2]) = PortComputable(st, wp[1], wp[2])
    BY <2>1, PortAlike DEF PortComputable, SameRanges
  <2> QED
    BY <2>1, <2>2, <2>3, PortAlike
<1>8. Uncovered(tt, allowlist) = Uncovered(st, allowlist)
  BY <1>3, <1>4, <1>6, <1>7 DEF Uncovered
<1>9. Uncomputable(tt) = Uncomputable(st)
  BY <1>3, <1>4, <1>6, <1>7 DEF Uncomputable
<1>10. (\E wp \in ListedPorts(tt) : tt[WorkloadSlot(wp[1])].binds[wp[2]] = Unparsable)
         = (\E wp \in ListedPorts(st) : st[WorkloadSlot(wp[1])].binds[wp[2]] = Unparsable)
  BY <1>4, <1>7
<1> QED
  BY <1>2, <1>5, <1>8, <1>9, <1>10 DEF Violations
=============================================================================
