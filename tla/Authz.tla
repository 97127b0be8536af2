------------------------------- MODULE Authz -------------------------------
(***************************************************************************)
(* The permission model of the democloud platform: what a grant, a network *)
(* rule and a bind address let a caller do (internal/platform/model.go and *)
(* internal/platform/authz.go).  Constant-level operators only; the module *)
(* is shared by the control plane, by the deployment gate and by the drift *)
(* check, which all decide over the same resources.                        *)
(*                                                                         *)
(* Platform state is one function `st' from a slot (a kind and an          *)
(* identity) to the resource stored there, or None.  A CIDR is the set of  *)
(* addresses it covers, or Unparsable; the slots of one kind are one of    *)
(* the sorted lists of platform.State.                                     *)
(***************************************************************************)
EXTENDS Naturals, Sequences

CONSTANTS
  Addr,         \* IPv4 addresses
  Block,        \* the address blocks a CIDR can denote
  Loopback,     \* addresses of 127.0.0.0/8
  Unspecified,  \* 0.0.0.0
  Segments,     \* the declared segments, in name order: [name, cidr]
  Principal,    \* declared principals
  Anonymous,    \* "*"
  BucketName,
  ObjectKey,
  WorkloadName,
  PortName,
  GrantId,
  RuleId,
  Setting,      \* settings of a bucket (encryption, log retention)
  Body,         \* object contents
  None,
  Unparsable    \* a source range or a bind address that cannot be read

ASSUME AddrAssumption ==
  /\ Block \subseteq SUBSET Addr
  /\ Loopback \subseteq Addr
  /\ Unspecified \in Addr \ Loopback
  /\ Unparsable \notin Addr \cup Block

ASSUME SegmentsAssumption ==
  Segments \in Seq([name : STRING, cidr : SUBSET Addr])

ASSUME PrincipalAssumption == Anonymous \notin Principal

-----------------------------------------------------------------------------
(* Resources, the callers that act on them, and the slots they live in.    *)

Cidr == Block \cup {Unparsable}
Bind == Addr \cup {Unparsable}

\* What a grant applies to: a bucket or a workload.
Target ==
  [kind : {"bucket"}, name : BucketName]
    \cup [kind : {"workload"}, name : WorkloadName]

BucketTarget(b) == [kind |-> "bucket", name |-> b]
WorkloadTarget(w) == [kind |-> "workload", name |-> w]

Grant == [target        : Target,
          principals    : SUBSET (Principal \cup {Anonymous}),
          actions       : SUBSET {"read", "write"},
          source_ranges : SUBSET Cidr]

NetworkRule == [workload : WorkloadName, port : PortName, source_ranges : SUBSET Cidr]

\* A workload is the bind address of each port it declares.
Workload == [binds : [PortName -> Bind \cup {None}]]

ObjectId == [bucket : BucketName, key : ObjectKey]

BucketSlot(b) == [kind |-> "bucket", id |-> b]
ObjectSlot(o) == [kind |-> "object", id |-> o]
GrantSlot(g) == [kind |-> "grant", id |-> g]
WorkloadSlot(w) == [kind |-> "workload", id |-> w]
RuleSlot(n) == [kind |-> "network_rule", id |-> n]

Slot == [kind : {"bucket"}, id : BucketName]
          \cup [kind : {"object"}, id : ObjectId]
          \cup [kind : {"grant"}, id : GrantId]
          \cup [kind : {"workload"}, id : WorkloadName]
          \cup [kind : {"network_rule"}, id : RuleId]

ValueOf(kind) ==
  CASE kind = "bucket"       -> Setting
    [] kind = "object"       -> Body
    [] kind = "grant"        -> Grant
    [] kind = "workload"     -> Workload
    [] kind = "network_rule" -> NetworkRule

Resource == Setting \cup Body \cup Grant \cup Workload \cup NetworkRule

\* The states of the platform's configuration (its change ledger apart).
IsState(st) ==
  /\ st \in [Slot -> Resource \cup {None}]
  /\ \A s \in Slot : st[s] # None => st[s] \in ValueOf(s.kind)

\* A caller as withCaller resolves it: principal Anonymous when none was
\* asserted, segment None when its address is in no declared segment.
Caller == [principal : Principal \cup {Anonymous},
           segment   : {Segments[i].name : i \in DOMAIN Segments} \cup {None},
           addr      : Addr]

-----------------------------------------------------------------------------
(* Source ranges and bind addresses.                                       *)

\* netset.Parse refuses the whole list when one entry cannot be read.
Parses(ranges) == Unparsable \notin ranges
Addresses(ranges) == UNION (ranges \ {Unparsable})

\* The first declared segment that holds an address; 0 when none does.
FirstSegment(a) ==
  LET holding == {i \in DOMAIN Segments : a \in Segments[i].cidr}
  IN IF holding = {} THEN 0 ELSE CHOOSE i \in holding : \A j \in holding : i <= j

\* Store.Segment
SegmentName(a) == IF FirstSegment(a) = 0 THEN None ELSE Segments[FirstSegment(a)].name

\* BindReach: the addresses a listener bound to `bind' can serve.
BindReach(bind) ==
  CASE bind \in Loopback   -> {}
    [] bind = Unspecified  -> Addr
    [] OTHER -> IF FirstSegment(bind) = 0 THEN {} ELSE Segments[FirstSegment(bind)].cidr

-----------------------------------------------------------------------------
(* Effective permissions.                                                  *)

\* The grants on a target that carry an action.
GrantsOn(st, target, action) ==
  {g \in GrantId : /\ st[GrantSlot(g)] # None
                   /\ st[GrantSlot(g)].target = target
                   /\ action \in st[GrantSlot(g)].actions}

\* EffectiveGrants fails, and the caller denies, when one of them cannot be read.
GrantsComputable(st, target, action) ==
  \A g \in GrantsOn(st, target, action) : Parses(st[GrantSlot(g)].source_ranges)

\* AuthorizeObjectRead: the bucket itself is never looked up.
ReadAllowed(st, caller, object) ==
  LET on == GrantsOn(st, BucketTarget(object.bucket), "read")
  IN /\ caller.segment # None
     /\ st[ObjectSlot(object)] # None
     /\ GrantsComputable(st, BucketTarget(object.bucket), "read")
     /\ \E g \in on :
          /\ {caller.principal, Anonymous} \cap st[GrantSlot(g)].principals # {}
          /\ caller.addr \in Addresses(st[GrantSlot(g)].source_ranges)

\* authorizeWrite: a write grant admits the principals it names and no other;
\* "*" in it is the anonymous caller, not everybody.
WriteAllowed(st, caller, target) ==
  /\ GrantsComputable(st, target, "write")
  /\ \E g \in GrantsOn(st, target, "write") :
       /\ caller.principal \in st[GrantSlot(g)].principals
       /\ caller.addr \in Addresses(st[GrantSlot(g)].source_ranges)

\* The rules that permit ingress to a workload port.
RulesOn(st, workload, port) ==
  {n \in RuleId : /\ st[RuleSlot(n)] # None
                  /\ st[RuleSlot(n)].workload = workload
                  /\ st[RuleSlot(n)].port = port}

\* EffectiveIngress: the union of the rules, capped by what the bind serves.
IngressComputable(st, workload, port) ==
  /\ \A n \in RulesOn(st, workload, port) : Parses(st[RuleSlot(n)].source_ranges)
  /\ st[WorkloadSlot(workload)].binds[port] # Unparsable

EffectiveIngress(st, workload, port) ==
  (UNION {Addresses(st[RuleSlot(n)].source_ranges) : n \in RulesOn(st, workload, port)})
    \cap BindReach(st[WorkloadSlot(workload)].binds[port])

\* AuthorizeConnect.  Its refusals differ only in the reason that is logged.
ConnectAllowed(st, caller, workload, port) ==
  /\ caller.segment # None
  /\ st[WorkloadSlot(workload)] # None
  /\ st[WorkloadSlot(workload)].binds[port] # None
  /\ IngressComputable(st, workload, port)
  /\ caller.addr \in EffectiveIngress(st, workload, port)
=============================================================================
