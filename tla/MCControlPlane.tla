--------------------------- MODULE MCControlPlane ---------------------------
(***************************************************************************)
(* Small instances of ControlPlane for TLC: one corporate and one public   *)
(* address, one seeded bucket and one outside the deployer's scope, the    *)
(* fare engine with its admin port.                                        *)
(***************************************************************************)
EXTENDS ControlPlane, TLC

CONSTANTS corp, net, stray, loop, zero, finance, deployer, stranger,
          exports, other, refunds, engine, admin, service,
          gDeploy, gRead, rAdmin, plain, sealed, body1, body2

MCAddr == {corp, net, stray, loop, zero}
MCBlock == {{corp}, {net}, {corp, net, stray, loop, zero}}
MCSegments == <<[name |-> "corp", cidr |-> {corp}], [name |-> "internet", cidr |-> {net}]>>
MCPrincipal == {finance, deployer}
MCName == {finance, deployer, stranger}
MCAdminPort == [workload |-> engine, port |-> admin]
Refunds == [bucket |-> exports, key |-> refunds]

GrantFor(t, ps, as, rs) ==
  [target |-> t, principals |-> ps, actions |-> as, source_ranges |-> rs]
DeployGrant == GrantFor(BucketTarget(exports), {deployer}, {"write"}, {{corp}})
ReadGrant == GrantFor(BucketTarget(exports), {finance}, {"read"}, {{corp}})

\* The seeded platform, cut to one bucket and its object.
Seeded(extra) ==
  [s \in Slot |->
     CASE s = BucketSlot(exports)  -> sealed
       [] s = ObjectSlot(Refunds)  -> body1
       [] s = GrantSlot(gDeploy)   -> DeployGrant
       [] s = GrantSlot(gRead)     -> extra
       [] s = WorkloadSlot(engine) ->
            [binds |-> [p \in PortName |-> IF p = admin THEN zero ELSE loop]]
       [] s = RuleSlot(rAdmin)     ->
            [workload |-> engine, port |-> admin, source_ranges |-> {{corp}, {net}}]
       [] OTHER                    -> None]

\* Races on storage: the bucket is in scope, the fare engine is not.
StorageStore == Seeded(ReadGrant)
\* The fare engine is in scope, and its admin port is open to both segments.
FabricStore ==
  Seeded(GrantFor(WorkloadTarget(engine), {deployer}, {"write"}, {{corp}}))

Put(l, who, a, form, slot, value) ==
  [op |-> "put", listener |-> l, asserted |-> who, addr |-> a, form |-> form,
   slot |-> slot, value |-> value]
Del(who, slot) ==
  [op |-> "delete", listener |-> "corp", asserted |-> who, addr |-> corp, slot |-> slot]
Get(l, who, a) ==
  [op |-> "read", listener |-> l, asserted |-> who, addr |-> a, object |-> Refunds]
Connect(l, who, a, method, path, port) ==
  [op |-> "connect", listener |-> l, asserted |-> who, addr |-> a, workload |-> engine,
   port |-> port, method |-> method, path |-> path]

StorageSubmissions ==
  {Get("corp", finance, corp), Get("edge", finance, net),
   Del(deployer, GrantSlot(gRead)), Del(deployer, GrantSlot(gDeploy)),
   Del(deployer, ObjectSlot(Refunds)),
   \* open the export to everybody, through the identity of an existing grant
   Put("corp", deployer, corp, "ok", GrantSlot(gRead),
       GrantFor(BucketTarget(exports), {Anonymous}, {"read", "write"}, {MCAddr})),
   \* reach for a bucket outside the scope, directly and by moving a grant there
   Put("corp", deployer, corp, "ok", GrantSlot(gRead),
       GrantFor(BucketTarget(other), {deployer}, {"write"}, {{corp}})),
   Put("corp", deployer, corp, "ok", BucketSlot(other), plain),
   \* a grant nobody can read locks the bucket
   Put("corp", deployer, corp, "ok", GrantSlot(gDeploy),
       GrantFor(BucketTarget(exports), {deployer}, {"write"}, {Unparsable})),
   Put("corp", deployer, corp, "ok", ObjectSlot(Refunds), body2),
   Put("corp", deployer, corp, "not_base64", ObjectSlot(Refunds), body2),
   Put("corp", stranger, corp, "ok", ObjectSlot(Refunds), body2),
   \* from the edge, without a resource, and by somebody without a grant
   Put("edge", deployer, net, "ok", BucketSlot(exports), plain),
   Put("corp", deployer, corp, "not_json", BucketSlot(exports), plain),
   Put("corp", deployer, corp, "no_target", BucketSlot(exports), plain),
   Del(finance, BucketSlot(exports))}

FabricSubmissions ==
  {Connect("corp", deployer, corp, "POST", "fare-cap", admin),
   Connect("edge", deployer, net, "POST", "fare-cap", admin),
   Connect("corp", deployer, corp, "GET", "fare-cap", admin),
   Connect("corp", None, corp, "POST", "fare-cap", service),
   Connect("edge", None, stray, "POST", "fare-cap", admin),
   Put("corp", deployer, corp, "ok", RuleSlot(rAdmin),
       [workload |-> engine, port |-> admin, source_ranges |-> {{corp}}]),
   Put("corp", deployer, corp, "ok", WorkloadSlot(engine),
       [binds |-> [p \in PortName |-> IF p = admin THEN corp ELSE Unparsable]]),
   Del(deployer, RuleSlot(rAdmin)), Del(deployer, WorkloadSlot(engine))}

\* One raise of the fare cap, and a read of it.
TransitionSubmissions ==
  {Connect("corp", deployer, corp, "POST", "fare-cap", admin),
   Connect("edge", None, net, "GET", "status", admin)}

Symmetry == Permutations(Request)
=============================================================================
