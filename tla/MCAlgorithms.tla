---------------------------- MODULE MCAlgorithms ----------------------------
(***************************************************************************)
(* The pure algorithms over bounded inputs: address sets (Netset), the     *)
(* normalizer (Normalizer), the readers of the configuration files         *)
(* (Sources) and the containment check (Containment). A behaviour gives    *)
(* inputs to one of them and leaves the others at their first input.       *)
(***************************************************************************)
EXTENDS Netset, Normalizer, Sources, Containment

Text(s) == [shape |-> "string", is |-> <<s>>]
List(l) == [shape |-> "list", is |-> l]

GrantValues(ranges) ==
  [id |-> Text("g"), resource_kind |-> Text("bucket"), resource_name |-> Text("exports"),
   principals |-> List(<<"finance">>), actions |-> List(<<"read">>), source_ranges |-> ranges]
Grant == [type |-> "democloud_grant", address |-> "grant.one", values |-> GrantValues(List(<<"corp", "any">>))]
\* Planned without its ranges, which are not known yet.
Unresolved == [Grant EXCEPT !.address = "grant.two",
                            !.values = [a \in DOMAIN @ \ {"source_ranges"} |-> @[a]]]
Conditional == [Grant EXCEPT !.address = "grant.three",
                             !.values = [a \in DOMAIN @ \cup {"condition"} |->
                                           IF a = "condition" THEN Text("never") ELSE @[a]]]
Engine == [type |-> "democloud_workload", address |-> "workload.engine",
           values |-> [name |-> Text("engine"), address |-> Text("10.0.0.1"),
                       ports |-> List(<<[name |-> "admin", bind |-> "0.0.0.0"]>>)]]
Exports == [type |-> "democloud_bucket", address |-> "bucket.exports",
            values |-> [name |-> Text("exports"), encrypted |-> Text("true"), log_retention_days |-> Text("30")]]
Refunds == [type |-> "democloud_object", address |-> "object.refunds",
            values |-> [bucket |-> Text("exports"), key |-> Text("refunds")]]
Ingress == [type |-> "democloud_network_rule", address |-> "rule.admin",
            values |-> [id |-> Text("r"), workload |-> Text("engine"), port |-> Text("admin"),
                        source_ranges |-> List(<<"any">>)]]
Tunnel == [type |-> "democloud_tunnel", address |-> "tunnel.one", values |-> [name |-> Text("t")]]
MCPlannedResources == {Grant, Unresolved, Conditional, Engine, Exports, Refunds, Ingress, Tunnel}

Refs(l) == [kind |-> "refs", refs |-> l]
MCExpressions == {Absent, [kind |-> "garbled", refs |-> <<>>], [kind |-> "constant", refs |-> <<>>]}
                   \cup {Refs(l) : l \in {<<>>} \cup {<<v>> : v \in {"a", "b", "x", "y", "resource"}}}
                   \cup {Refs(l) : l \in {<<"a", "b">>, <<"b", "a">>, <<"x", "y">>, <<"y", "resource">>, <<"resource", "x">>}}
MCDeclarations == {"required", "default", "default unresolved", "overridden"}

Doc(kind, annotations, containers, blocks) ==
  [kind |-> kind, name |-> "one", annotations |-> annotations, containers |-> containers, blocks |-> blocks]
Port(name, bind) == [name |-> name, bind |-> bind]
Deployed(containers) == Doc("Deployment", [workload |-> "engine"], containers, <<>>)
MCManifests ==
  {Deployed(c) : c \in {<<<<Port("admin", "ops"), Port("service", "any")>>>>, <<<<Port("admin", "any")>>>>,
                        <<<<Port("admin", "any")>>, <<Port("admin", "ops")>>>>, <<<<Port("admin", "")>>>>}}
    \cup {Doc("Service", a, <<>>, <<>>) :
            a \in {[bucket |-> "exports", readers |-> "finance"], [bucket |-> "exports", readers |-> "everybody"],
                   [readers |-> "finance"], [condition |-> "never", bucket |-> "exports", readers |-> "finance"]}}
    \cup {Doc("NetworkPolicy", [workload |-> "engine", port |-> "admin"], <<>>, b) : b \in {<<>>, <<"ops">>, <<"any">>}}
    \cup {Doc("NetworkPolicy", [workload |-> "engine"], <<>>, <<"any">>), Doc("Ingress", [port |-> "admin"], <<>>, <<>>)}

Hardened(networks, mode) ==
  [networks |-> networks, mode |-> [n \in Namespace |-> IF n = "network" THEN mode ELSE Unset],
   hardening |-> Hardening, takes |-> {}]
MCDeployment ==
  [networks |-> [n \in SegmentNames |-> [internal |-> TRUE, subnet |-> TRUE]],
   services |-> [controlplane |-> Hardened(SegmentNames, Unset), engine |-> Hardened({"corp"}, Unset),
                 outside |-> Hardened({"internet"}, Unset), offline |-> Hardened({}, <<"none", "">>)]]

AlgorithmsInit == Init /\ DocInit /\ SourceInit /\ ContainInit
Untouched(a) ==
  /\ a = "netset" \/ (left = <<>> /\ right = <<>> /\ UNCHANGED <<left, right>>)
  /\ a = "plan" \/ (input = EmptyPlan /\ UNCHANGED input)
  /\ a = "source" \/ (source = <<>> /\ UNCHANGED source)
  /\ a = "document" \/ (edits = 0 /\ UNCHANGED <<document, edits>>)
AlgorithmsNext ==
  \/ Untouched("netset") /\ Next
  \/ Untouched("plan") /\ DocNext
  \/ Untouched("source") /\ SourceNext
  \/ Untouched("document") /\ ContainNext
AlgorithmsSpec == AlgorithmsInit /\ [][AlgorithmsNext]_<<left, right, input, source, document, edits>>
=============================================================================
