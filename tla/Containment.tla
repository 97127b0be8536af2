---------------------------- MODULE Containment ----------------------------
(***************************************************************************)
(* The containment check over the resolved compose configuration           *)
(* (internal/containment/compose.go): rules about one service or network   *)
(* at a time, which together must keep the two segments apart.             *)
(*                                                                         *)
(* A document has networks and services.  A network says whether it is     *)
(* internal and whether it has its declared subnet.  A service has the     *)
(* networks it is attached to; for each kind of namespace the mode it      *)
(* declares; the hardening settings it has; and what it takes of its host. *)
(* A mode is a pair: "" (unset), "none", "host" or "container:", or        *)
(* "service:" with a service.  A document that is no JSON or that has no   *)
(* service is an error before any rule.                                    *)
(*                                                                         *)
(* The state machine edits the deployment's own document, up to MaxEdits   *)
(* changes, among the documents the runtime accepts: a service that        *)
(* declares a network mode is attached to no network.                      *)
(***************************************************************************)
EXTENDS Naturals, FiniteSets

CONSTANTS
  Deployment,  \* the document of deploy/compose.yaml
  Undeclared,  \* a network that is not one of the two segments
  MaxEdits     \* bound: changes to the document

VARIABLES document, edits

SegmentNames == {"corp", "internet"}
PublicEdge == "controlplane"

-----------------------------------------------------------------------------
(* What the code does.                                                     *)

Namespace == {"network", "pid", "ipc", "userns"}
Unset == <<"", "">>
Hardening == {"not privileged", "non-root user", "read-only root", "drops all capabilities",
              "adds no capabilities", "no new privileges"}
HostAccess == {"cgroup parent", "device", "mount", "published port"}

\* checkNetworks, of each network and segment.
NetworkFindings(d) ==
  {<<"only_declared_segments_exist", n>> : n \in (DOMAIN d.networks \ SegmentNames) \cup (SegmentNames \ DOMAIN d.networks)}
    \cup {<<"segments_have_no_egress", n>> : n \in {m \in SegmentNames \cap DOMAIN d.networks : ~d.networks[m].internal}}
    \cup {<<"segments_use_declared_subnets", n>> : n \in {m \in SegmentNames \cap DOMAIN d.networks : ~d.networks[m].subnet}}

\* checkNetworks, of each service and of the public edge.
AttachmentFindings(d) ==
  LET attached(s) == d.services[s].networks
      has(s) == s \in DOMAIN d.services
  IN {<<"only_the_public_edge_spans_both_segments", s>> :
         s \in {t \in DOMAIN d.services : SegmentNames \subseteq attached(t) /\ t # PublicEdge}}
       \cup {<<"service_is_on_a_declared_segment", s>> :
         s \in {t \in DOMAIN d.services : attached(t) = {} /\ d.services[t].mode["network"][1] # "none"}}
       \cup (IF ~has(PublicEdge) THEN {<<"public_edge_exists", PublicEdge>>}
             ELSE {<<"public_edge_spans_both_segments", n>> : n \in SegmentNames \ attached(PublicEdge)})

\* Mutant: the namespace of another service is not the host's.
SharedHost(mode) == mode[1] \in {"host", "container:"}

Shared(mode) == mode[1] \in {"host", "container:", "service:"}

\* checkService; the substrings Check forbids anywhere in the document are the
\* host's network and runtime sockets, which only a mount brings.
ServiceFindings(d) ==
  UNION {LET s == d.services[name]
         IN {<<h, name>> : h \in Hardening \ s.hardening}
              \cup {<<"no_shared_host_namespace", name>> : n \in {m \in Namespace : Shared(s.mode[m])}}
              \cup {<<a, name>> : a \in s.takes} : name \in DOMAIN d.services}

Check(d) == NetworkFindings(d) \cup AttachmentFindings(d) \cup ServiceFindings(d)

-----------------------------------------------------------------------------
(* The documents.                                                          *)

NetworkType == [internal : BOOLEAN, subnet : BOOLEAN]
ModeType ==
  ({"", "none", "host", "container:"} \X {""}) \cup ({"service:"} \X DOMAIN Deployment.services)
ServiceType ==
  [networks : SUBSET (DOMAIN Deployment.networks \cup {Undeclared}), mode : [Namespace -> ModeType],
   hardening : SUBSET Hardening, takes : SUBSET HostAccess]

\* A document of these types; its networks are those its services name, and a
\* service is not named like a network or one of the other places of Touches.
DocumentType(d) ==
  /\ d = [networks |-> d.networks, services |-> d.services]
  /\ d.networks \in [DOMAIN d.networks -> NetworkType]
  /\ d.services \in [DOMAIN d.services -> ServiceType]
  /\ DOMAIN d.networks \subseteq DOMAIN Deployment.networks \cup {Undeclared}
  /\ DOMAIN d.services \subseteq DOMAIN Deployment.services
  /\ \A s \in DOMAIN d.services : d.services[s].networks \subseteq DOMAIN d.networks

ASSUME DeploymentAssumption ==
  /\ DocumentType(Deployment)
  /\ IsFiniteSet(DOMAIN Deployment.services)
  /\ DOMAIN Deployment.services \cap (SegmentNames \cup {"host", "world"}) = {}

ContainInit == document = Deployment /\ edits = 0

Service == DOMAIN document.services

Edit(s, service) == document' = [document EXCEPT !.services[s] = service]

Attach(s) ==
  \E n \in DOMAIN document.networks \ document.services[s].networks :
    Edit(s, [document.services[s] EXCEPT !.networks = @ \cup {n}, !.mode["network"] = Unset])

Detach(s) ==
  \E n \in document.services[s].networks : Edit(s, [document.services[s] EXCEPT !.networks = @ \ {n}])

Mode(s) ==
  {<<"host", "">>, <<"container:", "">>, <<"none", "">>} \cup {<<"service:", t>> : t \in Service \ {s}}

SetMode(s) ==
  \E n \in Namespace, mode \in Mode(s) :
    /\ mode[1] = "none" => n = "network"
    /\ n = "userns" => mode[1] = "host"
    /\ Edit(s, [document.services[s] EXCEPT
                  !.mode[n] = mode, !.networks = IF n = "network" THEN {} ELSE @])

Weaken(s) ==
  \/ \E h \in document.services[s].hardening : Edit(s, [document.services[s] EXCEPT !.hardening = @ \ {h}])
  \/ \E a \in HostAccess \ document.services[s].takes : Edit(s, [document.services[s] EXCEPT !.takes = @ \cup {a}])

Remove(s) ==
  /\ Service # {s}
  /\ \A t \in Service, n \in Namespace : document.services[t].mode[n] # <<"service:", s>>
  /\ document' = [document EXCEPT !.services = [t \in Service \ {s} |-> @[t]]]

Open(n) ==
  /\ document.networks[n].internal
  /\ document' = [document EXCEPT !.networks[n].internal = FALSE]

Readdress(n) ==
  /\ document.networks[n].subnet
  /\ document' = [document EXCEPT !.networks[n].subnet = FALSE]

DeclareNetwork ==
  /\ Undeclared \notin DOMAIN document.networks
  /\ document' = [document EXCEPT !.networks = [n \in DOMAIN @ \cup {Undeclared} |->
                    IF n = Undeclared THEN [internal |-> TRUE, subnet |-> FALSE] ELSE @[n]]]

ContainNext ==
  /\ edits < MaxEdits
  /\ edits' = edits + 1
  /\ \/ \E s \in Service : Attach(s) \/ Detach(s) \/ SetMode(s) \/ Weaken(s) \/ Remove(s)
     \/ \E n \in DOMAIN document.networks : Open(n) \/ Readdress(n)
     \/ DeclareNetwork

-----------------------------------------------------------------------------
(* The property.                                                           *)

\* What a service touches directly: its networks, the world behind one that
\* is not internal or behind a port published wider than loopback, its host,
\* and the service or container it shares a namespace with.  The default
\* network of a service with neither networks nor a mode leads to the world.
Touches(d, s) ==
  LET service == d.services[s] IN
  service.networks
    \cup (IF \E n \in service.networks : ~d.networks[n].internal THEN {"world"} ELSE {})
    \cup (IF service.networks = {} /\ service.mode["network"] = Unset THEN {"world"} ELSE {})
    \cup (IF "published port" \in service.takes THEN {"world"} ELSE {})
    \cup (IF service.takes \ {"published port"} # {} \/ "not privileged" \notin service.hardening
          THEN {"host"} ELSE {})
    \cup {CASE service.mode[n][1] = "service:" -> service.mode[n][2]
            [] service.mode[n][1] \in {"host", "container:"} -> "host"
            [] OTHER -> s : n \in Namespace}

\* What can be reached from a place through services, without the edge.
ReachOf(d, place) ==
  LET others == DOMAIN d.services \ {PublicEdge}
      near(at) == at \cup UNION {{s} \cup Touches(d, s) :
                                   s \in {t \in others : t \in at \/ Touches(d, t) \cap at # {}}}
      reach[k \in 0 .. 2 * Cardinality(others)] == IF k = 0 THEN {place} ELSE near(reach[k - 1])
  IN reach[2 * Cardinality(others)]

\* The deployment's own document passes.
ASSUME DeploymentPasses == Check(Deployment) = {}

\* Rules that each look at one service or one network keep the whole apart: in
\* a document without a finding no chain of services, through networks they
\* share or namespaces they enter, leads from one segment to the other except
\* through the public edge, and none leads from a segment or from the edge to
\* the host or the world.
SegmentsAreApart ==
  edits > 0 /\ Check(document) = {} =>
    /\ "corp" \notin ReachOf(document, "internet")
    /\ \A n \in SegmentNames : {"host", "world"} \cap ReachOf(document, n) = {}
    /\ Touches(document, PublicEdge) = SegmentNames \cup {PublicEdge}
=============================================================================
