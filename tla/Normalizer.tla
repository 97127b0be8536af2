----------------------------- MODULE Normalizer ----------------------------
(***************************************************************************)
(* The normalizer (internal/graph): what the policy is given of a resolved *)
(* plan (normalize.go), where it says each value came from (provenance.go) *)
(* and what it makes of a rendered manifest set (manifests.go).            *)
(*                                                                         *)
(* Pure functions of a document.  The state machine only enumerates the    *)
(* documents: it puts together one plan, one configuration or one pair of  *)
(* manifest sets, up to a bound.  What is no JSON, has no version or has   *)
(* no manifest at all is an error before any of this (Gate's input errors).*)
(***************************************************************************)
EXTENDS Naturals, Sequences, FiniteSets

SeqExt == INSTANCE SequencesExt

CONSTANTS
  PlannedResources,  \* resources a plan is put together from
  Expressions,       \* expressions a configuration is put together from
  Declarations,      \* declarations of root variables
  Manifests,         \* manifests a set is put together from
  MaxResources,      \* bound: resources of a plan
  MaxManifests       \* bound: manifests of the two sets

VARIABLE input

-----------------------------------------------------------------------------
(* Plans.  A module is named by the path of module names from the root; a  *)
(* plan is the set of resources in each module.  A value is a string, a    *)
(* list of strings or something else, and is missing from planned_values   *)
(* while it is not known.                                                  *)

KnownAttributes ==
  [democloud_bucket       |-> {"name", "encrypted", "log_retention_days", "id"},
   democloud_object       |-> {"bucket", "key", "content_type", "content_base64", "id"},
   democloud_grant        |-> {"id", "resource_kind", "resource_name", "principals", "actions",
                               "source_ranges"},
   democloud_workload     |-> {"name", "address", "ports", "id"},
   democloud_network_rule |-> {"id", "workload", "port", "source_ranges"}]

Missing == [shape |-> "other", is |-> <<>>]
Value(r, attribute) ==
  IF attribute \in DOMAIN r.values THEN r.values[attribute] ELSE Missing

StringOf(v) == IF v.shape = "string" THEN v.is[1] ELSE ""
StringsOf(v) == IF v.shape = "list" THEN v.is ELSE <<>>
PortsOf(v) == IF v.shape = "list" THEN v.is ELSE <<>>

\* add: the node of the graph a resource of a known type becomes.
Node(r) ==
  LET string(a) == StringOf(Value(r, a))
      strings(a) == StringsOf(Value(r, a))
  IN CASE r.type = "democloud_bucket" -> <<"bucket", string("name")>>
       [] r.type = "democloud_object" -> <<"object", string("bucket"), string("key")>>
       [] r.type = "democloud_grant" ->
            <<"grant", string("id"), string("resource_kind"), string("resource_name"),
              strings("principals"), strings("actions"), strings("source_ranges")>>
       [] r.type = "democloud_workload" ->
            <<"workload", string("name"), PortsOf(Value(r, "ports"))>>
       [] r.type = "democloud_network_rule" ->
            <<"network_rule", string("id"), string("workload"), string("port"),
              strings("source_ranges")>>

\* Mutant: the modules the root calls are walked, but not theirs.
WalkedFlat(plan) == {p \in DOMAIN plan : Len(p) <= 1}

\* walk: the root, and the child modules of every module that was reached.
Walked(plan) ==
  LET below[depth \in Nat] ==
        IF depth = 0 THEN {<<>>}
        ELSE below[depth - 1] \cup
               {p \in DOMAIN plan : \E q \in below[depth - 1] : Len(p) = Len(q) + 1 /\ SeqExt!IsPrefix(q, p)}
  IN below[Cardinality(DOMAIN plan)]

\* FromPlan
FromPlan(plan) ==
  LET reached == UNION {plan[p] : p \in Walked(plan)}
      known == {r \in reached : r.type \in DOMAIN KnownAttributes}
  IN [nodes |-> {Node(r) : r \in known},
      unknownTypes |-> {r.type : r \in reached \ known},
      unrecognized |-> UNION {{<<r.address, a>> : a \in DOMAIN r.values \ KnownAttributes[r.type]} :
                                r \in known}]

-----------------------------------------------------------------------------
(* Provenance.  A configuration is the expression of one attribute, the    *)
(* module it stands in, what the root passes to that module's variables,   *)
(* and the root's variables.  An expression is a constant or the sequence  *)
(* of what it refers to; a reference that is no variable is "resource".    *)

Origins == {"module-default", "variable-file", "root-default", "literal", "unknown"}

Visibility == [o \in Origins |->
  CASE o = "module-default" -> 0 [] o = "variable-file" -> 1 [] o = "root-default" -> 2
    [] o = "literal" -> 3 [] o = "unknown" -> 4]

ModuleVariables == {"a", "b"}
RootVariables == {"x", "y"}
Absent == [kind |-> "absent", refs |-> <<>>]

\* rootOrigin
RootOrigin(c, v) ==
  IF v \notin RootVariables THEN "unknown"
  ELSE CASE c.root[v] = "undeclared"                         -> "unknown"
         [] c.root[v] = "required"                           -> "variable-file"
         [] c.root[v] \in {"default", "default unresolved"}  -> "root-default"
         [] c.root[v] = "overridden"                         -> "variable-file"

\* Where, in what an expression refers to, the variables stand.
Variables(refs) == {i \in DOMAIN refs : refs[i] # "resource"}
Least(places) == CHOOSE i \in places : \A j \in places : i <= j

\* contributionOf: of what the caller passed, the first variable decides.
ContributionOf(c, v) ==
  IF c.module = "root" THEN RootOrigin(c, v)
  ELSE LET passed == IF v \in ModuleVariables THEN c.passed[v] ELSE Absent
           variables == Variables(passed.refs)
       IN CASE passed.kind = "absent"                  -> "module-default"
            [] passed.kind = "garbled"                 -> "unknown"
            [] passed.kind = "constant"                -> "literal"
            [] passed.kind = "refs" /\ variables # {}  -> RootOrigin(c, passed.refs[Least(variables)])
            [] OTHER                                   -> "literal"

\* Mutant: the origin of the first variable is taken for that of the value.
PrimaryFirst(contributors) == contributors[Least(DOMAIN contributors)]

\* The least visible contributor, of several the first.
Primary(contributors) ==
  LET least == {i \in DOMAIN contributors : \A j \in DOMAIN contributors :
                  Visibility[contributors[i]] <= Visibility[contributors[j]]}
  IN contributors[Least(least)]

\* resource: the configuration of a planned resource is found in the root and
\* in the modules the root calls, not in theirs.
Found(c) == c.module \in {"root", "called"}

\* originOf, for a resource provenanceFor found or not.
OriginOf(c) ==
  LET variables == Variables(c.value.refs)
  IN IF ~Found(c) \/ c.value.kind \in {"absent", "garbled"} THEN "unknown"
     ELSE IF c.value.kind = "constant" THEN "literal"
     ELSE IF variables # {}
     THEN Primary([i \in variables |-> ContributionOf(c, c.value.refs[i])])
     ELSE IF c.value.refs # <<>> THEN "literal" ELSE "unknown"

-----------------------------------------------------------------------------
(* Manifests: a kind and a name, the annotations under the demonstration's *)
(* prefix, containers with their ports (deployments) and address blocks    *)
(* (network policies).                                                     *)

KnownKinds == {"Service", "Deployment", "NetworkPolicy"}
KnownAnnotations ==
  {"bucket", "grant", "readers", "reader-sources", "workload", "address", "port", "rule"}

Annotation(doc, key) == IF key \in DOMAIN doc.annotations THEN doc.annotations[key] ELSE ""

\* indexByIdentity: of several manifests of one identity the last counts.
BaseOf(base, doc) ==
  LET same == {i \in DOMAIN base : base[i].kind = doc.kind /\ base[i].name = doc.name}
  IN IF same = {} THEN [annotations |-> <<>>, containers |-> <<>>, blocks |-> <<>>]
     ELSE base[CHOOSE i \in same : \A j \in same : j <= i]

\* compare, and manifestOrigin
Compare(rendered, base) == IF base # "" /\ rendered = base THEN "base-manifest" ELSE "overlay"

\* The bind address the base gives a port in the container at one position.
BaseBind(base, i, port) ==
  LET named == IF i \in DOMAIN base.containers
               THEN {j \in DOMAIN base.containers[i] : base.containers[i][j].name = port} ELSE {}
  IN IF named = {} THEN "" ELSE base.containers[i][CHOOSE j \in named : \A k \in named : k <= j].bind

\* The address blocks of a policy as the one text they are compared as.
Blocks(doc) == IF doc.blocks = <<>> THEN "" ELSE doc.blocks[1]

\* addService, addDeployment and addNetworkPolicy: the origin of every value
\* that decides who can reach what.
ServiceOrigins(doc, base) ==
  IF Annotation(doc, "bucket") = "" THEN {}
  ELSE {<<doc, key, Compare(Annotation(doc, key), Annotation(base, key))>> :
          key \in {"readers", "reader-sources"}}
DeploymentOrigins(doc, base) ==
  IF Annotation(doc, "workload") = "" THEN {}
  ELSE LET ports == UNION {{<<i, j>> : j \in DOMAIN doc.containers[i]} : i \in DOMAIN doc.containers}
           port(at) == doc.containers[at[1]][at[2]]
           after(at, other) == at[1] > other[1] \/ (at[1] = other[1] /\ at[2] > other[2])
           \* An origin is recorded by the name of its port: of several the last.
           recorded == {at \in ports : \A other \in ports :
                          after(other, at) => port(other).name # port(at).name}
       IN {<<doc, port(at), Compare(port(at).bind, BaseBind(base, at[1], port(at).name))>> : at \in recorded}
PolicyOrigins(doc, base) ==
  IF Annotation(doc, "workload") = "" \/ Annotation(doc, "port") = "" THEN {}
  ELSE {<<doc, "source_ranges", Compare(Blocks(doc), Blocks(base))>>}

\* FromManifests
FromManifests(rendered, base) ==
  LET known == {i \in DOMAIN rendered : rendered[i].kind \in KnownKinds}
      origins(doc) == CASE doc.kind = "Service"       -> ServiceOrigins(doc, BaseOf(base, doc))
                        [] doc.kind = "Deployment"    -> DeploymentOrigins(doc, BaseOf(base, doc))
                        [] doc.kind = "NetworkPolicy" -> PolicyOrigins(doc, BaseOf(base, doc))
  IN [origins |-> UNION {origins(rendered[i]) : i \in known},
      unknownKinds |-> {rendered[i].kind : i \in DOMAIN rendered \ known},
      unrecognized |-> UNION {{<<rendered[i].kind, rendered[i].name, key>> :
                                 key \in DOMAIN rendered[i].annotations \ KnownAnnotations} : i \in known}]

-----------------------------------------------------------------------------
(* The documents.                                                          *)

Paths == {<<>>, <<"m">>, <<"m", "n">>}
EmptyPlan == [of |-> "plan", plan |-> [p \in Paths |-> {}]]
EmptyConfiguration ==
  [of |-> "configuration", module |-> "root", value |-> Absent,
   passed |-> [v \in ModuleVariables |-> Absent], root |-> [v \in RootVariables |-> "undeclared"]]
EmptyManifests == [of |-> "manifests", rendered |-> <<>>, base |-> <<>>]

\* The provider's schema declares these attributes as lists.
ListAttributes(type) ==
  CASE type = "democloud_grant" -> {"principals", "actions", "source_ranges"}
    [] type = "democloud_workload" -> {"ports"}
    [] type = "democloud_network_rule" -> {"source_ranges"}
    [] OTHER -> {}

ASSUME PlannedAssumption ==
  \A r \in PlannedResources : \A a \in ListAttributes(r.type) \cap DOMAIN r.values : r.values[a].shape = "list"

\* Only an expression of the kind "refs" refers to anything.
ASSUME ConfigurationAssumption ==
  /\ \A e \in Expressions : /\ e.kind \in {"absent", "garbled", "constant", "refs"}
                            /\ e.refs \in Seq(STRING)
                            /\ e.kind # "refs" => e.refs = <<>>
  /\ Declarations \subseteq {"undeclared", "required", "default", "default unresolved", "overridden"}

\* The blocks of a manifest are one text or none; what is empty is left out.
ASSUME ManifestsAssumption ==
  \A doc \in Manifests :
    /\ \A key \in DOMAIN doc.annotations : doc.annotations[key] # ""
    /\ doc.containers \in Seq(Seq([name : STRING, bind : STRING]))
    /\ doc.blocks \in Seq(STRING) /\ Len(doc.blocks) <= 1
    /\ doc.blocks # <<>> => doc.blocks[1] # ""

DocInit == input \in {EmptyPlan, EmptyConfiguration, EmptyManifests}

Planned == IF input.of = "plan" THEN UNION {input.plan[p] : p \in Paths} ELSE {}

PlanResource ==
  /\ input.of = "plan"
  /\ Cardinality(Planned) < MaxResources
  /\ \E p \in Paths, r \in PlannedResources \ Planned :
       input' = [input EXCEPT !.plan[p] = @ \cup {r}]

Write ==
  /\ input.of = "configuration"
  /\ \E e \in Expressions, m \in {"root", "called", "nested"} :
       input' = [input EXCEPT !.value = e, !.module = m]

Pass ==
  /\ input.of = "configuration"
  /\ \E v \in ModuleVariables, e \in Expressions : input' = [input EXCEPT !.passed[v] = e]

Declare ==
  /\ input.of = "configuration"
  /\ \E v \in RootVariables, d \in Declarations : input' = [input EXCEPT !.root[v] = d]

Manifest ==
  /\ input.of = "manifests"
  /\ Len(input.rendered) + Len(input.base) < MaxManifests
  /\ \E doc \in Manifests : \/ input' = [input EXCEPT !.rendered = Append(@, doc)]
                            \/ input' = [input EXCEPT !.base = Append(@, doc)]

DocNext == PlanResource \/ Write \/ Pass \/ Declare \/ Manifest

-----------------------------------------------------------------------------
(* Properties.                                                             *)

\* What the platform will be sent of a planned resource (the provider's apply),
\* once every one of its values is known.
Resolved(r) == KnownAttributes[r.type] \ {"id"} \subseteq DOMAIN r.values

\* Every planned resource, in whatever module, is reported as not understood or
\* is given to the policy with exactly the values that will be put: the ranges
\* and principals in the graph are all there are.  Values that are not known
\* before the apply are excepted: they are missing, and read as empty.
ReportedOrWhole ==
  input.of = "plan" =>
    LET g == FromPlan(input.plan) IN
    \A p \in Paths : \A r \in input.plan[p] :
      IF r.type \notin DOMAIN KnownAttributes THEN r.type \in g.unknownTypes
      ELSE /\ \A a \in DOMAIN r.values \ KnownAttributes[r.type] : <<r.address, a>> \in g.unrecognized
           /\ Resolved(r) => \E n \in g.nodes :
                /\ n = Node(r)
                /\ r.type = "democloud_grant" => /\ n[5] = r.values["principals"].is
                                                 /\ n[7] = r.values["source_ranges"].is
                /\ r.type = "democloud_workload" => n[3] = r.values["ports"].is

\* Everything that takes part in a value: the origins of the variables its
\* expression refers to and, inside a module, of all that was passed for them.
TakePart(c) ==
  LET variablesOf(e) == {e.refs[i] : i \in DOMAIN e.refs} \ {"resource"}
      passed(v) == IF v \in ModuleVariables THEN c.passed[v] ELSE Absent
      inModule(v) ==
        IF passed(v).kind = "absent" THEN {"module-default"}
        ELSE IF passed(v).kind = "garbled" THEN {"unknown"}
        ELSE IF variablesOf(passed(v)) = {} THEN {"literal"}
        ELSE {RootOrigin(c, w) : w \in variablesOf(passed(v))}
  IN UNION {IF c.module = "root" THEN {RootOrigin(c, v)} ELSE inModule(v) : v \in variablesOf(c.value)}

SinglePassed(c) ==
  \A v \in ModuleVariables : Cardinality({i \in DOMAIN c.passed[v].refs : c.passed[v].refs[i] # "resource"}) <= 1

\* The origin of a value is the least visible of everything that takes part in
\* it, as long as the caller passes one variable at most for each variable of
\* the module: of several it passes together the normalizer sees the first.
OriginIsLeastVisible ==
  input.of = "configuration" /\ Found(input) /\ SinglePassed(input) /\ TakePart(input) # {} =>
    /\ OriginOf(input) \in TakePart(input)
    /\ \A o \in TakePart(input) : Visibility[OriginOf(input)] <= Visibility[o]

\* A value said to come from the base manifests is written there, in a manifest
\* of the same kind and name; and a set that was rendered without an overlay is
\* attributed to the base as a whole, as far as it says anything: a bind
\* address, an annotation or a block that is left out is attributed to the overlay.
BaseOriginIsTrue ==
  input.of = "manifests" =>
    LET identities(docs) == {<<docs[i].kind, docs[i].name>> : i \in DOMAIN docs}
        binds(doc) == UNION {{doc.containers[i][j] : j \in DOMAIN doc.containers[i]} : i \in DOMAIN doc.containers}
        says(doc, what) == CASE doc.kind = "Deployment" -> what \in binds(doc) /\ what.bind # ""
                             [] doc.kind = "Service" -> what \in DOMAIN doc.annotations
                             [] OTHER -> doc.blocks # <<>>
        same(doc, other, what) ==
          /\ doc.kind = other.kind /\ doc.name = other.name
          /\ says(doc, what) /\ says(other, what)
          /\ doc.kind = "Service" => doc.annotations[what] = other.annotations[what]
          /\ doc.kind = "NetworkPolicy" => doc.blocks = other.blocks
        distinct(docs) == Cardinality(identities(docs)) = Len(docs)
    IN \A o \in FromManifests(input.rendered, input.base).origins :
         /\ o[3] = "base-manifest" => \E i \in DOMAIN input.base : same(o[1], input.base[i], o[2])
         /\ input.rendered = input.base /\ distinct(input.base) /\ says(o[1], o[2]) => o[3] = "base-manifest"

\* Where a value is said to come from is where it comes from, on both surfaces.
OriginsAreTrue == OriginIsLeastVisible /\ BaseOriginIsTrue
=============================================================================
