------------------------------ MODULE Provider ------------------------------
(***************************************************************************)
(* The democloud provider (provider/internal/democloud), which turns a     *)
(* plan of the infrastructure toolchain into requests to the control       *)
(* plane: five resource types, each with Create, Read, Update and Delete,  *)
(* over one client that gives every request ten seconds.                   *)
(*                                                                         *)
(* The toolchain that drives the provider and the platform that serves it  *)
(* are external and reduced to what the provider relies on: what is        *)
(* recorded after an operation succeeded or failed, resources carried out  *)
(* independently of one another, and a server that still executes a        *)
(* request whose client has given up.                                      *)
(***************************************************************************)
EXTENDS Naturals, FiniteSets

CONSTANTS
  Address,         \* the toolchain's names for resources
  Model,           \* resources: a record of the type's attributes and the type
  Configurations,  \* the configurations that are applied, Model or None per address
  None,
  MaxApplies,      \* bound: runs of plan and apply
  Elsewhere,       \* bound: the requests somebody else sends
  MaxForeign       \* bound: writes by somebody else

-----------------------------------------------------------------------------
(* The resource types.  replace: the attributes a change of which replaces *)
(* the resource; matched: those Read and Delete find it by; read: those    *)
(* Read takes over from the platform.                                      *)

Bucket == [replace |-> {"name"}, matched |-> {"name"},
           read |-> {"encrypted", "log_retention_days"}]

\* Mutant: another key is taken for a change in place.
ObjectUpdatedInPlace == [replace |-> {"bucket"}, matched |-> {"bucket", "key"},
                         read |-> {"content_type"}]

\* The content is written and never read back: Read has its digest in hand
\* and leaves the recorded content as it is.
Object == [replace |-> {"bucket", "key"}, matched |-> {"bucket", "key"},
           read |-> {"content_type"}]

Grant == [replace |-> {"id"}, matched |-> {"id"},
          read |-> {"resource_kind", "resource_name", "principals", "actions", "source_ranges"}]

Workload == [replace |-> {"name"}, matched |-> {"name"}, read |-> {"address", "ports"}]

NetworkRule == [replace |-> {"id"}, matched |-> {"id"},
                read |-> {"workload", "port", "source_ranges"}]

ResourceTypes == [bucket |-> Bucket, object |-> Object, grant |-> Grant,
                  workload |-> Workload, network_rule |-> NetworkRule]

TypeOf(m) == ResourceTypes[m.type]
Restricted(m, attributes) == [f \in attributes |-> m[f]]

\* The resource of the platform a model is about.
SlotOf(m) == Restricted(m, TypeOf(m).matched \cup {"type"})

Slots == {SlotOf(m) : m \in Model}

\* The attributes of two models that Read can compare agree.
SameAsRead(m, n) == Restricted(m, TypeOf(m).read) = Restricted(n, TypeOf(m).read)

\* What Read makes of a recorded model and the resource it found.
Refreshed(m, live) == [f \in DOMAIN m |-> IF f \in TypeOf(m).read THEN live[f] ELSE m[f]]

Step == {"none", "read", "create", "update", "delete", "replace"}
Request == [op : {"put"}, model : Model] \cup [op : {"delete"}, slot : Slots]
Call == [request : Request, status : {"sent", "done", "refused"}]
ResourceOf(r) == IF r.op = "put" THEN SlotOf(r.model) ELSE r.slot

\* A model is one of the five types, has the attributes of its type, and any
\* value a resource can have may come with any other.
ASSUME ModelAssumption ==
  \A m \in Model :
    /\ m.type \in DOMAIN ResourceTypes
    /\ m = [f \in DOMAIN m |-> m[f]]
    /\ TypeOf(m).matched \cup TypeOf(m).read \cup {"type"} \subseteq DOMAIN m
    /\ \A n \in Model :
         n.type = m.type => DOMAIN n = DOMAIN m /\ Refreshed(m, n) \in Model

\* An address keeps its resource type, and no two addresses ever name the same
\* resource: so the value sets and profiles of infra/ are written.
ASSUME ConfigurationsAssumption ==
  /\ Configurations \subseteq [Address -> Model \cup {None}]
  /\ \A c, d \in Configurations : \A a, b \in Address :
       /\ a = b /\ None \notin {c[a], d[b]} => c[a].type = d[b].type
       /\ a # b /\ None \notin {c[a], d[b]} => SlotOf(c[a]) # SlotOf(d[b])
ASSUME NoneAssumption == None \notin Model \cup Call
ASSUME ElsewhereAssumption == Elsewhere \subseteq Request
ASSUME BoundsAssumption == MaxApplies \in Nat /\ MaxForeign \in Nat

VARIABLES
  config,    \* the configuration in the working tree
  recorded,  \* the toolchain's state: what it believes of each address
  platform,  \* the resources of the platform
  phase,     \* idle, refresh (a plan reads every recorded resource), apply
  step,      \* what is still to be done for each address
  seen,      \* what a refresh found
  call,      \* the request of each address: sent, done or refused
  stray,     \* requests whose client gave up before they were executed
  outcome,   \* of the last apply, none once the configuration changed
  applies,   \* runs of plan and apply
  foreign,   \* writes by somebody else
  created,   \* (history) resources the provider put and nobody deleted
  excused,   \* (history) resources a request about which ended in an error, or
             \*   whose record was left behind with a working tree
  disturbed, \* (history) written by somebody else, or late, since they were
             \*   read or put
  blind      \* (history) written by somebody else, or without the toolchain
             \*   learning of it, since they were put

toolchain == <<config, recorded, phase, step, seen, call, outcome, applies>>
histories == <<created, excused, disturbed, blind>>
vars == <<toolchain, platform, stray, foreign, histories>>

Idle == [a \in Address |-> "none"]
Empty == [a \in Address |-> None]

Init ==
  /\ config \in Configurations
  /\ recorded = Empty
  /\ platform = {}
  /\ phase = "idle"
  /\ step = Idle
  /\ seen = Empty
  /\ call = Empty
  /\ stray = {}
  /\ outcome = "none"
  /\ applies = 0
  /\ foreign = 0
  /\ created = {}
  /\ excused = {}
  /\ disturbed = {}
  /\ blind = {}

-----------------------------------------------------------------------------
(* Between applies.                                                        *)

Edit(c) ==
  /\ phase = "idle"
  /\ config' = c
  /\ outcome' = "none"
  /\ UNCHANGED <<recorded, phase, step, seen, call, applies, platform, stray, foreign, histories>>

\* A run of the pipeline makes a working tree of its own: nothing is recorded.
NewTree ==
  /\ phase = "idle"
  /\ recorded' = Empty
  /\ excused' = excused \cup {SlotOf(recorded[a]) : a \in {b \in Address : recorded[b] # None}}
  /\ outcome' = "none"
  /\ UNCHANGED <<config, phase, step, seen, call, applies, platform, stray, foreign,
                 created, disturbed, blind>>

\* A bucket can be imported by its name, and is then read: an address takes
\* over a resource it did not create.
Import(a) ==
  /\ phase = "idle"
  /\ recorded[a] = None
  /\ config[a] # None
  /\ config[a].type = "bucket"
  /\ \E m \in platform :
       /\ SlotOf(m) = SlotOf(config[a])
       /\ recorded' = [recorded EXCEPT ![a] = m]
  /\ outcome' = "none"
  /\ UNCHANGED <<config, phase, step, seen, call, applies, platform, stray, foreign, histories>>

Without(slot) == {m \in platform : SlotOf(m) # slot}

\* Somebody else writes or removes one resource directly.
Direct(r) ==
  /\ foreign < MaxForeign
  /\ platform' = IF r.op = "put" THEN Without(SlotOf(r.model)) \cup {r.model} ELSE Without(r.slot)
  /\ foreign' = foreign + 1
  /\ created' = created \ {ResourceOf(r)}
  /\ disturbed' = disturbed \cup {ResourceOf(r)}
  /\ blind' = blind \cup {ResourceOf(r)}
  /\ UNCHANGED <<toolchain, stray, excused>>

-----------------------------------------------------------------------------
(* Plan: every recorded resource is read, then compared.                   *)

StartPlan ==
  /\ phase = "idle"
  /\ applies < MaxApplies
  /\ applies' = applies + 1
  /\ phase' = "refresh"
  /\ seen' = recorded
  /\ step' = [a \in Address |-> IF recorded[a] = None THEN "none" ELSE "read"]
  /\ outcome' = "none"
  /\ UNCHANGED <<config, recorded, call, platform, stray, foreign, histories>>

\* Mutant: the model is built from what was read alone.
OnlyAsRead(m) ==
  IF \E live \in platform : SlotOf(live) = SlotOf(m)
  THEN LET live == CHOOSE live \in platform : SlotOf(live) = SlotOf(m)
       IN  Restricted(live, TypeOf(m).read \cup TypeOf(m).matched \cup {"type"})
  ELSE None

\* The recorded model with what the platform says of it, None once the
\* platform does not have the resource.
AsRead(m) ==
  IF \E live \in platform : SlotOf(live) = SlotOf(m)
  THEN LET live == CHOOSE live \in platform : SlotOf(live) = SlotOf(m)
       IN  Refreshed(m, live)
  ELSE None

Read(a) ==
  /\ phase = "refresh"
  /\ step[a] = "read"
  /\ seen' = [seen EXCEPT ![a] = AsRead(recorded[a])]
  /\ step' = [step EXCEPT ![a] = "none"]
  /\ disturbed' = disturbed \ {SlotOf(recorded[a])}
  /\ UNCHANGED <<config, recorded, phase, call, outcome, applies, platform, stray, foreign,
                 created, excused, blind>>

\* Platform state cannot be read: the plan fails.
ReadFails(a) ==
  /\ phase = "refresh"
  /\ step[a] = "read"
  /\ phase' = "idle"
  /\ step' = Idle
  /\ seen' = Empty
  /\ outcome' = "error"
  /\ UNCHANGED <<config, recorded, call, applies, platform, stray, foreign, histories>>

\* What the toolchain plans for one address.
Planned(c, r) ==
  CASE c = r                       -> "none"
    [] c = None /\ r # None        -> "delete"
    [] c # None /\ r = None        -> "create"
    [] OTHER -> IF Restricted(c, TypeOf(c).replace) = Restricted(r, TypeOf(c).replace)
                THEN "update" ELSE "replace"

Plan ==
  /\ phase = "refresh"
  /\ \A a \in Address : step[a] # "read"
  /\ phase' = "apply"
  /\ recorded' = seen
  /\ step' = [a \in Address |-> Planned(config[a], seen[a])]
  /\ seen' = Empty
  /\ outcome' = "ok"
  /\ UNCHANGED <<config, call, applies, platform, stray, foreign, histories>>

-----------------------------------------------------------------------------
(* Apply.                                                                  *)

\* Client.Put and Client.Delete: create and update put the configured model,
\* delete and the first half of a replacement name the recorded resource.
RequestFor(a) ==
  IF step[a] \in {"create", "update"}
  THEN [op |-> "put", model |-> config[a]]
  ELSE [op |-> "delete", slot |-> SlotOf(recorded[a])]

Send(a) ==
  /\ phase = "apply"
  /\ step[a] # "none"
  /\ call[a] = None
  /\ call' = [call EXCEPT ![a] = [request |-> RequestFor(a), status |-> "sent"]]
  /\ UNCHANGED <<config, recorded, phase, step, seen, outcome, applies, platform, stray,
                 foreign, histories>>

\* The control plane executes a put or the deletion of what is there.
Executes(r) ==
  /\ platform' = IF r.op = "put" THEN Without(SlotOf(r.model)) \cup {r.model} ELSE Without(r.slot)
  /\ created' = IF r.op = "put" THEN created \cup {SlotOf(r.model)} ELSE created \ {r.slot}

Executable(r) == r.op = "delete" => \E m \in platform : SlotOf(m) = r.slot

Serve(a) ==
  /\ call[a] # None
  /\ call[a].status = "sent"
  /\ Executable(call[a].request)
  /\ Executes(call[a].request)
  /\ call' = [call EXCEPT ![a].status = "done"]
  /\ disturbed' = disturbed \ {ResourceOf(call[a].request)}
  /\ blind' = blind \ {ResourceOf(call[a].request)}
  /\ excused' = excused \ {ResourceOf(call[a].request)}
  /\ UNCHANGED <<config, recorded, phase, step, seen, outcome, applies, stray, foreign>>

\* It answers anything but 200: nothing to delete, no grant, an error.
Refuse(a) ==
  /\ call[a] # None
  /\ call[a].status = "sent"
  /\ call' = [call EXCEPT ![a].status = "refused"]
  /\ UNCHANGED <<config, recorded, phase, step, seen, outcome, applies, platform, stray,
                 foreign, histories>>

\* Mutant: Update records the configured model before it knows of an error.
RecordedAfterAny(a) ==
  IF call[a].request.op = "put" THEN config[a]
  ELSE IF call[a].status = "done" THEN None ELSE recorded[a]

\* What is recorded of the address: an operation that reports an error leaves
\* what was recorded before it.
RecordedAfter(a) ==
  IF call[a].status # "done" THEN recorded[a]
  ELSE IF call[a].request.op = "put" THEN config[a] ELSE None

\* The answer arrives; do turns every status but 200 into an error.
Answer(a) ==
  /\ call[a] # None
  /\ call[a].status # "sent"
  /\ LET ok == call[a].status = "done"
     IN  /\ recorded' = [recorded EXCEPT ![a] = RecordedAfter(a)]
         /\ step' = [step EXCEPT ![a] = IF ok /\ @ = "replace" THEN "create" ELSE "none"]
         /\ outcome' = IF ok THEN outcome ELSE "error"
         /\ excused' = IF ok THEN excused ELSE excused \cup {ResourceOf(call[a].request)}
  /\ call' = [call EXCEPT ![a] = None]
  /\ UNCHANGED <<config, phase, seen, applies, platform, stray, foreign,
                 created, disturbed, blind>>

\* Mutant: a client without a timeout.
NeverGiveUp(a) == FALSE /\ UNCHANGED vars

\* No answer within the client's ten seconds, or a broken connection: an error
\* whatever became of the request, which the server may still execute.
GiveUp(a) ==
  /\ call[a] # None
  /\ stray' = IF call[a].status = "sent" THEN stray \cup {call[a].request} ELSE stray
  /\ blind' = IF call[a].status = "done" THEN blind \cup {ResourceOf(call[a].request)} ELSE blind
  /\ excused' = excused \cup {ResourceOf(call[a].request)}
  /\ call' = [call EXCEPT ![a] = None]
  /\ step' = [step EXCEPT ![a] = "none"]
  /\ outcome' = "error"
  /\ UNCHANGED <<config, recorded, phase, seen, applies, platform, foreign,
                 created, disturbed>>

\* After an error the resources that depend on it are left out.
Skip(a) ==
  /\ phase = "apply"
  /\ outcome = "error"
  /\ step[a] # "none"
  /\ call[a] = None
  /\ step' = [step EXCEPT ![a] = "none"]
  /\ UNCHANGED <<config, recorded, phase, seen, call, outcome, applies, platform, stray,
                 foreign, histories>>

Finish ==
  /\ phase = "apply"
  /\ step = Idle
  /\ phase' = "idle"
  /\ UNCHANGED <<config, recorded, step, seen, call, outcome, applies, platform, stray,
                 foreign, histories>>

\* A request that was given up is executed after all, or lost.
Late(r) ==
  /\ stray' = stray \ {r}
  /\ \/ /\ Executable(r)
        /\ Executes(r)
        /\ disturbed' = disturbed \cup {ResourceOf(r)}
        /\ blind' = blind \cup {ResourceOf(r)}
        /\ excused' = excused \cup {ResourceOf(r)}
     \/ UNCHANGED <<platform, created, disturbed, blind, excused>>
  /\ UNCHANGED <<toolchain, foreign>>

Operating ==
  \/ Plan
  \/ Finish
  \/ \E a \in Address : Read(a) \/ Send(a) \/ Answer(a) \/ GiveUp(a)

Next ==
  \/ Operating
  \/ \E c \in Configurations : Edit(c)
  \/ NewTree
  \/ \E r \in Elsewhere : Direct(r)
  \/ StartPlan
  \/ \E a \in Address : Import(a) \/ ReadFails(a) \/ Serve(a) \/ Refuse(a) \/ Skip(a)
  \/ \E r \in stray : Late(r)

\* The toolchain and the provider go on, and the client's timeout expires; the
\* control plane need not answer anything.
Spec == Init /\ [][Next]_vars /\ WF_vars(Operating)

-----------------------------------------------------------------------------
(* Properties.                                                             *)

\* Types: every address has one model or none, a request is outstanding only
\* during an apply, and the platform has one resource per slot.
TypeOK ==
  /\ config \in Configurations
  /\ recorded \in [Address -> Model \cup {None}]
  /\ seen \in [Address -> Model \cup {None}]
  /\ platform \subseteq Model
  /\ \A m, n \in platform : SlotOf(m) = SlotOf(n) => m = n
  /\ phase \in {"idle", "refresh", "apply"}
  /\ step \in [Address -> Step]
  /\ call \in [Address -> Call \cup {None}]
  /\ phase # "apply" => call = Empty /\ (phase = "idle" => step = Idle)
  /\ stray \subseteq Request
  /\ outcome \in {"none", "ok", "error"}
  /\ applies \in 0..MaxApplies
  /\ foreign \in 0..MaxForeign
  /\ created \cup excused \cup disturbed \cup blind \subseteq Slots

\* After an apply that reported no error the platform has what is configured
\* of every resource nobody else wrote meanwhile: all of what Read compares,
\* and everything else too unless it was written unnoticed since the provider
\* last put it.
ApplyConverges ==
  phase = "idle" /\ outcome = "ok" =>
    \A a \in Address :
      config[a] # None /\ SlotOf(config[a]) \notin disturbed =>
        \E m \in platform : /\ SlotOf(m) = SlotOf(config[a])
                            /\ SameAsRead(config[a], m)
                            /\ SlotOf(m) \notin blind => m = config[a]

\* A resource the provider created is still recorded, or a request about it
\* is under way or ended in an error somebody was told of, or its record was
\* left behind with a working tree: none is forgotten silently, not by a
\* replacement and not by a refresh.
NothingForgotten ==
  \A m \in platform :
    SlotOf(m) \in created =>
      \/ SlotOf(m) \in excused
      \/ \E a \in Address :
           \/ recorded[a] # None /\ SlotOf(recorded[a]) = SlotOf(m)
           \/ call[a] # None /\ ResourceOf(call[a].request) = SlotOf(m)

\* An apply ends although the control plane may never answer: every request
\* has ten seconds, which is all that bounds a run of the toolchain.
EveryApplyEnds == phase # "idle" ~> phase = "idle"
=============================================================================
