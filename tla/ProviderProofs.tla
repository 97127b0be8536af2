---------------------------- MODULE ProviderProofs ----------------------------
(***************************************************************************)
(* Proofs about Provider, for any addresses, models and configurations     *)
(* that satisfy its assumptions, any number of applies and of writes by    *)
(* somebody else.                                                          *)
(***************************************************************************)
EXTENDS Provider, TLAPS

-----------------------------------------------------------------------------
(* The resource types.                                                     *)

\* An identity is replaced and never read back (the five Schema methods).
LEMMA TypeFacts ==
  ASSUME NEW m \in Model
  PROVE  /\ TypeOf(m).matched \subseteq TypeOf(m).replace
         /\ "type" \notin TypeOf(m).read
         /\ TypeOf(m).matched \cap TypeOf(m).read = {}
<1>1. DOMAIN ResourceTypes = {"bucket", "object", "grant", "workload", "network_rule"}
  BY DEF ResourceTypes
<1>2. m.type \in DOMAIN ResourceTypes
  BY ModelAssumption
<1>3. CASE m.type = "bucket"
  BY <1>3 DEF TypeOf, ResourceTypes, Bucket
<1>4. CASE m.type = "object"
  BY <1>4 DEF TypeOf, ResourceTypes, Object
<1>5. CASE m.type = "grant"
  BY <1>5 DEF TypeOf, ResourceTypes, Grant
<1>6. CASE m.type = "workload"
  BY <1>6 DEF TypeOf, ResourceTypes, Workload
<1>7. CASE m.type = "network_rule"
  BY <1>7 DEF TypeOf, ResourceTypes, NetworkRule
<1> QED
  BY <1>1, <1>2, <1>3, <1>4, <1>5, <1>6, <1>7

\* The kind of a resource is part of what names it.
LEMMA SlotHasType ==
  ASSUME NEW m \in Model, NEW n \in Model, SlotOf(m) = SlotOf(n)
  PROVE  m.type = n.type
<1>1. SlotOf(m)["type"] = m["type"] /\ SlotOf(n)["type"] = n["type"]
  BY DEF SlotOf, Restricted
<1> QED
  BY <1>1

\* An update is planned only when the identity is the recorded one.
LEMMA UpdateKeepsSlot ==
  ASSUME NEW c \in Model, NEW r \in Model, c.type = r.type,
         Restricted(c, TypeOf(c).replace) = Restricted(r, TypeOf(c).replace)
  PROVE  SlotOf(c) = SlotOf(r)
<1>1. \A f \in TypeOf(c).replace : c[f] = r[f]
  <2>1. ASSUME NEW f \in TypeOf(c).replace
        PROVE  c[f] = r[f]
    <3>1. Restricted(c, TypeOf(c).replace)[f] = c[f] /\ Restricted(r, TypeOf(c).replace)[f] = r[f]
      BY DEF Restricted
    <3> QED
      BY <3>1
  <2> QED
    BY <2>1
<1>2. TypeOf(r) = TypeOf(c)
  BY DEF TypeOf
<1>3. \A f \in TypeOf(c).matched \cup {"type"} : c[f] = r[f]
  BY <1>1, TypeFacts
<1> QED
  BY <1>2, <1>3 DEF SlotOf, Restricted

\* What a read takes over and what it leaves.
LEMMA RefreshedFacts ==
  ASSUME NEW m \in Model, NEW live \in Model, SlotOf(live) = SlotOf(m)
  PROVE  /\ Refreshed(m, live) \in Model
         /\ SlotOf(Refreshed(m, live)) = SlotOf(m)
         /\ SameAsRead(Refreshed(m, live), live)
         /\ \A f \in DOMAIN m \ TypeOf(m).read : Refreshed(m, live)[f] = m[f]
<1>1. live.type = m.type
  BY SlotHasType
<1>2. Refreshed(m, live) \in Model
  BY <1>1, ModelAssumption
<1>3. /\ TypeOf(m).matched \cup TypeOf(m).read \cup {"type"} \subseteq DOMAIN m
      /\ DOMAIN Refreshed(m, live) = DOMAIN m
  BY ModelAssumption DEF Refreshed
<1>4. \A f \in DOMAIN m : Refreshed(m, live)[f] = IF f \in TypeOf(m).read THEN live[f] ELSE m[f]
  BY DEF Refreshed
<1>5. Refreshed(m, live).type = m.type
  BY <1>3, <1>4, TypeFacts
<1>6. TypeOf(Refreshed(m, live)) = TypeOf(m)
  BY <1>5 DEF TypeOf
<1>7. \A f \in TypeOf(m).matched \cup {"type"} : Refreshed(m, live)[f] = m[f]
  BY <1>3, <1>4, TypeFacts
<1>8. SlotOf(Refreshed(m, live)) = SlotOf(m)
  BY <1>6, <1>7 DEF SlotOf, Restricted
<1>9. SameAsRead(Refreshed(m, live), live)
  BY <1>3, <1>4, <1>6 DEF SameAsRead, Restricted
<1> QED
  BY <1>2, <1>4, <1>8, <1>9

\* A read finds the resource, or there is none.
LEMMA AsReadFacts ==
  ASSUME NEW m
  PROVE  \/ /\ AsRead(m) = None
            /\ \A live \in platform : SlotOf(live) # SlotOf(m)
         \/ \E live \in platform : SlotOf(live) = SlotOf(m) /\ AsRead(m) = Refreshed(m, live)
<1>1. CASE \E live \in platform : SlotOf(live) = SlotOf(m)
  <2> DEFINE found == CHOOSE live \in platform : SlotOf(live) = SlotOf(m)
  <2>1. found \in platform /\ SlotOf(found) = SlotOf(m)
    BY <1>1
  <2>2. AsRead(m) = Refreshed(m, found)
    BY <1>1 DEF AsRead
  <2> QED
    BY <2>1, <2>2
<1>2. CASE ~ \E live \in platform : SlotOf(live) = SlotOf(m)
  BY <1>2 DEF AsRead
<1> QED
  BY <1>1, <1>2

-----------------------------------------------------------------------------
(* Types, and what a request under way is about.                           *)

\* The resources an address ever names.
Owned(a) == {SlotOf(c[a]) : c \in {d \in Configurations : d[a] # None}}

RecordOwned(a) == recorded[a] # None => SlotOf(recorded[a]) \in Owned(a)

\* A refresh starts from the record and keeps the identity.
RefreshInv(a) ==
  /\ phase # "refresh" => seen[a] = None
  /\ seen[a] # None => recorded[a] # None /\ SlotOf(seen[a]) = SlotOf(recorded[a])
  /\ phase = "refresh" => step[a] \in {"none", "read"}
  /\ phase = "refresh" /\ step[a] = "read" => recorded[a] # None /\ seen[a] = recorded[a]

\* What is left to do fits what is configured and what is recorded.
StepInv(a) ==
  phase = "apply" =>
    /\ step[a] # "read"
    /\ step[a] \in {"create", "update", "replace"} => config[a] # None
    /\ step[a] = "create" => recorded[a] = None
    /\ step[a] = "update" => recorded[a] # None /\ SlotOf(config[a]) = SlotOf(recorded[a])
    /\ step[a] \in {"delete", "replace"} => recorded[a] # None

\* A request under way is the one its address still calls for.
CallInv(a) ==
  call[a] # None => step[a] # "none" /\ call[a].request = RequestFor(a)

AddressInv(a) == RecordOwned(a) /\ RefreshInv(a) /\ StepInv(a) /\ CallInv(a)

ShapeInv == TypeOK /\ \A a \in Address : AddressInv(a)

\* What a configuration has at an address is one of the address's resources.
LEMMA ConfigType ==
  ASSUME NEW c \in Configurations, NEW a \in Address
  PROVE  /\ c[a] \in Model \cup {None}
         /\ c[a] # None => SlotOf(c[a]) \in Owned(a)
BY ConfigurationsAssumption DEF Owned

\* What names one resource at one address has the type of what is configured there.
LEMMA OwnedType ==
  ASSUME NEW c \in Configurations, NEW a \in Address, c[a] # None,
         NEW m \in Model, SlotOf(m) \in Owned(a)
  PROVE  c[a].type = m.type
<1>1. PICK d \in Configurations : d[a] # None /\ SlotOf(m) = SlotOf(d[a])
  BY DEF Owned
<1>2. d[a] \in Model /\ c[a] \in Model
  BY <1>1, ConfigurationsAssumption
<1>3. m.type = d[a].type
  BY <1>1, <1>2, SlotHasType
<1> QED
  BY <1>1, <1>2, <1>3, ConfigurationsAssumption, NoneAssumption

\* No resource belongs to two addresses.
LEMMA OwnedApart ==
  ASSUME NEW a \in Address, NEW b \in Address, a # b
  PROVE  Owned(a) \cap Owned(b) = {}
BY ConfigurationsAssumption DEF Owned

\* What an address still to be done asks for is a request about its own resource.
LEMMA RequestForType ==
  ASSUME ShapeInv, NEW a \in Address, phase = "apply", step[a] # "none"
  PROVE  /\ RequestFor(a) \in Request
         /\ ResourceOf(RequestFor(a)) \in Owned(a)
         /\ step[a] \in {"create", "update"} =>
              /\ RequestFor(a) = [op |-> "put", model |-> config[a]]
              /\ config[a] \in Model
         /\ step[a] \notin {"create", "update"} =>
              /\ RequestFor(a) = [op |-> "delete", slot |-> SlotOf(recorded[a])]
              /\ recorded[a] \in Model
<1>1. /\ step[a] \in {"create", "update", "delete", "replace"}
      /\ config \in Configurations
      /\ recorded[a] \in Model \cup {None}
      /\ StepInv(a) /\ RecordOwned(a)
  BY DEF ShapeInv, AddressInv, StepInv, TypeOK, Step
<1>2. CASE step[a] \in {"create", "update"}
  <2>1. config[a] \in Model /\ SlotOf(config[a]) \in Owned(a)
    BY <1>1, <1>2, ConfigType DEF StepInv
  <2>2. RequestFor(a) = [op |-> "put", model |-> config[a]]
    BY <1>2 DEF RequestFor
  <2> QED
    BY <1>2, <2>1, <2>2 DEF Request, ResourceOf
<1>3. CASE step[a] \in {"delete", "replace"}
  <2>1. recorded[a] \in Model /\ SlotOf(recorded[a]) \in Owned(a)
    BY <1>1, <1>3 DEF StepInv, RecordOwned
  <2>2. RequestFor(a) = [op |-> "delete", slot |-> SlotOf(recorded[a])]
    BY <1>3 DEF RequestFor
  <2> QED
    BY <1>3, <2>1, <2>2 DEF Request, ResourceOf, Slots
<1> QED
  BY <1>1, <1>2, <1>3

\* The platform keeps one resource per slot.
LEMMA ExecutesType ==
  ASSUME TypeOK, NEW r \in Request,
         \/ Executes(r)
         \/ platform' = IF r.op = "put" THEN Without(SlotOf(r.model)) \cup {r.model}
                        ELSE Without(r.slot)
  PROVE  /\ platform' \subseteq Model
         /\ \A m, n \in platform' : SlotOf(m) = SlotOf(n) => m = n
         /\ ResourceOf(r) \in Slots
<1>1. platform' = IF r.op = "put" THEN Without(SlotOf(r.model)) \cup {r.model}
                  ELSE Without(r.slot)
  BY DEF Executes
<1>2. CASE r.op = "put"
  <2>1. r.model \in Model
    BY <1>2 DEF Request
  <2>2. /\ platform' \subseteq Model
        /\ \A m, n \in platform' : SlotOf(m) = SlotOf(n) => m = n
    BY <1>1, <1>2, <2>1 DEF Without, TypeOK
  <2> QED
    BY <1>2, <2>1, <2>2 DEF ResourceOf, Slots
<1>3. CASE r.op # "put"
  <2>1. r.slot \in Slots
    BY <1>3 DEF Request
  <2>2. /\ platform' \subseteq Model
        /\ \A m, n \in platform' : SlotOf(m) = SlotOf(n) => m = n
    BY <1>1, <1>3 DEF Without, TypeOK
  <2> QED
    BY <1>3, <2>1, <2>2 DEF ResourceOf
<1> QED
  BY <1>2, <1>3

\* Nothing is recorded and nothing asked at first.
LEMMA ShapeInit == Init => ShapeInv
BY BoundsAssumption
   DEF Init, ShapeInv, TypeOK, AddressInv, RecordOwned, RefreshInv, StepInv, CallInv, Idle, Empty, Step

\* Steps of somebody else: the toolchain is where it was.
LEMMA ShapeFrame ==
  ASSUME ShapeInv, UNCHANGED toolchain, TypeOK'
  PROVE  ShapeInv'
BY DEF ShapeInv, toolchain, AddressInv, RecordOwned, RefreshInv, StepInv, CallInv, RequestFor

\* Every step keeps the shape: one step per action.
LEMMA ShapeStep == ShapeInv /\ [Next]_vars => ShapeInv'
<1> SUFFICES ASSUME ShapeInv, [Next]_vars
             PROVE  ShapeInv'
  OBVIOUS
<1> USE DEF Idle, Empty, Step
<1>0. TypeOK
  BY DEF ShapeInv
<1>1. ASSUME NEW c \in Configurations, Edit(c)
      PROVE  ShapeInv'
  BY <1>1 DEF Edit, ShapeInv, TypeOK, histories, AddressInv, RecordOwned, RefreshInv, StepInv,
              CallInv
<1>2. CASE NewTree
  <2>1. \A a \in Address : recorded[a] # None => SlotOf(recorded[a]) \in Slots
    BY <1>0 DEF TypeOK, Slots
  <2>2. TypeOK'
    BY <1>0, <1>2, <2>1 DEF NewTree, TypeOK
  <2> QED
    BY <1>2, <2>2 DEF NewTree, ShapeInv, TypeOK, AddressInv, RecordOwned, RefreshInv, StepInv, CallInv
<1>3. ASSUME NEW a \in Address, Import(a)
      PROVE  ShapeInv'
  <2>1. PICK m \in platform : /\ SlotOf(m) = SlotOf(config[a])
                              /\ recorded' = [recorded EXCEPT ![a] = m]
    BY <1>3 DEF Import
  <2>2. m \in Model /\ SlotOf(m) \in Owned(a)
    BY <1>0, <1>3, <2>1, ConfigType DEF Import, TypeOK
  <2>3. TypeOK'
    BY <1>0, <1>3, <2>1, <2>2 DEF Import, TypeOK, histories
  <2> QED
    BY <1>3, <2>1, <2>2, <2>3
       DEF Import, ShapeInv, TypeOK, AddressInv, RecordOwned, RefreshInv, StepInv, CallInv
<1>4. ASSUME NEW r \in Elsewhere, Direct(r)
      PROVE  ShapeInv'
  <2>1. r \in Request
    BY ElsewhereAssumption
  <2>2. /\ platform' \subseteq Model
        /\ \A m, n \in platform' : SlotOf(m) = SlotOf(n) => m = n
        /\ ResourceOf(r) \in Slots
    BY <1>0, <1>4, <2>1, ExecutesType DEF Direct
  <2>3. TypeOK'
    BY <1>0, <1>4, <2>2, BoundsAssumption DEF Direct, TypeOK, toolchain
  <2> QED
    BY <1>4, <2>3, ShapeFrame DEF Direct
<1>5. CASE StartPlan
  <2>1. TypeOK'
    BY <1>0, <1>5, BoundsAssumption DEF StartPlan, TypeOK, histories
  <2> QED
    BY <1>5, <2>1 DEF StartPlan, ShapeInv, TypeOK, AddressInv, RecordOwned, RefreshInv, StepInv, CallInv
<1>6. ASSUME NEW a \in Address, Read(a)
      PROVE  ShapeInv'
  <2> DEFINE m == AsRead(recorded[a])
  <2>1. recorded[a] # None /\ recorded[a] \in Model
    BY <1>0, <1>6 DEF Read, ShapeInv, AddressInv, RefreshInv, TypeOK
  <2>2. m \in Model \cup {None} /\ (m # None => SlotOf(m) = SlotOf(recorded[a]))
    BY <1>0, <2>1, AsReadFacts, RefreshedFacts DEF TypeOK
  <2> HIDE DEF m
  <2>3. /\ seen' = [seen EXCEPT ![a] = m]
        /\ step' = [step EXCEPT ![a] = "none"]
        /\ phase = "refresh"
        /\ UNCHANGED <<config, recorded, phase, call>>
    BY <1>6 DEF Read, m
  <2>4. TypeOK'
    BY <1>0, <1>6, <2>2, <2>3 DEF Read, TypeOK
  <2> QED
    BY <2>1, <2>2, <2>3, <2>4
       DEF ShapeInv, TypeOK, AddressInv, RecordOwned, RefreshInv, StepInv, CallInv
<1>7. ASSUME NEW a \in Address, ReadFails(a)
      PROVE  ShapeInv'
  <2>1. TypeOK'
    BY <1>0, <1>7 DEF ReadFails, TypeOK, histories
  <2> QED
    BY <1>7, <2>1
       DEF ReadFails, ShapeInv, TypeOK, AddressInv, RecordOwned, RefreshInv, StepInv, CallInv
<1>8. CASE Plan
  <2>1. TypeOK'
    BY <1>0, <1>8 DEF Plan, TypeOK, histories, Planned
  <2>2. ASSUME NEW a \in Address
        PROVE  AddressInv(a)'
    <3>1. /\ recorded'[a] = seen[a] /\ seen'[a] = None /\ call'[a] = None
          /\ phase' = "apply" /\ config' = config
          /\ step'[a] = Planned(config[a], seen[a])
      BY <1>0, <1>8 DEF Plan, TypeOK
    <3>2. RecordOwned(a)'
      BY <1>8, <3>1 DEF ShapeInv, AddressInv, RecordOwned, RefreshInv
    <3>3. StepInv(a)'
      <4>1. config[a] # None /\ seen[a] # None => config[a].type = seen[a].type
        BY <1>0, <3>1, <3>2, OwnedType DEF RecordOwned, TypeOK
      <4>2. config[a] \in Model \cup {None} /\ seen[a] \in Model \cup {None}
        BY <1>0, ConfigType DEF TypeOK
      <4>3. CASE config[a] = seen[a]
        BY <3>1, <4>3 DEF StepInv, Planned
      <4>4. CASE config[a] # seen[a] /\ config[a] = None
        BY <3>1, <4>4 DEF StepInv, Planned
      <4>5. CASE config[a] # seen[a] /\ seen[a] = None
        BY <3>1, <4>5 DEF StepInv, Planned
      <4>6. CASE config[a] # seen[a] /\ config[a] # None /\ seen[a] # None
        <5>1. step'[a] = IF Restricted(config[a], TypeOf(config[a]).replace)
                              = Restricted(seen[a], TypeOf(config[a]).replace)
                         THEN "update" ELSE "replace"
          BY <3>1, <4>6 DEF Planned
        <5>2. step'[a] = "update" => SlotOf(config[a]) = SlotOf(seen[a])
          BY <4>1, <4>2, <4>6, <5>1, UpdateKeepsSlot
        <5> QED
          BY <3>1, <4>6, <5>1, <5>2 DEF StepInv
      <4> QED
        BY <4>3, <4>4, <4>5, <4>6
    <3> QED
      BY <3>1, <3>2, <3>3 DEF AddressInv, RefreshInv, CallInv
  <2> QED
    BY <2>1, <2>2 DEF ShapeInv
<1>9. ASSUME NEW a \in Address, Send(a)
      PROVE  ShapeInv'
  <2>1. RequestFor(a) \in Request
    BY <1>9, RequestForType DEF Send
  <2>2. TypeOK'
    BY <1>0, <1>9, <2>1 DEF Send, TypeOK, Call, histories
  <2>3. ASSUME NEW b \in Address
        PROVE  CallInv(b)'
    <3>1. CASE b = a
      BY <1>0, <1>9, <3>1 DEF Send, CallInv, RequestFor, TypeOK
    <3>2. CASE b # a
      BY <1>0, <1>9, <3>2 DEF Send, ShapeInv, AddressInv, CallInv, RequestFor, TypeOK
    <3> QED
      BY <3>1, <3>2
  <2> QED
    BY <1>9, <2>2, <2>3 DEF Send, ShapeInv, AddressInv, RecordOwned, RefreshInv, StepInv
<1>10. ASSUME NEW a \in Address, Serve(a) \/ Refuse(a)
       PROVE  ShapeInv'
  <2>1. PICK status \in {"done", "refused"} :
          /\ call[a] # None
          /\ call' = [call EXCEPT ![a].status = status]
          /\ UNCHANGED <<config, recorded, phase, step, seen, outcome, applies, stray, foreign>>
    BY <1>10 DEF Serve, Refuse
  <2>2. call[a] \in Call /\ call[a].request \in Request
    BY <1>0, <2>1 DEF TypeOK, Call
  <2>3. call'[a] \in Call /\ call'[a].request = call[a].request
    BY <1>0, <2>1, <2>2 DEF Call, TypeOK
  <2>4. /\ platform' \subseteq Model
        /\ \A m, n \in platform' : SlotOf(m) = SlotOf(n) => m = n
        /\ created' \cup excused' \cup disturbed' \cup blind' \subseteq Slots
    <3>1. CASE Refuse(a)
      BY <1>0, <3>1 DEF Refuse, TypeOK, histories
    <3>2. CASE Serve(a)
      <4>1. Executes(call[a].request)
        BY <3>2 DEF Serve
      <4>2. /\ platform' \subseteq Model
            /\ \A m, n \in platform' : SlotOf(m) = SlotOf(n) => m = n
            /\ ResourceOf(call[a].request) \in Slots
        BY <1>0, <2>2, <4>1, ExecutesType
      <4> QED
        BY <1>0, <3>2, <4>1, <4>2 DEF Serve, Executes, TypeOK, ResourceOf
    <3> QED
      BY <1>10, <3>1, <3>2
  <2>5. call' \in [Address -> Call \cup {None}] /\ \A b \in Address \ {a} : call'[b] = call[b]
    BY <1>0, <2>1, <2>3 DEF TypeOK
  <2>6. phase = "apply"
    BY <1>0, <2>1 DEF TypeOK
  <2>7. TypeOK'
    BY <1>0, <2>1, <2>4, <2>5, <2>6 DEF TypeOK
  <2>8. ASSUME NEW b \in Address
        PROVE  CallInv(b)'
    BY <2>1, <2>3, <2>5 DEF ShapeInv, AddressInv, CallInv, RequestFor
  <2> QED
    BY <2>1, <2>7, <2>8 DEF ShapeInv, AddressInv, RecordOwned, RefreshInv, StepInv
<1>11. ASSUME NEW a \in Address, Answer(a)
       PROVE  ShapeInv'
  <2> DEFINE after == RecordedAfter(a)
  <2> DEFINE next == IF call[a].status = "done" /\ step[a] = "replace" THEN "create" ELSE "none"
  <2>1. /\ call[a] # None /\ call[a] \in Call
        /\ phase = "apply" /\ step[a] # "none" /\ call[a].request = RequestFor(a)
    BY <1>0, <1>11 DEF Answer, TypeOK, ShapeInv, AddressInv, CallInv
  <2>2. /\ recorded' = [recorded EXCEPT ![a] = after]
        /\ step' = [step EXCEPT ![a] = next]
        /\ call' = [call EXCEPT ![a] = None]
        /\ UNCHANGED <<config, phase, seen>>
    BY <1>0, <1>11 DEF Answer, TypeOK
  <2>3. /\ RequestFor(a) \in Request /\ ResourceOf(RequestFor(a)) \in Owned(a)
        /\ step[a] \in {"create", "update"} =>
             /\ RequestFor(a) = [op |-> "put", model |-> config[a]]
             /\ config[a] \in Model
        /\ step[a] \notin {"create", "update"} =>
             RequestFor(a) = [op |-> "delete", slot |-> SlotOf(recorded[a])]
    BY <2>1, RequestForType
  <2>4. /\ after \in Model \cup {None}
        /\ after # None => SlotOf(after) \in Owned(a)
        /\ next = "create" => after = None /\ config[a] # None
    <3>1. CASE call[a].status # "done"
      <4>1. after = recorded[a]
        BY <3>1 DEF RecordedAfter
      <4>2. recorded[a] \in Model \cup {None} /\ RecordOwned(a)
        BY <1>0 DEF TypeOK, ShapeInv, AddressInv
      <4> QED
        BY <3>1, <4>1, <4>2 DEF RecordOwned
    <3>2. CASE call[a].status = "done" /\ step[a] \in {"create", "update"}
      BY <2>1, <2>3, <3>2 DEF RecordedAfter, ResourceOf
    <3>3. CASE call[a].status = "done" /\ step[a] \notin {"create", "update"}
      <4>1. after = None
        BY <2>1, <2>3, <3>3 DEF RecordedAfter
      <4> QED
        BY <2>1, <4>1 DEF ShapeInv, AddressInv, StepInv
    <3> QED
      BY <3>1, <3>2, <3>3
  <2>5. next \in {"none", "create"}
    OBVIOUS
  <2> HIDE DEF after, next
  <2>6. excused' \subseteq Slots /\ outcome' \in {"none", "ok", "error"}
    <3>1. ResourceOf(call[a].request) \in Slots
      BY <2>1, <2>3 DEF Slots, Request, ResourceOf
    <3> QED
      BY <1>0, <1>11, <3>1 DEF Answer, TypeOK
  <2>7. TypeOK'
    BY <1>0, <1>11, <2>1, <2>2, <2>4, <2>5, <2>6 DEF Answer, TypeOK
  <2>8. ASSUME NEW b \in Address
        PROVE  AddressInv(b)'
    <3>1. CASE b = a
      BY <1>0, <2>1, <2>2, <2>4, <2>5, <3>1
         DEF TypeOK, ShapeInv, AddressInv, RecordOwned, RefreshInv, StepInv, CallInv
    <3>2. CASE b # a
      BY <1>0, <2>2, <3>2
         DEF TypeOK, ShapeInv, AddressInv, RecordOwned, RefreshInv, StepInv, CallInv, RequestFor
    <3> QED
      BY <3>1, <3>2
  <2> QED
    BY <2>7, <2>8 DEF ShapeInv
<1>12. ASSUME NEW a \in Address, GiveUp(a)
       PROVE  ShapeInv'
  <2>1. /\ call[a] # None /\ call[a] \in Call /\ call[a].request \in Request /\ phase = "apply"
    BY <1>0, <1>12 DEF GiveUp, TypeOK, Call
  <2>2. ResourceOf(call[a].request) \in Slots
    BY <2>1 DEF Request, ResourceOf, Slots
  <2>3. /\ step' = [step EXCEPT ![a] = "none"]
        /\ call' = [call EXCEPT ![a] = None]
        /\ UNCHANGED <<config, recorded, phase, seen>>
    BY <1>12 DEF GiveUp
  <2>4. TypeOK'
    BY <1>0, <1>12, <2>1, <2>2 DEF GiveUp, TypeOK
  <2> QED
    BY <1>0, <2>1, <2>3, <2>4
       DEF TypeOK, ShapeInv, AddressInv, RecordOwned, RefreshInv, StepInv, CallInv, RequestFor
<1>13. ASSUME NEW a \in Address, Skip(a)
       PROVE  ShapeInv'
  <2>1. /\ step' = [step EXCEPT ![a] = "none"]
        /\ phase = "apply" /\ call[a] = None
        /\ UNCHANGED <<config, recorded, phase, seen, call>>
    BY <1>13 DEF Skip
  <2>2. TypeOK'
    BY <1>0, <1>13 DEF Skip, TypeOK, histories
  <2> QED
    BY <1>0, <2>1, <2>2
       DEF TypeOK, ShapeInv, AddressInv, RecordOwned, RefreshInv, StepInv, CallInv, RequestFor
<1>14. CASE Finish
  <2>1. \A a \in Address : call[a] = None
    BY <1>14 DEF Finish, ShapeInv, AddressInv, CallInv
  <2>2. call = Empty
    BY <1>0, <2>1 DEF TypeOK
  <2>3. TypeOK'
    BY <1>0, <1>14, <2>2 DEF Finish, TypeOK, histories
  <2> QED
    BY <1>14, <2>1, <2>3
       DEF Finish, ShapeInv, AddressInv, RecordOwned, RefreshInv, StepInv, CallInv
<1>15. ASSUME NEW r \in stray, Late(r)
       PROVE  ShapeInv'
  <2>1. r \in Request
    BY <1>0 DEF TypeOK
  <2>2. CASE UNCHANGED <<platform, created, disturbed, blind, excused>>
    <3>1. TypeOK'
      BY <1>0, <1>15, <2>2 DEF Late, TypeOK, toolchain
    <3> QED
      BY <1>15, <3>1, ShapeFrame DEF Late
  <2>3. CASE /\ Executes(r)
             /\ disturbed' = disturbed \cup {ResourceOf(r)}
             /\ blind' = blind \cup {ResourceOf(r)}
             /\ excused' = excused \cup {ResourceOf(r)}
    <3>1. /\ platform' \subseteq Model
          /\ \A m, n \in platform' : SlotOf(m) = SlotOf(n) => m = n
          /\ ResourceOf(r) \in Slots
      BY <1>0, <2>1, <2>3, ExecutesType
    <3>2. created' \subseteq Slots
      BY <1>0, <2>3, <3>1 DEF Executes, TypeOK, ResourceOf
    <3>3. TypeOK'
      BY <1>0, <1>15, <2>3, <3>1, <3>2 DEF Late, TypeOK, toolchain
    <3> QED
      BY <1>15, <3>3, ShapeFrame DEF Late
  <2> QED
    BY <1>15, <2>2, <2>3 DEF Late
<1>16. CASE UNCHANGED vars
  BY <1>0, <1>16, ShapeFrame DEF vars, toolchain, histories, TypeOK
<1> QED
  BY <1>1, <1>2, <1>3, <1>4, <1>5, <1>6, <1>7, <1>8, <1>9, <1>10, <1>11, <1>12, <1>13, <1>14,
     <1>15, <1>16 DEF Next, Operating

\* The toolchain's state, the requests under way and the platform stay well
\* formed, whatever is refused, lost or late.
THEOREM TypeTheorem == Spec => []TypeOK
<1>1. ShapeInv => TypeOK
  BY DEF ShapeInv
<1> QED
  BY ShapeInit, ShapeStep, <1>1, PTL DEF Spec

-----------------------------------------------------------------------------
(* Nothing is forgotten.  A refresh may only drop what the platform does   *)
(* not have, an answer to a deletion only what is really gone: both are    *)
(* about a moment that has passed when the record is changed.              *)

SeenKeeps ==
  phase = "refresh" =>
    \A m \in platform :
      SlotOf(m) \in created =>
        SlotOf(m) \in excused \/ \E a \in Address : seen[a] # None /\ SlotOf(seen[a]) = SlotOf(m)

DeletedIsGone ==
  \A a \in Address :
    call[a] # None /\ call[a].status = "done" /\ call[a].request.op = "delete" =>
      \A m \in platform :
        SlotOf(m) = call[a].request.slot => SlotOf(m) \notin created \/ SlotOf(m) \in excused

KeepInv == NothingForgotten /\ SeenKeeps /\ DeletedIsGone

\* Steps that leave record and platform alone.
LEMMA KeepFrame ==
  ASSUME KeepInv, UNCHANGED <<recorded, seen, call, platform, created>>, excused \subseteq excused',
         phase' = "refresh" => phase = "refresh"
  PROVE  KeepInv'
BY DEF KeepInv, NothingForgotten, SeenKeeps, DeletedIsGone

\* A write that is not the provider's, or that is excused, adds nothing to keep.
LEMMA KeepWrite ==
  ASSUME TypeOK, KeepInv, UNCHANGED toolchain, NEW r \in Request,
         platform' = IF r.op = "put" THEN Without(SlotOf(r.model)) \cup {r.model}
                     ELSE Without(r.slot),
         \A s \in created' \ {ResourceOf(r)} : s \in created,
         excused \subseteq excused',
         ResourceOf(r) \in excused' \/ ResourceOf(r) \notin created'
  PROVE  KeepInv'
<1>1. ASSUME NEW m \in platform', SlotOf(m) # ResourceOf(r)
      PROVE  m \in platform
  BY <1>1 DEF Without, ResourceOf
<1>2. ASSUME NEW m \in platform', SlotOf(m) \in created', SlotOf(m) \notin excused'
      PROVE  /\ m \in platform
             /\ SlotOf(m) \in created
             /\ SlotOf(m) \notin excused
  <2>1. SlotOf(m) # ResourceOf(r)
    BY <1>2
  <2> QED
    BY <1>1, <1>2, <2>1
<1>3. UNCHANGED <<recorded, seen, call, phase>>
  BY DEF toolchain
<1>4. NothingForgotten'
  BY <1>2, <1>3 DEF KeepInv, NothingForgotten
<1>5. SeenKeeps'
  BY <1>2, <1>3 DEF KeepInv, SeenKeeps
<1>6. DeletedIsGone'
  BY <1>2, <1>3 DEF KeepInv, DeletedIsGone
<1> QED
  BY <1>4, <1>5, <1>6 DEF KeepInv

\* Nothing is created at first.
LEMMA KeepInit == Init => KeepInv
BY DEF Init, KeepInv, NothingForgotten, SeenKeeps, DeletedIsGone, Empty

\* Every step keeps what the provider created in somebody's books.
LEMMA KeepStep == ShapeInv /\ KeepInv /\ [Next]_vars => KeepInv'
<1> SUFFICES ASSUME ShapeInv, KeepInv, [Next]_vars
             PROVE  KeepInv'
  OBVIOUS
<1>0. TypeOK
  BY DEF ShapeInv
<1>1. ASSUME NEW c \in Configurations, Edit(c)
      PROVE  KeepInv'
  BY <1>1, KeepFrame DEF Edit, histories
<1>2. CASE NewTree
  <2>1. \A a \in Address : call[a] = None
    BY <1>0, <1>2 DEF NewTree, TypeOK, Empty
  <2> QED
    BY <1>2, <2>1 DEF NewTree, KeepInv, NothingForgotten, SeenKeeps, DeletedIsGone
<1>3. ASSUME NEW a \in Address, Import(a)
      PROVE  KeepInv'
  <2>1. /\ recorded[a] = None
        /\ \A b \in Address \ {a} : recorded'[b] = recorded[b]
        /\ phase # "refresh"
        /\ UNCHANGED <<phase, seen, call, platform, created, excused>>
    BY <1>0, <1>3 DEF Import, TypeOK, histories
  <2> QED
    BY <2>1 DEF KeepInv, NothingForgotten, SeenKeeps, DeletedIsGone
<1>4. ASSUME NEW r \in Elsewhere, Direct(r)
      PROVE  KeepInv'
  BY <1>0, <1>4, ElsewhereAssumption, KeepWrite DEF Direct
<1>5. CASE StartPlan
  <2>1. \A a \in Address : call[a] = None
    BY <1>0, <1>5 DEF StartPlan, TypeOK, Empty
  <2> QED
    BY <1>5, <2>1 DEF StartPlan, KeepInv, NothingForgotten, SeenKeeps, DeletedIsGone, histories
<1>6. ASSUME NEW a \in Address, Read(a)
      PROVE  KeepInv'
  <2>1. /\ recorded[a] \in Model /\ seen[a] = recorded[a] /\ phase = "refresh"
        /\ seen' = [seen EXCEPT ![a] = AsRead(recorded[a])]
        /\ UNCHANGED <<recorded, phase, call, platform, created, excused>>
    BY <1>0, <1>6 DEF Read, ShapeInv, AddressInv, RefreshInv, TypeOK
  <2>2. SeenKeeps'
    <3> SUFFICES ASSUME NEW m \in platform, SlotOf(m) \in created, SlotOf(m) \notin excused
                 PROVE  \E b \in Address : seen'[b] # None /\ SlotOf(seen'[b]) = SlotOf(m)
      BY <2>1 DEF SeenKeeps
    <3>1. PICK b \in Address : seen[b] # None /\ SlotOf(seen[b]) = SlotOf(m)
      BY <2>1 DEF KeepInv, SeenKeeps
    <3>2. CASE b # a
      BY <1>0, <2>1, <3>1, <3>2 DEF TypeOK
    <3>3. CASE b = a
      <4>1. PICK live \in platform : /\ SlotOf(live) = SlotOf(recorded[a])
                                     /\ AsRead(recorded[a]) = Refreshed(recorded[a], live)
        BY <2>1, <3>1, <3>3, AsReadFacts
      <4>2. /\ Refreshed(recorded[a], live) \in Model
            /\ SlotOf(Refreshed(recorded[a], live)) = SlotOf(recorded[a])
        BY <1>0, <2>1, <4>1, RefreshedFacts DEF TypeOK
      <4>3. seen'[a] = Refreshed(recorded[a], live)
        BY <1>0, <2>1, <4>1 DEF TypeOK
      <4>4. seen'[a] # None
        BY <4>2, <4>3, NoneAssumption
      <4>5. SlotOf(seen'[a]) = SlotOf(m)
        BY <2>1, <3>1, <3>3, <4>2, <4>3
      <4> QED
        BY <4>4, <4>5
    <3> QED
      BY <3>2, <3>3
  <2> QED
    BY <2>1, <2>2 DEF KeepInv, NothingForgotten, DeletedIsGone
<1>7. ASSUME NEW a \in Address, ReadFails(a)
      PROVE  KeepInv'
  BY <1>7 DEF ReadFails, KeepInv, NothingForgotten, SeenKeeps, DeletedIsGone, histories
<1>8. CASE Plan
  BY <1>0, <1>8 DEF Plan, TypeOK, KeepInv, NothingForgotten, SeenKeeps, DeletedIsGone, histories, Empty
<1>9. ASSUME NEW a \in Address, Send(a)
      PROVE  KeepInv'
  <2>1. /\ call[a] = None
        /\ \A b \in Address \ {a} : call'[b] = call[b]
        /\ call'[a] = [request |-> RequestFor(a), status |-> "sent"]
        /\ phase = "apply"
        /\ UNCHANGED <<recorded, phase, seen, platform, created, excused>>
    BY <1>0, <1>9 DEF Send, TypeOK, histories
  <2> QED
    BY <2>1 DEF KeepInv, NothingForgotten, SeenKeeps, DeletedIsGone
<1>10. ASSUME NEW a \in Address, Refuse(a)
       PROVE  KeepInv'
  <2>1. /\ call[a] # None /\ call[a] \in Call
        /\ \A b \in Address \ {a} : call'[b] = call[b]
        /\ call'[a] = [call[a] EXCEPT !.status = "refused"]
        /\ UNCHANGED <<recorded, phase, seen, platform, created, excused>>
    BY <1>0, <1>10 DEF Refuse, TypeOK, histories
  <2>2. call'[a] \in Call /\ call'[a].request = call[a].request /\ call'[a].status = "refused"
    BY <2>1 DEF Call
  <2>3. call'[a] # None
    BY <2>2, NoneAssumption
  <2>4. NothingForgotten'
    BY <2>1, <2>2, <2>3 DEF KeepInv, NothingForgotten
  <2>5. DeletedIsGone'
    BY <2>1, <2>2 DEF KeepInv, DeletedIsGone
  <2> QED
    BY <2>1, <2>4, <2>5 DEF KeepInv, SeenKeeps
<1>11. ASSUME NEW a \in Address, Serve(a)
       PROVE  KeepInv'
  <2> DEFINE r == call[a].request
  <2>1. /\ call[a] # None /\ call[a] \in Call /\ r \in Request
        /\ \A b \in Address \ {a} : call'[b] = call[b]
        /\ call'[a] = [call[a] EXCEPT !.status = "done"]
        /\ UNCHANGED <<recorded, phase, seen>>
        /\ excused' = excused \ {ResourceOf(r)}
        /\ Executes(r)
    BY <1>0, <1>11 DEF Serve, TypeOK, Call
  <2>2. call'[a] \in Call /\ call'[a].request = r
    BY <2>1 DEF Call
  <2>3. call'[a] # None
    BY <2>2, NoneAssumption
  <2>4. /\ \A m \in platform' : SlotOf(m) # ResourceOf(r) => m \in platform
        /\ \A s \in created' : s # ResourceOf(r) => s \in created
        /\ r.op # "put" => ResourceOf(r) \notin created'
    BY <2>1 DEF Executes, Without, ResourceOf
  <2>5. phase = "apply"
    BY <1>0, <2>1 DEF TypeOK, Empty
  <2>6. \A b \in Address : call[b] # None => ResourceOf(call[b].request) \in Owned(b)
    <3> SUFFICES ASSUME NEW b \in Address, call[b] # None
                 PROVE  ResourceOf(call[b].request) \in Owned(b)
      OBVIOUS
    <3>1. step[b] # "none" /\ call[b].request = RequestFor(b)
      BY DEF ShapeInv, AddressInv, CallInv
    <3> QED
      BY <2>5, <3>1, RequestForType
  <2> HIDE DEF r
  <2>7. NothingForgotten'
    <3> SUFFICES ASSUME NEW m \in platform', SlotOf(m) \in created', SlotOf(m) \notin excused'
                 PROVE  \E b \in Address :
                          \/ recorded'[b] # None /\ SlotOf(recorded'[b]) = SlotOf(m)
                          \/ call'[b] # None /\ ResourceOf(call'[b].request) = SlotOf(m)
      BY DEF NothingForgotten
    <3>1. CASE SlotOf(m) = ResourceOf(r)
      BY <2>2, <2>3, <3>1
    <3>2. CASE SlotOf(m) # ResourceOf(r)
      <4>1. m \in platform /\ SlotOf(m) \in created /\ SlotOf(m) \notin excused
        BY <2>1, <2>4, <3>2
      <4>2. PICK b \in Address :
              \/ recorded[b] # None /\ SlotOf(recorded[b]) = SlotOf(m)
              \/ call[b] # None /\ ResourceOf(call[b].request) = SlotOf(m)
        BY <4>1 DEF KeepInv, NothingForgotten
      <4>3. call[b] # None => call'[b] # None /\ call'[b].request = call[b].request
        BY <2>1, <2>2, <2>3 DEF r
      <4> QED
        BY <2>1, <4>2, <4>3
    <3> QED
      BY <3>1, <3>2
  <2>8. DeletedIsGone'
    <3> SUFFICES ASSUME NEW b \in Address, call'[b] # None, call'[b].status = "done",
                        call'[b].request.op = "delete",
                        NEW m \in platform', SlotOf(m) = call'[b].request.slot, SlotOf(m) \in created'
                 PROVE  SlotOf(m) \in excused'
      BY DEF DeletedIsGone
    <3>1. SlotOf(m) = ResourceOf(call'[b].request)
      BY DEF ResourceOf
    <3>2. b # a
      <4>1. CASE b = a
        <5>1. SlotOf(m) = ResourceOf(r) /\ r.op = "delete"
          BY <2>2, <3>1, <4>1
        <5> QED
          BY <2>4, <5>1
      <4> QED
        BY <4>1
    <3>3. call[b] = call'[b] /\ SlotOf(m) \in Owned(b) /\ ResourceOf(r) \in Owned(a)
      BY <2>1, <2>6, <3>1, <3>2 DEF r
    <3>4. SlotOf(m) # ResourceOf(r)
      BY <3>2, <3>3, OwnedApart
    <3>5. m \in platform /\ SlotOf(m) \in created
      BY <2>4, <3>4
    <3> QED
      BY <2>1, <3>3, <3>4, <3>5 DEF KeepInv, DeletedIsGone
  <2> QED
    BY <2>1, <2>5, <2>7, <2>8 DEF KeepInv, SeenKeeps
<1>12. ASSUME NEW a \in Address, Answer(a)
       PROVE  KeepInv'
  <2>1. /\ call[a] # None /\ call[a] \in Call
        /\ phase = "apply" /\ step[a] # "none" /\ call[a].request = RequestFor(a)
        /\ StepInv(a)
    BY <1>0, <1>12 DEF Answer, TypeOK, ShapeInv, AddressInv, CallInv, Empty
  <2>2. /\ recorded' = [recorded EXCEPT ![a] = RecordedAfter(a)]
        /\ call' = [call EXCEPT ![a] = None]
        /\ excused \subseteq excused'
        /\ call[a].status # "done" => ResourceOf(call[a].request) \in excused'
        /\ UNCHANGED <<phase, seen, platform, created>>
    BY <1>0, <1>12 DEF Answer, TypeOK
  <2>3. /\ \A b \in Address \ {a} : recorded'[b] = recorded[b] /\ call'[b] = call[b]
        /\ recorded'[a] = RecordedAfter(a) /\ call'[a] = None
    BY <1>0, <2>2 DEF TypeOK
  <2>4. /\ step[a] \in {"create", "update"} =>
             /\ call[a].request = [op |-> "put", model |-> config[a]]
             /\ config[a] \in Model
        /\ step[a] \notin {"create", "update"} =>
             call[a].request = [op |-> "delete", slot |-> SlotOf(recorded[a])]
    BY <2>1, RequestForType
  <2>5. ASSUME NEW m \in platform, SlotOf(m) \in created, SlotOf(m) \notin excused',
               \/ recorded[a] # None /\ SlotOf(recorded[a]) = SlotOf(m)
               \/ ResourceOf(call[a].request) = SlotOf(m)
        PROVE  recorded'[a] # None /\ SlotOf(recorded'[a]) = SlotOf(m)
    <3>1. CASE call[a].status # "done"
      BY <2>2, <2>3, <2>5, <3>1 DEF RecordedAfter
    <3>2. CASE call[a].status = "done" /\ step[a] \in {"create", "update"}
      <4>1. RecordedAfter(a) = config[a] /\ config[a] # None
        BY <2>4, <3>2, NoneAssumption DEF RecordedAfter
      <4>2. ResourceOf(call[a].request) = SlotOf(config[a])
        BY <2>4, <3>2 DEF ResourceOf
      <4>3. recorded[a] # None => SlotOf(recorded[a]) = SlotOf(config[a])
        BY <2>1, <3>2 DEF StepInv
      <4> QED
        BY <2>3, <2>5, <4>1, <4>2, <4>3
    <3>3. CASE call[a].status = "done" /\ step[a] \notin {"create", "update"}
      <4>1. call[a].request.op = "delete" /\ call[a].request.slot = SlotOf(recorded[a])
        BY <2>4, <3>3
      <4>2. SlotOf(m) = call[a].request.slot
        BY <2>5, <4>1 DEF ResourceOf
      <4>3. SlotOf(m) \notin created \/ SlotOf(m) \in excused
        BY <2>1, <3>3, <4>1, <4>2 DEF KeepInv, DeletedIsGone
      <4> QED
        BY <2>2, <2>5, <4>3
    <3> QED
      BY <3>1, <3>2, <3>3
  <2>6. NothingForgotten'
    <3> SUFFICES ASSUME NEW m \in platform, SlotOf(m) \in created, SlotOf(m) \notin excused'
                 PROVE  \E b \in Address :
                          \/ recorded'[b] # None /\ SlotOf(recorded'[b]) = SlotOf(m)
                          \/ call'[b] # None /\ ResourceOf(call'[b].request) = SlotOf(m)
      BY <2>2 DEF NothingForgotten
    <3>1. PICK b \in Address :
            \/ recorded[b] # None /\ SlotOf(recorded[b]) = SlotOf(m)
            \/ call[b] # None /\ ResourceOf(call[b].request) = SlotOf(m)
      BY <2>2 DEF KeepInv, NothingForgotten
    <3>2. CASE b = a
      BY <2>5, <3>1, <3>2
    <3>3. CASE b # a
      BY <2>3, <3>1, <3>3
    <3> QED
      BY <3>2, <3>3
  <2>7. DeletedIsGone'
    BY <2>2, <2>3 DEF KeepInv, DeletedIsGone
  <2> QED
    BY <2>1, <2>2, <2>6, <2>7 DEF KeepInv, SeenKeeps
<1>13. ASSUME NEW a \in Address, GiveUp(a)
       PROVE  KeepInv'
  <2>1. /\ \A b \in Address \ {a} : call'[b] = call[b]
        /\ call'[a] = None /\ call[a] # None
        /\ excused' = excused \cup {ResourceOf(call[a].request)}
        /\ UNCHANGED <<recorded, phase, seen, platform, created>>
    BY <1>0, <1>13 DEF GiveUp, TypeOK
  <2>2. phase = "apply"
    BY <1>0, <2>1 DEF TypeOK, Empty
  <2>3. NothingForgotten'
    BY <2>1 DEF KeepInv, NothingForgotten
  <2>4. DeletedIsGone'
    BY <2>1 DEF KeepInv, DeletedIsGone
  <2> QED
    BY <2>1, <2>2, <2>3, <2>4 DEF KeepInv, SeenKeeps
<1>14. ASSUME NEW a \in Address, Skip(a)
       PROVE  KeepInv'
  BY <1>14, KeepFrame DEF Skip, histories
<1>15. CASE Finish
  BY <1>15, KeepFrame DEF Finish, histories
<1>16. ASSUME NEW r \in stray, Late(r)
       PROVE  KeepInv'
  <2>1. r \in Request
    BY <1>0 DEF TypeOK
  <2>2. CASE UNCHANGED <<platform, created, disturbed, blind, excused>>
    BY <1>16, <2>2, KeepFrame DEF Late, toolchain
  <2>3. CASE Executes(r) /\ excused' = excused \cup {ResourceOf(r)}
    <3>1. \A s \in created' \ {ResourceOf(r)} : s \in created
      BY <2>3 DEF Executes, ResourceOf
    <3> QED
      BY <1>0, <1>16, <2>1, <2>3, <3>1, KeepWrite DEF Late, Executes
  <2> QED
    BY <1>16, <2>2, <2>3 DEF Late
<1>17. CASE UNCHANGED vars
  BY <1>17, KeepFrame DEF vars, toolchain, histories
<1> QED
  BY <1>1, <1>2, <1>3, <1>4, <1>5, <1>6, <1>7, <1>8, <1>9, <1>10, <1>11, <1>12, <1>13, <1>14,
     <1>15, <1>16, <1>17 DEF Next, Operating

\* Whatever fails, times out or comes late: a resource the provider created is
\* recorded, asked about, or known to have ended in an error (Create, Read,
\* Update, Delete of the five resources; client.go do).
THEOREM ForgottenTheorem == Spec => []NothingForgotten
<1>1. ShapeInv /\ KeepInv /\ [Next]_vars => (ShapeInv /\ KeepInv)'
  BY ShapeStep, KeepStep
<1>2. KeepInv => NothingForgotten
  BY DEF KeepInv
<1> QED
  BY ShapeInit, KeepInit, <1>1, <1>2, PTL DEF Spec

-----------------------------------------------------------------------------
(* Convergence.  What a read compared stays true until somebody writes the *)
(* resource (disturbed); what a read does not compare is known only from   *)
(* the provider's own put, and until somebody writes unnoticed (blind).    *)

\* The resource is there and agrees with r in what Read compares.
Fresh(r, live, written) ==
  SlotOf(r) \notin written => \E m \in live : SlotOf(m) = SlotOf(r) /\ SameAsRead(r, m)

\* If the resource is there it agrees with r in what Read does not compare.
Exact(r, live, unnoticed) ==
  SlotOf(r) \notin unnoticed =>
    \A m \in live : SlotOf(m) = SlotOf(r) => \A f \in DOMAIN m \ TypeOf(m).read : m[f] = r[f]

Served(a) == call[a] # None /\ call[a].status = "done"

RecordExact ==
  \A a \in Address : recorded[a] # None /\ ~Served(a) => Exact(recorded[a], platform, blind)
SeenExact ==
  \A a \in Address : seen[a] # None => Exact(seen[a], platform, blind)
SeenFresh ==
  \A a \in Address :
    phase = "refresh" /\ step[a] = "none" /\ seen[a] # None => Fresh(seen[a], platform, disturbed)
PutServed ==
  \A a \in Address :
    Served(a) /\ call[a].request.op = "put" =>
      /\ Exact(call[a].request.model, platform, blind)
      /\ Fresh(call[a].request.model, platform, disturbed)
\* Once an address is done it is recorded as it is configured.
RecordFresh ==
  outcome = "ok" =>
    /\ phase # "refresh"
    /\ \A a \in Address :
         /\ recorded[a] # None /\ ~Served(a) => Fresh(recorded[a], platform, disturbed)
         /\ step[a] = "none" => recorded[a] = config[a]
         /\ step[a] = "delete" => config[a] = None

ConvergeInv == RecordExact /\ SeenExact /\ SeenFresh /\ PutServed /\ RecordFresh

\* What is known of a resource outlives a write of another one, and a write of
\* its own that the histories tell of.
LEMMA KnownKept ==
  ASSUME NEW r, NEW s, NEW live, NEW after, NEW told, NEW tell,
         \A m \in live \cup after : SlotOf(m) # s => (m \in live <=> m \in after),
         \A x : x # s /\ x \in told => x \in tell,
         SlotOf(r) # s \/ s \in tell
  PROVE  /\ Fresh(r, live, told) => Fresh(r, after, tell)
         /\ Exact(r, live, told) => Exact(r, after, tell)
<1>1. CASE SlotOf(r) = s
  BY <1>1 DEF Fresh, Exact
<1>2. CASE SlotOf(r) # s
  <2>1. ASSUME Fresh(r, live, told), SlotOf(r) \notin tell
        PROVE  \E m \in after : SlotOf(m) = SlotOf(r) /\ SameAsRead(r, m)
    <3>1. PICK m \in live : SlotOf(m) = SlotOf(r) /\ SameAsRead(r, m)
      BY <1>2, <2>1 DEF Fresh
    <3> QED
      BY <1>2, <3>1
  <2>2. ASSUME Exact(r, live, told), SlotOf(r) \notin tell,
               NEW m \in after, SlotOf(m) = SlotOf(r), NEW f \in DOMAIN m \ TypeOf(m).read
        PROVE  m[f] = r[f]
    <3>1. SlotOf(r) \notin told /\ m \in live
      BY <1>2, <2>2
    <3> QED
      BY <2>2, <3>1 DEF Exact
  <2> QED
    BY <2>1, <2>2 DEF Fresh, Exact
<1> QED
  BY <1>1, <1>2

\* A put leaves exactly its model.
LEMMA PutIsKnown ==
  ASSUME NEW m \in Model, NEW live, NEW told,
         \A n \in live : SlotOf(n) = SlotOf(m) => n = m, m \in live
  PROVE  Fresh(m, live, told) /\ Exact(m, live, told)
BY DEF Fresh, Exact, SameAsRead

\* So does a read, as far as the record it started from was exact.
LEMMA ReadIsKnown ==
  ASSUME TypeOK, NEW r \in Model, NEW live \in platform, SlotOf(live) = SlotOf(r),
         Exact(r, platform, blind), NEW told
  PROVE  /\ Fresh(Refreshed(r, live), platform, told)
         /\ Exact(Refreshed(r, live), platform, blind)
<1>1. /\ live \in Model
      /\ \A m \in platform : SlotOf(m) = SlotOf(r) => m = live
  BY DEF TypeOK
<1>2. /\ Refreshed(r, live) \in Model
      /\ SlotOf(Refreshed(r, live)) = SlotOf(r)
      /\ SameAsRead(Refreshed(r, live), live)
      /\ \A f \in DOMAIN r \ TypeOf(r).read : Refreshed(r, live)[f] = r[f]
  BY <1>1, RefreshedFacts
<1>3. live.type = r.type
  BY <1>1, SlotHasType
<1>4. DOMAIN live = DOMAIN r /\ TypeOf(live) = TypeOf(r)
  BY <1>1, <1>3, ModelAssumption DEF TypeOf
<1>5. Fresh(Refreshed(r, live), platform, told)
  BY <1>2 DEF Fresh
<1>6. ASSUME SlotOf(r) \notin blind, NEW f \in DOMAIN live \ TypeOf(live).read
      PROVE  live[f] = Refreshed(r, live)[f]
  BY <1>2, <1>4, <1>6 DEF Exact
<1>7. Exact(Refreshed(r, live), platform, blind)
  BY <1>1, <1>2, <1>6 DEF Exact
<1> QED
  BY <1>5, <1>7

\* A write that the histories tell of.
LEMMA ConvergeWrite ==
  ASSUME ConvergeInv, UNCHANGED toolchain, NEW s,
         \A m \in platform \cup platform' : SlotOf(m) # s => (m \in platform <=> m \in platform'),
         disturbed' = disturbed \cup {s}, blind' = blind \cup {s}
  PROVE  ConvergeInv'
<1>1. \A a \in Address :
        /\ Exact(recorded[a], platform, blind) => Exact(recorded[a], platform', blind')
        /\ Exact(seen[a], platform, blind) => Exact(seen[a], platform', blind')
        /\ Exact(call[a].request.model, platform, blind)
             => Exact(call[a].request.model, platform', blind')
        /\ Fresh(recorded[a], platform, disturbed) => Fresh(recorded[a], platform', disturbed')
        /\ Fresh(seen[a], platform, disturbed) => Fresh(seen[a], platform', disturbed')
        /\ Fresh(call[a].request.model, platform, disturbed)
             => Fresh(call[a].request.model, platform', disturbed')
  BY KnownKept
<1>2. UNCHANGED <<config, recorded, phase, step, seen, call, outcome>>
  BY DEF toolchain
<1>3. RecordExact'
  BY <1>1, <1>2 DEF ConvergeInv, RecordExact, Served
<1>4. SeenExact' /\ SeenFresh'
  BY <1>1, <1>2 DEF ConvergeInv, SeenExact, SeenFresh
<1>5. PutServed'
  BY <1>1, <1>2 DEF ConvergeInv, PutServed, Served
<1>6. RecordFresh'
  BY <1>1, <1>2 DEF ConvergeInv, RecordFresh, Served
<1> QED
  BY <1>3, <1>4, <1>5, <1>6 DEF ConvergeInv

\* A write leaves every other resource as it was.
LEMMA WithoutApart ==
  ASSUME NEW r \in Request,
         platform' = IF r.op = "put" THEN Without(SlotOf(r.model)) \cup {r.model}
                     ELSE Without(r.slot)
  PROVE  \A m \in platform \cup platform' :
           SlotOf(m) # ResourceOf(r) => (m \in platform <=> m \in platform')
BY DEF Without, ResourceOf

\* Nothing is known at first.
LEMMA ConvergeInit == Init => ConvergeInv
BY DEF Init, ConvergeInv, RecordExact, SeenExact, SeenFresh, PutServed, RecordFresh, Served, Empty

\* What an address has recorded, or asks for, is not another address's.
LEMMA OthersApart ==
  ASSUME ShapeInv, NEW a \in Address, NEW s \in Owned(a), NEW b \in Address, b # a
  PROVE  /\ recorded[b] # None => SlotOf(recorded[b]) # s
         /\ seen[b] # None => SlotOf(seen[b]) # s
         /\ call[b] # None => ResourceOf(call[b].request) # s
<1>1. recorded[b] # None => SlotOf(recorded[b]) \in Owned(b)
  BY DEF ShapeInv, AddressInv, RecordOwned
<1>2. seen[b] # None => SlotOf(seen[b]) \in Owned(b)
  BY <1>1 DEF ShapeInv, AddressInv, RefreshInv
<1>3. call[b] # None => ResourceOf(call[b].request) \in Owned(b)
  <2> SUFFICES ASSUME call[b] # None
               PROVE  ResourceOf(call[b].request) \in Owned(b)
    OBVIOUS
  <2>1. phase = "apply" /\ step[b] # "none" /\ call[b].request = RequestFor(b)
    BY DEF ShapeInv, TypeOK, Empty, AddressInv, CallInv
  <2> QED
    BY <2>1, RequestForType
<1> QED
  BY <1>1, <1>2, <1>3, OwnedApart

\* Every step keeps what is known of the platform.
LEMMA ConvergeStep == ShapeInv /\ ConvergeInv /\ [Next]_vars => ConvergeInv'
<1> SUFFICES ASSUME ShapeInv, ConvergeInv, [Next]_vars
             PROVE  ConvergeInv'
  OBVIOUS
<1> USE DEF ConvergeInv
<1>0. TypeOK
  BY DEF ShapeInv
<1>1. ASSUME NEW c \in Configurations, Edit(c)
      PROVE  ConvergeInv'
  BY <1>1 DEF Edit, histories, RecordExact, SeenExact, SeenFresh, PutServed, RecordFresh, Served
<1>2. CASE NewTree
  BY <1>2 DEF NewTree, Empty, RecordExact, SeenExact, SeenFresh, PutServed, RecordFresh, Served
<1>3. ASSUME NEW a \in Address, Import(a)
      PROVE  ConvergeInv'
  <2>1. PICK m \in platform : recorded' = [recorded EXCEPT ![a] = m]
    BY <1>3 DEF Import
  <2>2. m \in Model /\ \A n \in platform : SlotOf(n) = SlotOf(m) => n = m
    BY <1>0 DEF TypeOK
  <2>3. Exact(m, platform, blind)
    BY <2>2, PutIsKnown
  <2>4. /\ UNCHANGED <<phase, step, seen, call, platform, disturbed, blind>>
        /\ outcome' = "none"
        /\ recorded'[a] = m /\ \A b \in Address \ {a} : recorded'[b] = recorded[b]
    BY <1>0, <1>3, <2>1 DEF Import, TypeOK, histories
  <2>5. RecordExact'
    BY <2>3, <2>4 DEF RecordExact, Served
  <2> QED
    BY <2>4, <2>5 DEF SeenExact, SeenFresh, PutServed, RecordFresh, Served
<1>4. ASSUME NEW r \in Elsewhere, Direct(r)
      PROVE  ConvergeInv'
  <2>1. \A m \in platform \cup platform' :
          SlotOf(m) # ResourceOf(r) => (m \in platform <=> m \in platform')
    BY <1>4, ElsewhereAssumption, WithoutApart DEF Direct
  <2> QED
    BY <1>4, <2>1, ConvergeWrite DEF Direct
<1>5. CASE StartPlan
  <2>1. /\ call = Empty /\ recorded \in [Address -> Model \cup {None}]
        /\ seen' = recorded /\ phase' = "refresh" /\ outcome' = "none"
        /\ step' = [a \in Address |-> IF recorded[a] = None THEN "none" ELSE "read"]
        /\ UNCHANGED <<recorded, call, platform, disturbed, blind>>
    BY <1>0, <1>5 DEF StartPlan, TypeOK, histories
  <2>2. RecordExact' /\ SeenExact'
    BY <2>1 DEF RecordExact, SeenExact, Served, Empty
  <2>3. SeenFresh'
    BY <2>1 DEF SeenFresh
  <2> QED
    BY <2>1, <2>2, <2>3 DEF PutServed, RecordFresh, Served
<1>6. ASSUME NEW a \in Address, Read(a)
      PROVE  ConvergeInv'
  <2>1. /\ recorded[a] \in Model /\ recorded[a] # None
        /\ seen[a] = recorded[a] /\ phase = "refresh"
        /\ SlotOf(recorded[a]) \in Owned(a) /\ ~Served(a)
    BY <1>0, <1>6 DEF Read, ShapeInv, AddressInv, RefreshInv, RecordOwned, TypeOK, Served, Empty
  <2>2. /\ seen' = [seen EXCEPT ![a] = AsRead(recorded[a])]
        /\ step' = [step EXCEPT ![a] = "none"]
        /\ disturbed' = disturbed \ {SlotOf(recorded[a])}
        /\ UNCHANGED <<recorded, phase, call, outcome, platform, blind>>
    BY <1>6 DEF Read
  <2>3. /\ \A b \in Address \ {a} : seen'[b] = seen[b] /\ step'[b] = step[b]
        /\ seen'[a] = AsRead(recorded[a])
    BY <1>0, <2>2 DEF TypeOK
  <2>4. Exact(recorded[a], platform, blind)
    BY <2>1 DEF RecordExact
  <2>5. seen'[a] # None => /\ Exact(seen'[a], platform, blind)
                           /\ Fresh(seen'[a], platform, disturbed')
    BY <1>0, <2>1, <2>3, <2>4, AsReadFacts, ReadIsKnown
  <2>6. ASSUME NEW b \in Address \ {a}, seen[b] # None, Fresh(seen[b], platform, disturbed)
        PROVE  Fresh(seen[b], platform, disturbed')
    <3>1. SlotOf(seen[b]) # SlotOf(recorded[a])
      BY <2>1, <2>6, OthersApart
    <3> QED
      BY <2>2, <2>6, <3>1 DEF Fresh
  <2>7. SeenExact'
    BY <2>2, <2>3, <2>5 DEF SeenExact
  <2>8. SeenFresh'
    BY <2>1, <2>2, <2>3, <2>5, <2>6 DEF SeenFresh
  <2>9. \A b \in Address : ~Served(b)
    BY <1>0, <2>1 DEF TypeOK, Served, Empty
  <2>10. outcome # "ok"
    BY <2>1 DEF RecordFresh
  <2> QED
    BY <2>2, <2>7, <2>8, <2>9, <2>10 DEF RecordExact, PutServed, RecordFresh, Served
<1>7. ASSUME NEW a \in Address, ReadFails(a)
      PROVE  ConvergeInv'
  BY <1>7 DEF ReadFails, histories, Empty, RecordExact, SeenExact, SeenFresh, PutServed,
              RecordFresh, Served
<1>8. CASE Plan
  <2>1. /\ phase = "refresh" /\ phase' = "apply" /\ call = Empty
        /\ recorded' = seen /\ seen' = Empty
        /\ step' = [a \in Address |-> Planned(config[a], seen[a])]
        /\ UNCHANGED <<config, call, platform, disturbed, blind>>
        /\ \A a \in Address : step[a] = "none"
    BY <1>0, <1>8 DEF Plan, TypeOK, ShapeInv, AddressInv, RefreshInv, histories
  <2>2. RecordExact' /\ SeenExact' /\ SeenFresh' /\ PutServed'
    BY <2>1 DEF SeenExact, RecordExact, SeenFresh, PutServed, Served, Empty
  <2>3. ASSUME NEW a \in Address
        PROVE  /\ step'[a] = "none" => seen[a] = config[a]
               /\ step'[a] = "delete" => config[a] = None
    <3>1. step'[a] = Planned(config[a], seen[a])
      BY <2>1
    <3>2. CASE config[a] = seen[a]
      BY <3>1, <3>2 DEF Planned
    <3>3. CASE config[a] # seen[a] /\ config[a] = None
      BY <3>1, <3>3 DEF Planned
    <3>4. CASE config[a] # seen[a] /\ seen[a] = None
      BY <3>1, <3>4 DEF Planned
    <3>5. CASE config[a] # seen[a] /\ config[a] # None /\ seen[a] # None
      BY <3>1, <3>5 DEF Planned
    <3> QED
      BY <3>2, <3>3, <3>4, <3>5
  <2>4. RecordFresh'
    BY <2>1, <2>3 DEF RecordFresh, SeenFresh, Served, Empty
  <2> QED
    BY <2>2, <2>4
<1>9. ASSUME NEW a \in Address, Send(a) \/ Refuse(a)
      PROVE  ConvergeInv'
  <2>1. /\ \A b \in Address \ {a} : call'[b] = call[b]
        /\ ~Served(a) /\ ~Served(a)'
        /\ UNCHANGED <<config, recorded, phase, step, seen, outcome, platform, disturbed, blind>>
    <3>1. CASE Send(a)
      BY <1>0, <3>1 DEF Send, TypeOK, histories, Served
    <3>2. CASE Refuse(a)
      <4>1. call[a] \in Call /\ call[a].status = "sent"
        BY <1>0, <3>2 DEF Refuse, TypeOK
      <4>2. call'[a].status = "refused"
        BY <1>0, <3>2, <4>1 DEF Refuse, TypeOK, Call
      <4> QED
        BY <1>0, <3>2, <4>1, <4>2 DEF Refuse, TypeOK, histories, Served
    <3> QED
      BY <1>9, <3>1, <3>2
  <2>2. \A b \in Address : Served(b)' = Served(b)
    BY <2>1 DEF Served
  <2>3. \A b \in Address : Served(b) => call'[b] = call[b]
    BY <2>1
  <2> HIDE DEF Served
  <2> QED
    BY <2>1, <2>2, <2>3 DEF RecordExact, SeenExact, SeenFresh, PutServed, RecordFresh
<1>10. ASSUME NEW a \in Address, Serve(a)
       PROVE  ConvergeInv'
  <2> DEFINE r == call[a].request
  <2> DEFINE s == ResourceOf(r)
  <2>1. /\ call[a] # None /\ call[a] \in Call /\ r \in Request /\ phase = "apply"
        /\ step[a] # "none" /\ r = RequestFor(a)
    BY <1>0, <1>10 DEF Serve, TypeOK, Call, Empty, ShapeInv, AddressInv, CallInv
  <2>2. /\ \A b \in Address \ {a} : call'[b] = call[b]
        /\ call'[a] = [call[a] EXCEPT !.status = "done"]
        /\ platform' = IF r.op = "put" THEN Without(SlotOf(r.model)) \cup {r.model}
                       ELSE Without(r.slot)
        /\ disturbed' = disturbed \ {s}
        /\ blind' = blind \ {s}
        /\ UNCHANGED <<config, recorded, phase, step, seen, outcome>>
    BY <1>0, <1>10 DEF Serve, Executes, TypeOK
  <2>3. call'[a] \in Call /\ call'[a].request = r /\ call'[a].status = "done"
    BY <2>1, <2>2 DEF Call
  <2>4. Served(a)' /\ \A b \in Address \ {a} : Served(b)' = Served(b)
    BY <2>2, <2>3, NoneAssumption DEF Served
  <2>5. s \in Owned(a)
    BY <2>1, RequestForType
  <2>6. \A m \in platform \cup platform' : SlotOf(m) # s => (m \in platform <=> m \in platform')
    BY <2>1, <2>2, WithoutApart
  <2>7. \A b \in Address : seen[b] = None
    BY <2>1 DEF ShapeInv, AddressInv, RefreshInv
  <2>8. r.op = "put" => /\ Fresh(r.model, platform', disturbed')
                        /\ Exact(r.model, platform', blind')
    <3> SUFFICES ASSUME r.op = "put"
                 PROVE  /\ Fresh(r.model, platform', disturbed')
                        /\ Exact(r.model, platform', blind')
      OBVIOUS
    <3>1. r.model \in Model
      BY <2>1 DEF Request
    <3>2. r.model \in platform' /\ \A n \in platform' : SlotOf(n) = SlotOf(r.model) => n = r.model
      BY <2>2 DEF Without
    <3> HIDE DEF r
    <3> QED
      BY <3>1, <3>2, PutIsKnown
  <2>9. ASSUME NEW m, SlotOf(m) # s
        PROVE  /\ Fresh(m, platform, disturbed) => Fresh(m, platform', disturbed')
               /\ Exact(m, platform, blind) => Exact(m, platform', blind')
    <3> HIDE DEF s
    <3>1. \A x : x # s /\ x \in disturbed => x \in disturbed'
      BY <2>2
    <3>2. \A x : x # s /\ x \in blind => x \in blind'
      BY <2>2
    <3> QED
      BY <2>6, <2>9, <3>1, <3>2, KnownKept
  <2>10. ASSUME NEW b \in Address \ {a}, Served(b), call[b].request.op = "put"
         PROVE  SlotOf(call[b].request.model) # s
    BY <2>5, <2>10, OthersApart DEF ResourceOf, Served
  <2>11. \A b \in Address \ {a} : recorded[b] # None => SlotOf(recorded[b]) # s
    BY <2>5, OthersApart
  <2> HIDE DEF r, s, Served
  <2>12. RecordExact'
    BY <2>2, <2>4, <2>9, <2>11 DEF RecordExact
  <2>13. SeenExact' /\ SeenFresh'
    BY <2>2, <2>7 DEF SeenExact, SeenFresh
  <2>14. PutServed'
    BY <2>2, <2>3, <2>4, <2>8, <2>9, <2>10 DEF PutServed
  <2>15. RecordFresh'
    BY <2>2, <2>4, <2>9, <2>11 DEF RecordFresh
  <2> QED
    BY <2>12, <2>13, <2>14, <2>15
<1>11. ASSUME NEW a \in Address, Answer(a)
       PROVE  ConvergeInv'
  <2>1. /\ call[a] # None /\ call[a] \in Call /\ call[a].status # "sent"
        /\ phase = "apply" /\ step[a] # "none" /\ call[a].request = RequestFor(a)
    BY <1>0, <1>11 DEF Answer, TypeOK, ShapeInv, AddressInv, CallInv, Empty
  <2>2. /\ \A b \in Address \ {a} :
             recorded'[b] = recorded[b] /\ call'[b] = call[b] /\ step'[b] = step[b]
        /\ recorded'[a] = RecordedAfter(a) /\ call'[a] = None
        /\ step'[a] = IF call[a].status = "done" /\ step[a] = "replace" THEN "create" ELSE "none"
        /\ outcome' = IF call[a].status = "done" THEN outcome ELSE "error"
        /\ UNCHANGED <<config, phase, seen, platform, disturbed, blind>>
    BY <1>0, <1>11 DEF Answer, TypeOK
  <2>3. /\ step[a] \in {"create", "update"} =>
             call[a].request = [op |-> "put", model |-> config[a]]
        /\ step[a] \notin {"create", "update"} => call[a].request.op = "delete"
    BY <2>1, RequestForType
  <2>4. CASE call[a].status = "done"
    <3>1. step[a] \in {"create", "update"} =>
            /\ recorded'[a] = config[a]
            /\ Exact(config[a], platform, blind) /\ Fresh(config[a], platform, disturbed)
      BY <2>1, <2>2, <2>3, <2>4 DEF RecordedAfter, PutServed, Served
    <3>2. step[a] \notin {"create", "update"} => recorded'[a] = None
      BY <2>1, <2>2, <2>3, <2>4 DEF RecordedAfter
    <3>3. step[a] \in {"create", "update", "delete", "replace"}
      BY <1>0, <2>1 DEF TypeOK, Step, ShapeInv, AddressInv, StepInv
    <3>4. RecordExact'
      BY <2>2, <3>1, <3>2 DEF RecordExact, Served
    <3>5. RecordFresh'
      <4> SUFFICES ASSUME outcome = "ok"
                   PROVE  /\ phase # "refresh"
                          /\ \A b \in Address :
                               /\ recorded'[b] # None /\ ~Served(b)'
                                    => Fresh(recorded'[b], platform, disturbed)
                               /\ step'[b] = "none" => recorded'[b] = config[b]
                               /\ step'[b] = "delete" => config[b] = None
        BY <2>2, <2>4 DEF RecordFresh
      <4>1. ASSUME NEW b \in Address \ {a}
            PROVE  /\ recorded'[b] # None /\ ~Served(b)' => Fresh(recorded'[b], platform, disturbed)
                   /\ step'[b] = "none" => recorded'[b] = config[b]
                   /\ step'[b] = "delete" => config[b] = None
        BY <2>2 DEF RecordFresh, Served
      <4>2. /\ recorded'[a] # None => Fresh(recorded'[a], platform, disturbed)
            /\ step'[a] = "none" => recorded'[a] = config[a]
            /\ step'[a] # "delete"
        BY <2>2, <2>4, <3>1, <3>2, <3>3 DEF RecordFresh
      <4> QED
        BY <2>1, <4>1, <4>2
    <3>6. SeenExact' /\ SeenFresh'
      BY <2>1, <2>2 DEF SeenExact, SeenFresh
    <3> QED
      BY <2>2, <3>4, <3>5, <3>6 DEF PutServed, Served
  <2>5. CASE call[a].status # "done"
    <3>1. recorded'[a] = recorded[a] /\ ~Served(a)
      BY <2>2, <2>5 DEF RecordedAfter, Served
    <3>2. RecordExact'
      BY <2>2, <3>1 DEF RecordExact, Served
    <3>3. SeenExact' /\ SeenFresh'
      BY <2>1, <2>2 DEF SeenExact, SeenFresh
    <3> QED
      BY <2>2, <2>5, <3>2, <3>3 DEF PutServed, RecordFresh, Served
  <2> QED
    BY <2>4, <2>5
<1>12. ASSUME NEW a \in Address, GiveUp(a)
       PROVE  ConvergeInv'
  <2>1. /\ call[a] # None /\ call[a] \in Call /\ phase = "apply"
        /\ step[a] # "none" /\ call[a].request = RequestFor(a) /\ StepInv(a)
    BY <1>0, <1>12 DEF GiveUp, TypeOK, ShapeInv, AddressInv, CallInv, Empty
  <2>2. /\ \A b \in Address \ {a} : call'[b] = call[b]
        /\ call'[a] = None
        /\ blind \subseteq blind'
        /\ call[a].status = "done" => ResourceOf(call[a].request) \in blind'
        /\ outcome' = "error"
        /\ UNCHANGED <<recorded, phase, seen, platform, disturbed>>
    BY <1>0, <1>12 DEF GiveUp, TypeOK
  <2>3. recorded[a] # None => SlotOf(recorded[a]) = ResourceOf(call[a].request)
    <3>1. CASE step[a] \in {"create", "update"}
      <4>1. call[a].request = [op |-> "put", model |-> config[a]]
        BY <2>1, <3>1, RequestForType
      <4>2. ResourceOf(call[a].request) = SlotOf(config[a])
        BY <4>1 DEF ResourceOf
      <4> QED
        BY <2>1, <3>1, <4>2 DEF StepInv
    <3>2. CASE step[a] \notin {"create", "update"}
      <4>1. call[a].request = [op |-> "delete", slot |-> SlotOf(recorded[a])]
        BY <2>1, <3>2, RequestForType
      <4> QED
        BY <4>1 DEF ResourceOf
    <3> QED
      BY <3>1, <3>2
  <2>4. \A m : Exact(m, platform, blind) => Exact(m, platform, blind')
    BY <2>2 DEF Exact
  <2>5. ASSUME NEW b \in Address, recorded[b] # None, ~Served(b)'
        PROVE  Exact(recorded[b], platform, blind')
    <3>1. CASE Served(b)
      <4>1. b = a
        BY <2>2, <2>5, <3>1 DEF Served
      <4>2. SlotOf(recorded[a]) \in blind'
        BY <2>2, <2>3, <2>5, <3>1, <4>1 DEF Served
      <4> QED
        BY <4>1, <4>2 DEF Exact
    <3>2. CASE ~Served(b)
      BY <2>4, <2>5, <3>2 DEF RecordExact
    <3> QED
      BY <3>1, <3>2
  <2>6. RecordExact'
    BY <2>2, <2>5 DEF RecordExact
  <2>7. SeenExact' /\ SeenFresh'
    BY <2>1, <2>2, <2>4 DEF SeenExact, SeenFresh
  <2>8. PutServed'
    BY <2>2, <2>4 DEF PutServed, Served
  <2> QED
    BY <2>2, <2>6, <2>7, <2>8 DEF RecordFresh
<1>13. ASSUME NEW a \in Address, Skip(a)
       PROVE  ConvergeInv'
  BY <1>13 DEF Skip, histories, RecordExact, SeenExact, SeenFresh, PutServed, RecordFresh, Served
<1>14. CASE Finish
  BY <1>14 DEF Finish, histories, RecordExact, SeenExact, SeenFresh, PutServed, RecordFresh, Served
<1>15. ASSUME NEW r \in stray, Late(r)
       PROVE  ConvergeInv'
  <2>1. CASE UNCHANGED <<platform, created, disturbed, blind, excused>>
    BY <1>15, <2>1
       DEF Late, toolchain, RecordExact, SeenExact, SeenFresh, PutServed, RecordFresh, Served
  <2>2. CASE /\ Executes(r)
             /\ disturbed' = disturbed \cup {ResourceOf(r)}
             /\ blind' = blind \cup {ResourceOf(r)}
    <3>1. \A m \in platform \cup platform' :
            SlotOf(m) # ResourceOf(r) => (m \in platform <=> m \in platform')
      BY <1>0, <2>2, WithoutApart DEF TypeOK, Executes
    <3> QED
      BY <1>15, <2>2, <3>1, ConvergeWrite DEF Late
  <2> QED
    BY <1>15, <2>1, <2>2 DEF Late
<1>16. CASE UNCHANGED vars
  BY <1>16 DEF vars, toolchain, histories, RecordExact, SeenExact, SeenFresh, PutServed,
               RecordFresh, Served
<1> QED
  BY <1>1, <1>2, <1>3, <1>4, <1>5, <1>6, <1>7, <1>8, <1>9, <1>10, <1>11, <1>12, <1>13, <1>14,
     <1>15, <1>16 DEF Next, Operating

\* An apply that reported no error leaves what is configured, as far as nobody
\* else wrote: also what a read cannot compare, unless it was written unnoticed.
LEMMA ConvergeImplies == ShapeInv /\ ConvergeInv => ApplyConverges
<1> SUFFICES ASSUME ShapeInv, ConvergeInv, phase = "idle", outcome = "ok",
                    NEW a \in Address, config[a] # None, SlotOf(config[a]) \notin disturbed
             PROVE  \E m \in platform : /\ SlotOf(m) = SlotOf(config[a])
                                        /\ SameAsRead(config[a], m)
                                        /\ SlotOf(m) \notin blind => m = config[a]
  BY DEF ApplyConverges
<1>1. step[a] = "none" /\ call[a] = None /\ platform \subseteq Model /\ config[a] \in Model
  BY ConfigType DEF ShapeInv, TypeOK, Idle, Empty
<1>2. recorded[a] = config[a] /\ ~Served(a)
  BY <1>1 DEF ConvergeInv, RecordFresh, Served
<1>3. Fresh(config[a], platform, disturbed) /\ Exact(config[a], platform, blind)
  BY <1>2 DEF ConvergeInv, RecordFresh, RecordExact
<1>4. PICK m \in platform : SlotOf(m) = SlotOf(config[a]) /\ SameAsRead(config[a], m)
  BY <1>3 DEF Fresh
<1>5. ASSUME SlotOf(m) \notin blind
      PROVE  m = config[a]
  <2> DEFINE c == config[a]
  <2>1. m \in Model /\ c \in Model
    BY <1>1
  <2>2. m.type = c.type
    BY <1>4, <2>1, SlotHasType
  <2>3. DOMAIN m = DOMAIN c /\ TypeOf(m) = TypeOf(c)
    BY <2>1, <2>2, ModelAssumption DEF TypeOf
  <2>4. \A f \in DOMAIN m \ TypeOf(m).read : m[f] = c[f]
    BY <1>3, <1>4, <1>5 DEF Exact
  <2>5. ASSUME NEW f \in TypeOf(c).read
        PROVE  m[f] = c[f]
    <3>1. Restricted(c, TypeOf(c).read)[f] = c[f] /\ Restricted(m, TypeOf(c).read)[f] = m[f]
      BY DEF Restricted
    <3> QED
      BY <1>4, <3>1 DEF SameAsRead
  <2>6. \A f \in DOMAIN m : m[f] = c[f]
    BY <2>3, <2>4, <2>5
  <2>7. m = [f \in DOMAIN m |-> m[f]] /\ c = [f \in DOMAIN c |-> c[f]]
    BY <2>1, ModelAssumption
  <2> HIDE DEF c
  <2>8. m = c
    BY <2>3, <2>6, <2>7
  <2> QED
    BY <2>8 DEF c
<1> QED
  BY <1>4, <1>5

\* However requests are refused, lost or late and whoever else writes: an apply
\* that reported no error has left what is configured, except what was written
\* meanwhile (Create, Read, Update, Delete of the five resources).
THEOREM ConvergeTheorem == Spec => []ApplyConverges
<1>1. ShapeInv /\ ConvergeInv /\ [Next]_vars => (ShapeInv /\ ConvergeInv)'
  BY ShapeStep, ConvergeStep
<1> QED
  BY ShapeInit, ConvergeInit, <1>1, ConvergeImplies, PTL DEF Spec
=============================================================================
