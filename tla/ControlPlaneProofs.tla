------------------------- MODULE ControlPlaneProofs -------------------------
(***************************************************************************)
(* Proofs about ControlPlane, for any number of concurrent requests, any   *)
(* submissions and any seeded configuration: typing, the scope argument,   *)
(* the ledger, what the handlers decide, record and audit, and the         *)
(* refinement of ChangeLedger.                                             *)
(***************************************************************************)
EXTENDS ControlPlane, TLAPS, WellFoundedInduction, FiniteSetTheorems

-----------------------------------------------------------------------------
(* Lemmas about the data the handlers pass around.                         *)

\* Which message an operation's handler is looking at.
LEMMA Messages ==
  ASSUME NEW m \in Submissions
  PROVE  /\ m.op = "put" => m \in PutMsg
         /\ m.op = "delete" => m \in DeleteMsg
         /\ m.op = "read" => m \in ReadMsg
         /\ m.op = "connect" => m \in ConnectMsg
         /\ m.op \in {"put", "delete", "read", "connect"}
         /\ m.addr \in Addr
         /\ m # None
<1>1. m \in Message
  BY SubmissionsAssumption
<1>2. CASE m \in ReadMsg
  BY <1>1, <1>2, NoneAssumption DEF ReadMsg, Message
<1>3. CASE m \in ConnectMsg
  BY <1>1, <1>3, NoneAssumption DEF ConnectMsg, Message
<1>4. CASE m \in PutMsg
  BY <1>1, <1>4, NoneAssumption DEF PutMsg, Message
<1>5. CASE m \in DeleteMsg
  BY <1>1, <1>5, NoneAssumption DEF DeleteMsg, Message
<1> QED
  BY <1>1, <1>2, <1>3, <1>4, <1>5 DEF Message

\* Every nonempty set of naturals has a least element.
LEMMA LeastNat ==
  ASSUME NEW S \in SUBSET Nat, S # {}
  PROVE  \E i \in S : \A j \in S : i <= j
<1> DEFINE less == {p \in Nat \X Nat : p[1] < p[2]}
<1>1. IsWellFoundedOn(less, Nat)
  BY NatLessThanWellFounded DEF OpToRel
<1> HIDE DEF less
<1>2. PICK i \in S : \A j \in S : ~(<<j, i>> \in less)
  BY <1>1, WFMin
<1>3. ASSUME NEW j \in S
      PROVE  i <= j
  <2>1. i \in Nat /\ j \in Nat
    OBVIOUS
  <2>2. j < i => <<j, i>> \in less
    BY <2>1 DEF less
  <2> QED
    BY <1>2, <2>1, <2>2
<1> QED
  BY <1>3

\* FirstSegment finds a declared segment that holds the address (Store.Segment).
LEMMA FirstSegmentHolds ==
  ASSUME NEW a, FirstSegment(a) # 0
  PROVE  FirstSegment(a) \in DOMAIN Segments /\ a \in Segments[FirstSegment(a)].cidr
<1> DEFINE holding == {i \in DOMAIN Segments : a \in Segments[i].cidr}
<1>1. holding # {}
  BY DEF FirstSegment
<1>2. holding \in SUBSET Nat
  BY SegmentsAssumption
<1>3. PICK i \in holding : \A j \in holding : i <= j
  BY <1>1, <1>2, LeastNat
<1>4. FirstSegment(a) \in holding
  BY <1>1, <1>3 DEF FirstSegment
<1> QED
  BY <1>4

\* SegmentName answers with a declared segment or with None (Store.Segment).
LEMMA SegmentNameType ==
  ASSUME NEW a
  PROVE  SegmentName(a) \in {Segments[i].name : i \in DOMAIN Segments} \cup {None}
BY FirstSegmentHolds DEF SegmentName

\* withCaller resolves every message to a caller.
LEMMA CallerType ==
  ASSUME NEW m \in Submissions
  PROVE  CallerOf(m) \in Caller
BY Messages, SegmentNameType DEF CallerOf, Caller

\* A slot's resource has a target (targetOf, targetOfExisting).
LEMMA TargetType ==
  ASSUME NEW s \in Slot, NEW v, IsFixed(s) \/ v \in ValueOf(s.kind)
  PROVE  TargetOf(s, v) \in Target
<1>1. CASE s \in [kind : {"bucket"}, id : BucketName]
  BY <1>1 DEF TargetOf, IsFixed, FixedTarget, BucketTarget, Target
<1>2. CASE s \in [kind : {"object"}, id : ObjectId]
  BY <1>2 DEF TargetOf, IsFixed, FixedTarget, BucketTarget, Target, ObjectId
<1>3. CASE s \in [kind : {"grant"}, id : GrantId]
  BY <1>3 DEF TargetOf, IsFixed, ValueOf, Grant
<1>4. CASE s \in [kind : {"workload"}, id : WorkloadName]
  BY <1>4 DEF TargetOf, IsFixed, FixedTarget, WorkloadTarget, Target
<1>5. CASE s \in [kind : {"network_rule"}, id : RuleId]
  BY <1>5 DEF TargetOf, IsFixed, WorkloadTarget, Target, ValueOf, NetworkRule
<1> QED
  BY <1>1, <1>2, <1>3, <1>4, <1>5 DEF Slot

\* What a slot holds does not matter to the target of a fixed one.
LEMMA FixedTargetOf ==
  ASSUME NEW s, IsFixed(s), NEW v
  PROVE  TargetOf(s, v) = FixedTarget(s)
BY DEF TargetOf, IsFixed

\* The row of a message that changes something is a ledger row (Store.Record).
LEMMA RowType ==
  ASSUME NEW m \in Submissions, m.op # "read", NEW n \in Nat \ {0}
  PROVE  RowOf(m, n) \in LedgerEntry
<1>1. CallerOf(m).principal \in Principal \cup {Anonymous}
  BY CallerType DEF Caller
<1>2. CallerOf(m).segment \in {Segments[i].name : i \in DOMAIN Segments} \cup {None}
  BY CallerType DEF Caller
<1>3. RowAction(m) \in {"resource.put", "resource.delete", "workload.change"}
  BY Messages DEF RowAction
<1>4. RowResource(m) \in Slot \cup [workload : WorkloadName, port : PortName]
  BY Messages DEF RowResource, PutMsg, DeleteMsg, ConnectMsg
<1> QED
  BY <1>1, <1>2, <1>3, <1>4 DEF RowOf, RowContent, LedgerEntry, Row

\* Each kind of slot holds resources of its kind only.
LEMMA WriteKeepsState ==
  ASSUME NEW st, IsState(st), NEW s \in Slot, NEW v,
         v = None \/ v \in ValueOf(s.kind)
  PROVE  IsState([st EXCEPT ![s] = v])
<1>1. v \in Resource \cup {None}
  BY DEF Slot, ValueOf, Resource
<1> QED
  BY <1>1 DEF IsState

-----------------------------------------------------------------------------
(* Type correctness.                                                       *)

\* The part of TypeOK about one handler's own variables.
Filled(r) ==
  /\ pc[r] # "idle" => msg[r] # None
  /\ pc[r] = "fetch" => msg[r].op = "read"
  /\ pc[r] = "authorize" => msg[r].op = "delete"
  /\ pc[r] \in {"write", "record"} => msg[r].op \in {"put", "delete"}
  /\ pc[r] \in {"authorize", "write"} => target[r] \in Target
  /\ pc[r] = "forward" \/ wire[r] # "none" => pc[r] # "idle" /\ msg[r].op = "connect"

\* An answer, refusal or not, keeps the types.
LEMMA AnswerType ==
  ASSUME TypeOK, NEW r \in Request, pc[r] # "idle",
         \/ Refuse(r)
         \/ \E status \in Replies : Plain(r, status)
  PROVE  TypeOK'
<1>1. PICK status \in Replies : Answer(r, status)
  BY DEF Refuse, Plain, Replies
<1>2. UNCHANGED <<store, ledger, seq, fareCap, msg, target, wire, entry>>
  BY DEF Refuse, Plain
<1>3. audit' \in Nat
  BY DEF TypeOK, Refuse, Plain
<1>4. /\ pc' \in [Request -> Labels]
      /\ reply' \in [Request -> Replies]
      /\ raced' \subseteq Request
  BY <1>1 DEF TypeOK, Answer, Goto, Labels
<1>5. ASSUME NEW q \in Request
      PROVE  Filled(q)'
  BY <1>1, <1>2 DEF TypeOK, Answer, Goto, Filled
<1> QED
  BY <1>2, <1>3, <1>4, <1>5 DEF TypeOK, Filled

\* A decision keeps the types when it fills in what its next step needs.
LEMMA DecideType ==
  ASSUME TypeOK, NEW r \in Request, NEW label \in Labels, Decide(r, label),
         target' \in [Request -> Target \cup {None}],
         wire' \in [Request -> {"none", "sent", "handled", "lost"}],
         \A q \in Request : Filled(q)'
  PROVE  TypeOK'
BY DEF TypeOK, Decide, Goto, Filled

LEMMA WriteType ==
  ASSUME TypeOK, NEW r \in Request, pc[r] = "write", NEW v,
         v = None \/ v \in ValueOf(msg[r].slot.kind),
         Write(r, msg[r].slot, v)
  PROVE  TypeOK'
<1>1. msg[r] \in Submissions /\ msg[r].op \in {"put", "delete"}
  BY DEF TypeOK
<1>2. msg[r].slot \in Slot
  BY <1>1, Messages DEF PutMsg, DeleteMsg
<1>3. IsState(store')
  BY <1>2, WriteKeepsState DEF TypeOK, Write
<1>4. ASSUME NEW q \in Request
      PROVE  Filled(q)'
  BY <1>1 DEF TypeOK, Write, Goto, Filled
<1> QED
  BY <1>3, <1>4 DEF TypeOK, Write, Goto, Filled, Labels

\* A recorded row is well formed and the request is answered.
LEMMA RecordType ==
  ASSUME TypeOK, NEW r \in Request, pc[r] # "idle", msg[r].op # "read",
         Record(r), Answer(r, "ok"),
         UNCHANGED <<store, audit, fareCap, msg, target, wire>>
  PROVE  TypeOK'
<1>1. msg[r] \in Submissions
  BY DEF TypeOK
<1>2. RowOf(msg[r], seq + 1) \in LedgerEntry
  BY <1>1, RowType DEF TypeOK
<1>3. ledger' \in Seq(LedgerEntry) /\ seq' \in Nat /\ entry' \in [Request -> Nat]
  BY <1>2 DEF TypeOK, Record
<1>4. ASSUME NEW q \in Request
      PROVE  Filled(q)'
  BY DEF TypeOK, Answer, Goto, Filled
<1> QED
  BY <1>3, <1>4 DEF TypeOK, Filled, Answer, Goto, Labels, Replies

LEMMA TypeInit == Init => TypeOK
BY InitialStoreAssumption DEF Init, TypeOK, FareCap, Labels, Replies

LEMMA TypeStep == TypeOK /\ [Next]_vars => TypeOK'
<1> SUFFICES ASSUME TypeOK, [Next]_vars
             PROVE  TypeOK'
  OBVIOUS
<1>1. ASSUME NEW r \in Request, Receive(r)
      PROVE  TypeOK'
  <2>1. PICK m \in Submissions : msg' = [msg EXCEPT ![r] = m]
    BY <1>1 DEF Receive
  <2>2. m # None
    BY <2>1, Messages
  <2>3. ASSUME NEW q \in Request
        PROVE  Filled(q)'
    BY <1>1, <2>1, <2>2 DEF TypeOK, Receive, Goto, Filled
  <2> QED
    BY <1>1, <2>1, <2>3 DEF TypeOK, Receive, Goto, Filled, Labels
<1>2. ASSUME NEW r \in Request, RefuseUnknownSegment(r)
      PROVE  TypeOK'
  BY <1>2, AnswerType DEF RefuseUnknownSegment
<1>3. ASSUME NEW r \in Request, NoRoute(r)
      PROVE  TypeOK'
  BY <1>3, AnswerType DEF NoRoute, Replies
<1>4. ASSUME NEW r \in Request, AuthorizeObjectRead(r)
      PROVE  TypeOK'
  <2>1. pc[r] = "received" /\ msg[r].op = "read"
    BY <1>4 DEF AuthorizeObjectRead, Handling
  <2>2. CASE Decide(r, "fetch") /\ UNCHANGED <<target, wire>>
    <3>1. ASSUME NEW q \in Request
          PROVE  Filled(q)'
      BY <2>1, <2>2 DEF TypeOK, Decide, Goto, Filled
    <3> QED
      BY <2>2, <3>1, DecideType DEF TypeOK, Labels
  <2> QED
    BY <1>4, <2>1, <2>2, AnswerType DEF AuthorizeObjectRead
<1>5. ASSUME NEW r \in Request, FetchObject(r)
      PROVE  TypeOK'
  BY <1>5, AnswerType DEF FetchObject, Replies
<1>6. ASSUME NEW r \in Request, RejectPut(r)
      PROVE  TypeOK'
  BY <1>6, AnswerType DEF RejectPut, Handling, Replies
<1>7. ASSUME NEW r \in Request, AuthorizePut(r)
      PROVE  TypeOK'
  <2> DEFINE t == TargetOf(msg[r].slot, msg[r].value)
  <2>1. pc[r] = "received" /\ msg[r].op = "put" /\ msg[r].form \in {"ok", "not_base64"}
    BY <1>7 DEF AuthorizePut, Handling
  <2>2. msg[r] \in Submissions
    BY <2>1 DEF TypeOK
  <2>3. msg[r].slot \in Slot /\ msg[r].value \in ValueOf(msg[r].slot.kind)
    BY <2>1, <2>2, Messages, SubmissionsAssumption DEF PutMsg
  <2>4. t \in Target
    BY <2>3, TargetType
  <2>5. CASE /\ Decide(r, "write")
             /\ target' = [target EXCEPT ![r] = t]
             /\ UNCHANGED wire
    <3>1. ASSUME NEW q \in Request
          PROVE  Filled(q)'
      <4> HIDE DEF t
      <4> QED
        BY <2>1, <2>4, <2>5 DEF TypeOK, Decide, Goto, Filled
    <3> HIDE DEF t
    <3> QED
      BY <2>4, <2>5, <3>1, DecideType DEF TypeOK, Labels
  <2> QED
    BY <1>7, <2>1, <2>5, AnswerType DEF AuthorizePut
<1>8. ASSUME NEW r \in Request, ApplyPut(r)
      PROVE  TypeOK'
  <2>1. pc[r] = "write" /\ msg[r].op = "put" /\ msg[r] \in Submissions
    BY <1>8 DEF ApplyPut, TypeOK
  <2>2. CASE msg[r].form = "ok" /\ Write(r, msg[r].slot, msg[r].value)
    <3>1. msg[r].value \in ValueOf(msg[r].slot.kind)
      BY <2>1, <2>2, SubmissionsAssumption
    <3> QED
      BY <2>1, <2>2, <3>1, WriteType
  <2> QED
    BY <1>8, <2>1, <2>2, AnswerType DEF ApplyPut, Replies
<1>9. ASSUME NEW r \in Request, ResolveDelete(r)
      PROVE  TypeOK'
  <2> DEFINE t == TargetOf(msg[r].slot, store[msg[r].slot])
  <2>1. pc[r] = "received" /\ msg[r].op = "delete" /\ msg[r] \in Submissions
    BY <1>9 DEF ResolveDelete, Handling, TypeOK
  <2>2. msg[r].slot \in Slot
    BY <2>1, Messages DEF DeleteMsg
  <2>3. CASE /\ IsFixed(msg[r].slot) \/ store[msg[r].slot] # None
             /\ Decide(r, "authorize")
             /\ target' = [target EXCEPT ![r] = t]
             /\ UNCHANGED wire
    <3>1. t \in Target
      BY <2>2, <2>3, TargetType DEF TypeOK, IsState
    <3> HIDE DEF t
    <3>2. ASSUME NEW q \in Request
          PROVE  Filled(q)'
      BY <2>1, <2>3, <3>1 DEF TypeOK, Decide, Goto, Filled
    <3> QED
      BY <2>3, <3>1, <3>2, DecideType DEF TypeOK, Labels
  <2> QED
    BY <1>9, <2>1, <2>3, AnswerType DEF ResolveDelete
<1>10. ASSUME NEW r \in Request, AuthorizeDelete(r)
       PROVE  TypeOK'
  <2>1. pc[r] = "authorize"
    BY <1>10 DEF AuthorizeDelete
  <2>2. CASE /\ Goto(r, "write")
             /\ UNCHANGED <<store, ledger, seq, audit, fareCap, msg, target, wire,
                            reply, entry, raced>>
    <3>1. ASSUME NEW q \in Request
          PROVE  Filled(q)'
      BY <2>1, <2>2 DEF TypeOK, Goto, Filled
    <3> QED
      BY <2>2, <3>1 DEF TypeOK, Goto, Filled, Labels
  <2> QED
    BY <1>10, <2>1, <2>2, AnswerType DEF AuthorizeDelete
<1>11. ASSUME NEW r \in Request, ApplyDelete(r)
       PROVE  TypeOK'
  BY <1>11, WriteType, AnswerType DEF ApplyDelete
<1>12. ASSUME NEW r \in Request, RecordChange(r)
       PROVE  TypeOK'
  BY <1>12, RecordType DEF RecordChange, TypeOK
<1>13. ASSUME NEW r \in Request, AuthorizeConnect(r)
       PROVE  TypeOK'
  <2>1. pc[r] = "received" /\ msg[r].op = "connect"
    BY <1>13 DEF AuthorizeConnect, Handling
  <2>2. CASE /\ Decide(r, "forward")
             /\ wire' = [wire EXCEPT ![r] = "sent"]
             /\ UNCHANGED target
    <3>1. ASSUME NEW q \in Request
          PROVE  Filled(q)'
      BY <2>1, <2>2 DEF TypeOK, Decide, Goto, Filled
    <3> QED
      BY <2>2, <3>1, DecideType DEF TypeOK, Labels
  <2> QED
    BY <1>13, <2>1, <2>2, AnswerType DEF AuthorizeConnect
<1>14. ASSUME NEW r \in Request, WorkloadHandle(r)
       PROVE  TypeOK'
  BY <1>14 DEF TypeOK, WorkloadHandle, FareCap
<1>15. ASSUME NEW r \in Request, WorkloadMiss(r)
       PROVE  TypeOK'
  BY <1>15 DEF TypeOK, WorkloadMiss
<1>16. ASSUME NEW r \in Request, FinishConnect(r)
       PROVE  TypeOK'
  <2>1. pc[r] = "forward" /\ msg[r].op = "connect"
    BY <1>16 DEF FinishConnect, TypeOK
  <2>2. CASE Record(r)
    BY <1>16, <2>1, <2>2, RecordType DEF FinishConnect
  <2>3. CASE UNCHANGED <<ledger, seq, entry>>
    BY <1>16, <2>1, <2>3, AnswerType DEF FinishConnect, Plain, Replies
  <2> QED
    BY <1>16, <2>2, <2>3 DEF FinishConnect
<1>17. ASSUME NEW r \in Request, UnreadableConnect(r) \/ FailConnect(r)
       PROVE  TypeOK'
  BY <1>17, AnswerType DEF UnreadableConnect, FailConnect, Handling, Replies
<1>18. CASE UNCHANGED vars
  BY <1>18 DEF TypeOK, vars, handlerVars
<1> QED
  BY <1>1, <1>2, <1>3, <1>4, <1>5, <1>6, <1>7, <1>8, <1>9, <1>10, <1>11, <1>12,
     <1>13, <1>14, <1>15, <1>16, <1>17, <1>18 DEF Next, Handler

\* The variables keep their types in every behaviour of the control plane.
THEOREM TypeCorrect == Spec => []TypeOK
BY TypeInit, TypeStep, PTL DEF Spec

-----------------------------------------------------------------------------
(* The scope argument.  A write needs a write grant on its target, write   *)
(* grants sit on targets of the scope only, and putting a grant is itself  *)
(* a write on the target the grant names: so the set of targets with a     *)
(* write grant can shrink and never grows beyond the seed's.               *)

\* An authorized target carries a write grant, so it is in the scope.
LEMMA AuthorizedInScope ==
  ASSUME ScopeBounded, NEW c, NEW t \in Target, WriteAllowed(store, c, t)
  PROVE  t \in Scope
BY DEF ScopeBounded, WriteAllowed

\* The scope invariant speaks of the store and of handlers about to write.
LEMMA ScopeFrame ==
  ASSUME ScopeInv, UNCHANGED <<store, msg, target>>,
         \A q \in Request :
           pc'[q] \in {"authorize", "write"} => pc'[q] = pc[q]
  PROVE  ScopeInv'
BY DEF ScopeInv, ScopeBounded, OutOfScopeUntouched, DecisionsInScope, GrantsOn

\* Only grants on the written slot can be new after a write.
LEMMA GrantsAfterWrite ==
  ASSUME NEW st, IsState(st), NEW s \in Slot, NEW v, NEW t \in Target,
         v = None \/ (s.kind = "grant" /\ v # None => v.target # t),
         GrantsOn([st EXCEPT ![s] = v], t, "write") # {}
  PROVE  GrantsOn(st, t, "write") # {}
<1> DEFINE after == [st EXCEPT ![s] = v]
<1>1. PICK g \in GrantId : /\ after[GrantSlot(g)] # None
                           /\ after[GrantSlot(g)].target = t
                           /\ "write" \in after[GrantSlot(g)].actions
  BY DEF GrantsOn
<1>2. GrantSlot(g) \in Slot /\ GrantSlot(g).kind = "grant"
  BY DEF GrantSlot, Slot
<1>3. DOMAIN st = Slot
  BY DEF IsState
<1>4. GrantSlot(g) # s
  BY <1>1, <1>2, <1>3
<1>5. after[GrantSlot(g)] = st[GrantSlot(g)]
  BY <1>2, <1>3, <1>4
<1> QED
  BY <1>1, <1>5 DEF GrantsOn

\* A write whose target is in the scope keeps the scope invariant.
LEMMA ScopeWrite ==
  ASSUME TypeOK, ScopeInv, NEW r \in Request, pc[r] = "write",
         NEW v, v = None \/ v \in ValueOf(msg[r].slot.kind),
         msg[r].op = "put" => v = msg[r].value /\ v # None,
         msg[r].op = "delete" => v = None,
         Write(r, msg[r].slot, v)
  PROVE  ScopeInv'
<1> DEFINE s == msg[r].slot
<1>1. msg[r] \in Submissions /\ msg[r].op \in {"put", "delete"} /\ target[r] \in Target
  BY DEF TypeOK
<1>2. s \in Slot
  BY <1>1, Messages DEF PutMsg, DeleteMsg
<1>3. target[r] \in Scope
  BY DEF ScopeInv, DecisionsInScope
<1>4. IsFixed(s) => FixedTarget(s) \in Scope
  BY <1>1, <1>3, FixedTargetOf DEF ScopeInv, DecisionsInScope
<1>5. s.kind = "grant" /\ v # None => v.target \in Scope
  BY <1>1, <1>3 DEF ScopeInv, DecisionsInScope, TargetOf, IsFixed
<1>6. store' = [store EXCEPT ![s] = v]
  BY DEF Write
<1>7. ScopeBounded'
  <2> SUFFICES ASSUME NEW t \in Target, GrantsOn(store', t, "write") # {}
               PROVE  t \in Scope
    BY DEF ScopeBounded, Scope
  <2>1. CASE s.kind = "grant" /\ v # None /\ v.target = t
    BY <1>5, <2>1
  <2>2. CASE ~(s.kind = "grant" /\ v # None /\ v.target = t)
    <3>1. IsState(store)
      BY DEF TypeOK
    <3> HIDE DEF s
    <3>2. GrantsOn(store, t, "write") # {}
      BY <1>2, <1>6, <2>2, <3>1, GrantsAfterWrite
    <3> QED
      BY <3>2 DEF ScopeInv, ScopeBounded
  <2> QED
    BY <2>1, <2>2
<1>8. OutOfScopeUntouched'
  <2> SUFFICES ASSUME NEW u \in Slot, IsFixed(u), FixedTarget(u) \notin Scope
               PROVE  store'[u] = InitialStore[u]
    BY DEF OutOfScopeUntouched, Scope
  <2>1. u # s
    BY <1>4
  <2>2. store'[u] = store[u]
    BY <1>2, <1>6, <2>1 DEF TypeOK, IsState
  <2> QED
    BY <2>2 DEF ScopeInv, OutOfScopeUntouched
<1>9. DecisionsInScope'
  BY DEF ScopeInv, DecisionsInScope, Write, Goto, Scope, TypeOK
<1> QED
  BY <1>7, <1>8, <1>9 DEF ScopeInv

\* An answer leaves nobody newly about to write.
LEMMA ScopeAnswer ==
  ASSUME TypeOK, ScopeInv, NEW r \in Request,
         \/ Refuse(r)
         \/ \E status : Plain(r, status)
  PROVE  ScopeInv'
BY ScopeFrame DEF Refuse, Plain, Answer, Goto, TypeOK

LEMMA ScopeInit == Init => ScopeInv
BY DEF Init, ScopeInv, ScopeBounded, OutOfScopeUntouched, DecisionsInScope, Scope

LEMMA ScopeStep == TypeOK /\ ScopeInv /\ [Next]_vars => ScopeInv'
<1> SUFFICES ASSUME TypeOK, ScopeInv, [Next]_vars
             PROVE  ScopeInv'
  OBVIOUS
<1>1. ASSUME NEW r \in Request, Receive(r)
      PROVE  ScopeInv'
  <2>1. \A q \in Request : pc'[q] \in {"authorize", "write"} =>
           pc'[q] = pc[q] /\ msg'[q] = msg[q]
    BY <1>1 DEF Receive, Goto, TypeOK
  <2>2. UNCHANGED <<store, target>>
    BY <1>1 DEF Receive
  <2> QED
    BY <2>1, <2>2 DEF ScopeInv, ScopeBounded, OutOfScopeUntouched, DecisionsInScope, GrantsOn
<1>2. ASSUME NEW r \in Request,
             \/ RefuseUnknownSegment(r) \/ NoRoute(r) \/ FetchObject(r)
             \/ RejectPut(r) \/ UnreadableConnect(r) \/ FailConnect(r)
      PROVE  ScopeInv'
  BY <1>2, ScopeAnswer DEF RefuseUnknownSegment, NoRoute, FetchObject, RejectPut, UnreadableConnect, FailConnect
<1>3. ASSUME NEW r \in Request, AuthorizeObjectRead(r)
      PROVE  ScopeInv'
  <2>1. CASE Decide(r, "fetch") /\ UNCHANGED <<target, wire>>
    BY <2>1, ScopeFrame DEF Decide, Goto, TypeOK
  <2> QED
    BY <1>3, <2>1, ScopeAnswer DEF AuthorizeObjectRead
<1>4. ASSUME NEW r \in Request, AuthorizePut(r)
      PROVE  ScopeInv'
  <2> DEFINE t == TargetOf(msg[r].slot, msg[r].value)
  <2>1. CASE /\ WriteAllowed(store, CallerOf(msg[r]), t)
             /\ Decide(r, "write")
             /\ target' = [target EXCEPT ![r] = t]
    <3>1. msg[r].op = "put" /\ msg[r].form \in {"ok", "not_base64"} /\ msg[r] \in Submissions
      BY <1>4 DEF AuthorizePut, Handling, TypeOK
    <3>2. msg[r].slot \in Slot /\ msg[r].value \in ValueOf(msg[r].slot.kind)
      BY <3>1, Messages, SubmissionsAssumption DEF PutMsg
    <3>3. t \in Target
      BY <3>2, TargetType
    <3>4. t \in Scope
      BY <2>1, <3>3, AuthorizedInScope DEF ScopeInv
    <3>5. /\ pc' = [pc EXCEPT ![r] = "write"]
          /\ UNCHANGED <<store, msg>>
      BY <2>1 DEF Decide, Goto
    <3>6. DecisionsInScope'
      <4> SUFFICES ASSUME NEW q \in Request
                   PROVE  /\ pc'[q] = "write" => target'[q] \in Scope
                          /\ pc'[q] = "write" /\ msg[q].op = "put" =>
                               target'[q] = TargetOf(msg[q].slot, msg[q].value)
                          /\ pc'[q] \in {"authorize", "write"} /\ msg[q].op = "delete"
                               /\ IsFixed(msg[q].slot) => target'[q] = FixedTarget(msg[q].slot)
        BY <3>5 DEF DecisionsInScope, Scope
      <4>1. CASE q = r
        BY <2>1, <3>1, <3>4, <4>1 DEF TypeOK
      <4>2. CASE q # r
        BY <2>1, <3>5, <4>2 DEF TypeOK, ScopeInv, DecisionsInScope
      <4> QED
        BY <4>1, <4>2
    <3> QED
      BY <3>5, <3>6 DEF ScopeInv, ScopeBounded, OutOfScopeUntouched, GrantsOn
  <2> QED
    BY <1>4, <2>1, ScopeAnswer DEF AuthorizePut
<1>5. ASSUME NEW r \in Request, ApplyPut(r)
      PROVE  ScopeInv'
  <2>1. pc[r] = "write" /\ msg[r].op = "put" /\ msg[r] \in Submissions
    BY <1>5 DEF ApplyPut, TypeOK
  <2>2. CASE msg[r].form = "ok" /\ Write(r, msg[r].slot, msg[r].value)
    <3>1. msg[r].value \in ValueOf(msg[r].slot.kind)
      BY <2>1, <2>2, SubmissionsAssumption
    <3>2. msg[r].value # None
      BY <2>1, <3>1, Messages, NoneAssumption DEF PutMsg
    <3> QED
      BY <2>1, <2>2, <3>1, <3>2, ScopeWrite
  <2> QED
    BY <1>5, <2>2, ScopeAnswer DEF ApplyPut
<1>6. ASSUME NEW r \in Request, ResolveDelete(r)
      PROVE  ScopeInv'
  <2> DEFINE t == TargetOf(msg[r].slot, store[msg[r].slot])
  <2>1. CASE /\ Decide(r, "authorize")
             /\ target' = [target EXCEPT ![r] = t]
    <3>1. msg[r].op = "delete"
      BY <1>6 DEF ResolveDelete, Handling
    <3>2. IsFixed(msg[r].slot) => t = FixedTarget(msg[r].slot)
      BY FixedTargetOf
    <3>3. /\ pc' = [pc EXCEPT ![r] = "authorize"]
          /\ UNCHANGED <<store, msg>>
      BY <2>1 DEF Decide, Goto
    <3> HIDE DEF t
    <3>4. DecisionsInScope'
      BY <2>1, <3>1, <3>2, <3>3 DEF TypeOK, ScopeInv, DecisionsInScope, Scope
    <3> QED
      BY <3>3, <3>4 DEF ScopeInv, ScopeBounded, OutOfScopeUntouched, GrantsOn
  <2> QED
    BY <1>6, <2>1, ScopeAnswer DEF ResolveDelete
<1>7. ASSUME NEW r \in Request, AuthorizeDelete(r)
      PROVE  ScopeInv'
  <2>1. pc[r] = "authorize" /\ msg[r].op = "delete" /\ target[r] \in Target
    BY <1>7 DEF AuthorizeDelete, TypeOK
  <2>2. CASE /\ WriteAllowed(store, CallerOf(msg[r]), target[r])
             /\ Goto(r, "write")
             /\ UNCHANGED <<store, msg, target>>
    <3>1. target[r] \in Scope
      BY <2>1, <2>2, AuthorizedInScope DEF ScopeInv
    <3>2. DecisionsInScope'
      BY <2>1, <2>2, <3>1 DEF TypeOK, Goto, ScopeInv, DecisionsInScope, Scope
    <3> QED
      BY <2>2, <3>2 DEF ScopeInv, ScopeBounded, OutOfScopeUntouched, GrantsOn
  <2> QED
    BY <1>7, <2>2, ScopeAnswer DEF AuthorizeDelete
<1>8. ASSUME NEW r \in Request, ApplyDelete(r)
      PROVE  ScopeInv'
  BY <1>8, ScopeWrite, ScopeAnswer DEF ApplyDelete
<1>9. ASSUME NEW r \in Request, RecordChange(r) \/ FinishConnect(r)
      PROVE  ScopeInv'
  BY <1>9, ScopeFrame DEF RecordChange, FinishConnect, Answer, Goto, TypeOK
<1>10. ASSUME NEW r \in Request, AuthorizeConnect(r)
       PROVE  ScopeInv'
  <2>1. CASE Decide(r, "forward") /\ UNCHANGED target
    BY <2>1, ScopeFrame DEF Decide, Goto, TypeOK
  <2> QED
    BY <1>10, <2>1, ScopeAnswer DEF AuthorizeConnect
<1>11. ASSUME NEW r \in Request, WorkloadHandle(r) \/ WorkloadMiss(r)
       PROVE  ScopeInv'
  BY <1>11, ScopeFrame DEF WorkloadHandle, WorkloadMiss
<1>12. CASE UNCHANGED vars
  BY <1>12, ScopeFrame DEF vars, handlerVars
<1> QED
  BY <1>1, <1>2, <1>3, <1>4, <1>5, <1>6, <1>7, <1>8, <1>9, <1>10, <1>11, <1>12
     DEF Next, Handler

\* However requests interleave, write authority and the named resources outside
\* the seeded scope stay as seeded (authorizeWrite, targetOf, targetOfExisting).
THEOREM ScopeTheorem == Spec => []DeployerStaysInScope
<1>1. TypeOK /\ ScopeInv /\ [Next]_vars => (TypeOK /\ ScopeInv)'
  BY TypeStep, ScopeStep
<1>2. ScopeInv => DeployerStaysInScope
  BY DEF ScopeInv, DeployerStaysInScope
<1> QED
  BY TypeInit, ScopeInit, <1>1, <1>2, PTL DEF Spec

-----------------------------------------------------------------------------
(* The ledger argument.  Write and Record are two critical sections, with  *)
(* any number of others between them; the handler that is between the two  *)
(* stands in for the row that is still missing.                            *)

\* Steps that touch neither the store nor the ledger, and no handler that has
\* changed something.
LEMMA LedgerFrame ==
  ASSUME LedgerInv, UNCHANGED <<store, ledger, seq, entry>>,
         \A q \in Request :
           /\ pc[q] = "record" => pc'[q] = "record"
           /\ pc[q] = "done" => pc'[q] = "done"
           /\ pc[q] \in {"record", "done"} => msg'[q] = msg[q]
  PROVE  LedgerInv'
<1>1. LedgerAttribution'
  BY DEF LedgerInv, LedgerAttribution, RecordedAreDone
<1>2. RecordedAreDone'
  BY DEF LedgerInv, RecordedAreDone
<1>3. DifferencesAccounted'
  BY DEF LedgerInv, DifferencesAccounted, RecordedAreDone
<1> QED
  BY <1>1, <1>2, <1>3 DEF LedgerInv

LEMMA LedgerAnswer ==
  ASSUME TypeOK, LedgerInv, NEW r \in Request, pc[r] # "record",
         \/ Refuse(r)
         \/ \E status : Plain(r, status)
  PROVE  LedgerInv'
BY LedgerFrame DEF Refuse, Plain, Answer, Goto, TypeOK

LEMMA LedgerWrite ==
  ASSUME TypeOK, LedgerInv, NEW r \in Request, pc[r] = "write",
         Write(r, msg[r].slot, Effect(msg[r]))
  PROVE  LedgerInv'
<1>1. msg[r] \in Submissions /\ msg[r].op \in {"put", "delete"}
  BY DEF TypeOK
<1>2. msg[r].slot \in Slot
  BY <1>1, Messages DEF PutMsg, DeleteMsg
<1>3. /\ store' = [store EXCEPT ![msg[r].slot] = Effect(msg[r])]
      /\ pc' = [pc EXCEPT ![r] = "record"]
      /\ UNCHANGED <<ledger, seq, entry, msg>>
  BY DEF Write, Goto
<1>4. LedgerAttribution'
  BY <1>3 DEF LedgerInv, LedgerAttribution
<1>5. RecordedAreDone'
  BY <1>3 DEF LedgerInv, RecordedAreDone, TypeOK
<1>6. DifferencesAccounted'
  <2> SUFFICES ASSUME NEW s \in Slot, store'[s] # InitialStore[s]
               PROVE  \E q \in Request :
                        /\ pc'[q] = "record" \/ entry[q] # 0
                        /\ msg[q].op \in {"put", "delete"}
                        /\ msg[q].slot = s
                        /\ store'[s] = Effect(msg[q])
    BY <1>3 DEF DifferencesAccounted, Effect
  <2>1. CASE s = msg[r].slot
    BY <1>1, <1>2, <1>3, <2>1 DEF TypeOK, IsState
  <2>2. CASE s # msg[r].slot
    <3>1. store'[s] = store[s]
      BY <1>3, <2>2 DEF TypeOK, IsState
    <3>2. PICK q \in Request : /\ pc[q] = "record" \/ entry[q] # 0
                               /\ msg[q].op \in {"put", "delete"}
                               /\ msg[q].slot = s
                               /\ store[s] = Effect(msg[q])
      BY <3>1 DEF LedgerInv, DifferencesAccounted
    <3>3. q # r
      BY <2>2, <3>2
    <3> QED
      BY <1>3, <3>1, <3>2, <3>3 DEF TypeOK
  <2> QED
    BY <2>1, <2>2
<1> QED
  BY <1>4, <1>5, <1>6 DEF LedgerInv

LEMMA LedgerRecord ==
  ASSUME TypeOK, LedgerInv, NEW r \in Request, pc[r] \in {"record", "forward"},
         Record(r), Answer(r, "ok"), UNCHANGED <<store, msg>>
  PROVE  LedgerInv'
<1>1. entry[r] = 0
  BY DEF LedgerInv, RecordedAreDone
<1>2. /\ seq' = seq + 1
      /\ ledger' = Append(ledger, RowOf(msg[r], seq + 1))
      /\ entry' = [entry EXCEPT ![r] = seq + 1]
      /\ pc' = [pc EXCEPT ![r] = "done"]
  BY DEF Record, Answer, Goto
<1>3. seq = Len(ledger) /\ seq \in Nat /\ ledger \in Seq(LedgerEntry)
  BY DEF TypeOK, LedgerInv, LedgerAttribution
<1>4. Len(ledger') = seq + 1
  BY <1>2, <1>3
<1>5. ledger'[seq + 1] = RowOf(msg[r], seq + 1)
  BY <1>2, <1>3
<1>6. \A n \in 1 .. seq : ledger'[n] = ledger[n]
  BY <1>2, <1>3
<1>7. \A q \in Request : entry[q] \in Nat /\ entry[q] <= seq
  BY <1>3 DEF TypeOK, LedgerInv, LedgerAttribution
<1>8. \A q \in Request : entry'[q] = IF q = r THEN seq + 1 ELSE entry[q]
  BY <1>2 DEF TypeOK
<1>9. LedgerAttribution'
  <2>1. ASSUME NEW q \in Request, entry'[q] # 0
        PROVE  entry'[q] <= seq' /\ ledger'[entry'[q]] = RowOf(msg'[q], entry'[q])
    <3>1. CASE q = r
      BY <1>2, <1>3, <1>5, <1>8, <3>1
    <3>2. CASE q # r
      <4>1. entry'[q] = entry[q] /\ entry[q] \in 1 .. seq
        BY <1>3, <1>7, <1>8, <2>1, <3>2
      <4>2. ledger[entry[q]] = RowOf(msg[q], entry[q])
        BY <4>1 DEF LedgerInv, LedgerAttribution
      <4> QED
        BY <1>2, <1>3, <1>6, <4>1, <4>2
    <3> QED
      BY <3>1, <3>2
  <2>2. ASSUME NEW p \in Request, NEW q \in Request, p # q, entry'[p] # 0
        PROVE  entry'[p] # entry'[q]
    BY <1>3, <1>7, <1>8, <2>2 DEF LedgerInv, LedgerAttribution
  <2>3. ASSUME NEW n \in 1 .. seq'
        PROVE  \E q \in Request : entry'[q] = n
    <3>1. CASE n = seq + 1
      BY <1>8, <3>1
    <3>2. CASE n # seq + 1
      <4>1. n \in 1 .. seq
        BY <1>2, <1>3, <3>2
      <4>2. PICK q \in Request : entry[q] = n
        BY <4>1 DEF LedgerInv, LedgerAttribution
      <4>3. q # r
        BY <1>1, <4>1, <4>2
      <4> QED
        BY <1>8, <4>2, <4>3
    <3> QED
      BY <3>1, <3>2
  <2>4. seq' = Len(ledger')
    BY <1>2, <1>4
  <2> QED
    BY <2>1, <2>2, <2>3, <2>4 DEF LedgerAttribution
<1>10. RecordedAreDone'
  BY <1>2, <1>8 DEF LedgerInv, RecordedAreDone, TypeOK
<1>11. DifferencesAccounted'
  <2> SUFFICES ASSUME NEW s \in Slot, store[s] # InitialStore[s]
               PROVE  \E q \in Request :
                        /\ pc'[q] = "record" \/ entry'[q] # 0
                        /\ msg[q].op \in {"put", "delete"}
                        /\ msg[q].slot = s
                        /\ store[s] = Effect(msg[q])
    BY DEF DifferencesAccounted, Effect
  <2>1. PICK q \in Request : /\ pc[q] = "record" \/ entry[q] # 0
                             /\ msg[q].op \in {"put", "delete"}
                             /\ msg[q].slot = s
                             /\ store[s] = Effect(msg[q])
    BY DEF LedgerInv, DifferencesAccounted
  <2>2. pc'[q] = "record" \/ entry'[q] # 0
    BY <1>2, <1>3, <1>8, <2>1 DEF TypeOK
  <2> QED
    BY <2>1, <2>2
<1> QED
  BY <1>9, <1>10, <1>11 DEF LedgerInv

LEMMA LedgerInit == Init => LedgerInv
BY DEF Init, LedgerInv, LedgerAttribution, RecordedAreDone, DifferencesAccounted

LEMMA LedgerStep == TypeOK /\ LedgerInv /\ [Next]_vars => LedgerInv'
<1> SUFFICES ASSUME TypeOK, LedgerInv, [Next]_vars
             PROVE  LedgerInv'
  OBVIOUS
<1>1. ASSUME NEW r \in Request, Receive(r)
      PROVE  LedgerInv'
  <2>1. pc[r] = "idle" /\ pc' = [pc EXCEPT ![r] = "received"]
    BY <1>1 DEF Receive, Goto
  <2>2. \A q \in Request \ {r} : msg'[q] = msg[q]
    BY <1>1 DEF Receive, TypeOK
  <2> QED
    BY <1>1, <2>1, <2>2, LedgerFrame DEF Receive, TypeOK
<1>2. ASSUME NEW r \in Request,
             \/ RefuseUnknownSegment(r) \/ NoRoute(r) \/ FetchObject(r)
             \/ RejectPut(r) \/ UnreadableConnect(r) \/ FailConnect(r)
      PROVE  LedgerInv'
  BY <1>2, LedgerAnswer
     DEF RefuseUnknownSegment, NoRoute, FetchObject, RejectPut, UnreadableConnect, FailConnect, Handling
<1>3. ASSUME NEW r \in Request,
             \/ AuthorizeObjectRead(r) \/ AuthorizePut(r) \/ ResolveDelete(r)
             \/ AuthorizeConnect(r)
      PROVE  LedgerInv'
  <2>1. pc[r] = "received"
    BY <1>3 DEF AuthorizeObjectRead, AuthorizePut, ResolveDelete, AuthorizeConnect, Handling
  <2>2. Refuse(r) \/ \E label : Decide(r, label)
    BY <1>3 DEF AuthorizeObjectRead, AuthorizePut, ResolveDelete, AuthorizeConnect
  <2>3. ASSUME NEW label, Decide(r, label)
        PROVE  LedgerInv'
    BY <2>1, <2>3, LedgerFrame DEF Decide, Goto, TypeOK
  <2> QED
    BY <2>1, <2>2, <2>3, LedgerAnswer
<1>4. ASSUME NEW r \in Request, AuthorizeDelete(r)
      PROVE  LedgerInv'
  <2>1. CASE Goto(r, "write") /\ UNCHANGED <<store, ledger, seq, entry, msg>>
    BY <1>4, <2>1, LedgerFrame DEF AuthorizeDelete, Goto, TypeOK
  <2> QED
    BY <1>4, <2>1, LedgerAnswer DEF AuthorizeDelete
<1>5. ASSUME NEW r \in Request, ApplyPut(r) \/ ApplyDelete(r)
      PROVE  LedgerInv'
  <2>1. pc[r] = "write"
    BY <1>5 DEF ApplyPut, ApplyDelete
  <2>2. \/ Write(r, msg[r].slot, Effect(msg[r]))
        \/ Refuse(r) \/ \E status : Plain(r, status)
    BY <1>5 DEF ApplyPut, ApplyDelete, Effect
  <2> QED
    BY <2>1, <2>2, LedgerWrite, LedgerAnswer
<1>6. ASSUME NEW r \in Request, RecordChange(r)
      PROVE  LedgerInv'
  BY <1>6, LedgerRecord DEF RecordChange
<1>7. ASSUME NEW r \in Request, FinishConnect(r)
      PROVE  LedgerInv'
  <2>1. CASE Record(r)
    BY <1>7, <2>1, LedgerRecord DEF FinishConnect
  <2>2. CASE UNCHANGED <<ledger, seq, entry>>
    BY <1>7, <2>2, LedgerFrame DEF FinishConnect, Answer, Goto, TypeOK
  <2> QED
    BY <1>7, <2>1, <2>2 DEF FinishConnect
<1>8. ASSUME NEW r \in Request, WorkloadHandle(r) \/ WorkloadMiss(r)
      PROVE  LedgerInv'
  BY <1>8, LedgerFrame DEF WorkloadHandle, WorkloadMiss
<1>9. CASE UNCHANGED vars
  BY <1>9, LedgerFrame DEF vars, handlerVars
<1> QED
  BY <1>1, <1>2, <1>3, <1>4, <1>5, <1>6, <1>7, <1>8, <1>9 DEF Next, Handler

\* Every row belongs to exactly one request and names its caller, and whatever
\* differs from the seed has its row or a handler about to append it
\* (putResource, deleteResource, connect, Store.Record).
THEOREM LedgerTheorem == Spec => [](LedgerAttribution /\ DifferencesAccounted)
<1>1. TypeOK /\ LedgerInv /\ [Next]_vars => (TypeOK /\ LedgerInv)'
  BY TypeStep, LedgerStep
<1>2. LedgerInv => LedgerAttribution /\ DifferencesAccounted
  BY DEF LedgerInv
<1> QED
  BY TypeInit, LedgerInit, <1>1, <1>2, PTL DEF Spec

-----------------------------------------------------------------------------
(* The fare engine's transition.  Its row is written by a handler whose    *)
(* request was handled, and from then on the cap is raised for good.       *)

FareInv ==
  /\ TransitionRowsAreTrue
  /\ \A r \in Request : wire[r] = "handled" /\ IsTransition(msg[r]) => fareCap = 400

\* Steps that neither append a row nor let the workload handle a request.
LEMMA FareFrame ==
  ASSUME FareInv, UNCHANGED <<ledger, fareCap>>,
         \A q \in Request : wire'[q] = "handled" => wire[q] = "handled" /\ msg'[q] = msg[q]
  PROVE  FareInv'
BY DEF FareInv, TransitionRowsAreTrue

\* A row is appended to what is already there, and is of a change that was made.
LEMMA FareRecord ==
  ASSUME TypeOK, FareInv, NEW r \in Request, Record(r),
         RowAction(msg[r]) = "workload.change" => fareCap = 400,
         UNCHANGED <<fareCap, msg, wire>>
  PROVE  FareInv'
<1>1. ledger' = Append(ledger, RowOf(msg[r], seq + 1)) /\ ledger \in Seq(LedgerEntry)
  BY DEF Record, TypeOK
<1>2. ASSUME NEW n \in 1 .. Len(ledger'), ledger'[n].row.action = "workload.change"
      PROVE  fareCap = 400
  <2>1. CASE n \in 1 .. Len(ledger)
    BY <1>1, <1>2, <2>1 DEF FareInv, TransitionRowsAreTrue
  <2>2. CASE n = Len(ledger) + 1
    <3>1. ledger'[n] = RowOf(msg[r], seq + 1)
      BY <1>1, <2>2
    <3> QED
      BY <1>2, <3>1 DEF RowOf, RowContent
  <2> QED
    BY <1>1, <2>1, <2>2
<1> QED
  BY <1>2 DEF FareInv, TransitionRowsAreTrue

\* The fare engine starts with the cap it has.
LEMMA FareInit == Init => FareInv
BY DEF Init, FareInv, TransitionRowsAreTrue

\* Only the two steps that touch the cap or the rows need the invariant.
LEMMA FareStep == TypeOK /\ FareInv /\ [Next]_vars => FareInv'
<1> SUFFICES ASSUME TypeOK, FareInv, [Next]_vars
             PROVE  FareInv'
  OBVIOUS
<1>1. ASSUME NEW r \in Request, Receive(r)
      PROVE  FareInv'
  <2>1. wire[r] = "none"
    BY <1>1 DEF Receive, TypeOK
  <2> QED
    BY <1>1, <2>1, FareFrame DEF Receive, TypeOK
<1>2. ASSUME NEW r \in Request, Refuse(r) \/ \E status : Plain(r, status)
      PROVE  FareInv'
  BY <1>2, FareFrame DEF Refuse, Plain
<1>3. ASSUME NEW r \in Request,
             \/ RefuseUnknownSegment(r) \/ NoRoute(r) \/ FetchObject(r)
             \/ RejectPut(r) \/ UnreadableConnect(r) \/ FailConnect(r)
      PROVE  FareInv'
  BY <1>2, <1>3
     DEF RefuseUnknownSegment, NoRoute, FetchObject, RejectPut, UnreadableConnect, FailConnect
<1>4. ASSUME NEW r \in Request,
             AuthorizeObjectRead(r) \/ AuthorizePut(r) \/ ResolveDelete(r) \/ AuthorizeConnect(r)
      PROVE  FareInv'
  <2>1. Refuse(r) \/ \E label : Decide(r, label)
    BY <1>4 DEF AuthorizeObjectRead, AuthorizePut, ResolveDelete, AuthorizeConnect
  <2>2. Refuse(r) \/ UNCHANGED wire \/ wire' = [wire EXCEPT ![r] = "sent"]
    BY <1>4 DEF AuthorizeObjectRead, AuthorizePut, ResolveDelete, AuthorizeConnect
  <2>3. ASSUME NEW label, Decide(r, label),
               UNCHANGED wire \/ wire' = [wire EXCEPT ![r] = "sent"]
        PROVE  FareInv'
    BY <2>3, FareFrame DEF Decide, TypeOK
  <2> QED
    BY <1>2, <2>1, <2>2, <2>3
<1>5. ASSUME NEW r \in Request, AuthorizeDelete(r)
      PROVE  FareInv'
  <2>1. CASE UNCHANGED <<ledger, fareCap, wire, msg>>
    BY <2>1, FareFrame
  <2> QED
    BY <1>2, <1>5, <2>1 DEF AuthorizeDelete
<1>6. ASSUME NEW r \in Request, ApplyPut(r) \/ ApplyDelete(r)
      PROVE  FareInv'
  <2>1. ASSUME NEW slot, NEW v, Write(r, slot, v)
        PROVE  FareInv'
    BY <2>1, FareFrame DEF Write
  <2> QED
    BY <1>2, <1>6, <2>1 DEF ApplyPut, ApplyDelete
<1>7. ASSUME NEW r \in Request, RecordChange(r)
      PROVE  FareInv'
  <2>1. RowAction(msg[r]) # "workload.change"
    BY <1>7 DEF RecordChange, RowAction, TypeOK
  <2> QED
    BY <1>7, <2>1, FareRecord DEF RecordChange
<1>8. ASSUME NEW r \in Request, FinishConnect(r)
      PROVE  FareInv'
  <2>1. CASE IsTransition(msg[r]) /\ msg[r].method # "GET"
    BY <1>8, <2>1, FareRecord DEF FinishConnect, FareInv
  <2>2. CASE ~(IsTransition(msg[r]) /\ msg[r].method # "GET")
    BY <1>8, <2>2, FareFrame DEF FinishConnect
  <2> QED
    BY <2>1, <2>2
<1>9. ASSUME NEW r \in Request, WorkloadHandle(r)
      PROVE  FareInv'
  <2>1. fareCap' = IF IsTransition(msg[r]) THEN 400 ELSE fareCap
    BY <1>9 DEF WorkloadHandle
  <2>2. TransitionRowsAreTrue'
    BY <1>9, <2>1 DEF WorkloadHandle, FareInv, TransitionRowsAreTrue
  <2>3. ASSUME NEW q \in Request, wire'[q] = "handled", IsTransition(msg[q])
        PROVE  fareCap' = 400
    BY <1>9, <2>1, <2>3 DEF WorkloadHandle, FareInv, TypeOK
  <2> QED
    BY <1>9, <2>2, <2>3 DEF WorkloadHandle, FareInv, IsTransition
<1>10. ASSUME NEW r \in Request, WorkloadMiss(r)
       PROVE  FareInv'
  BY <1>10, FareFrame DEF WorkloadMiss, TypeOK
<1>11. CASE UNCHANGED vars
  BY <1>11, FareFrame DEF vars, handlerVars
<1> QED
  BY <1>1, <1>3, <1>4, <1>5, <1>6, <1>7, <1>8, <1>9, <1>10, <1>11 DEF Next, Handler

\* No row ever says that the fare cap was raised unless it was, although the
\* answer that announces it may come late or get lost (connect).
THEOREM FareTheorem == Spec => []TransitionRowsAreTrue
<1>1. TypeOK /\ FareInv /\ [Next]_vars => (TypeOK /\ FareInv)'
  BY TypeStep, FareStep
<1>2. FareInv => TransitionRowsAreTrue
  BY DEF FareInv
<1> QED
  BY TypeInit, FareInit, <1>1, <1>2, PTL DEF Spec

-----------------------------------------------------------------------------
(* Refusals.  A request is answered once, so it is counted once.           *)

Refused == {r \in Request : reply[r] = "refused"}

AuditInv ==
  /\ RefusalsAudited
  /\ IsFiniteSet(Refused)
  /\ \A r \in Request : reply[r] # "none" => pc[r] = "done"

\* Steps that answer nobody, and record nothing for who is already answered.
LEMMA AuditFrame ==
  ASSUME AuditInv, UNCHANGED <<audit, reply, entry>>,
         \A q \in Request : pc[q] = "done" => pc'[q] = "done"
  PROVE  AuditInv'
BY DEF AuditInv, RefusalsAudited, Refused

\* An answer that is no refusal.
LEMMA AuditAnswer ==
  ASSUME TypeOK, AuditInv, NEW r \in Request, pc[r] # "done", NEW status,
         Answer(r, status), UNCHANGED audit, status # "refused",
         \A q \in Request \ {r} : entry'[q] = entry[q],
         status \in {"bad_request", "no_route"} => entry'[r] = 0
  PROVE  AuditInv'
<1>1. reply' = [reply EXCEPT ![r] = status] /\ pc' = [pc EXCEPT ![r] = "done"]
  BY DEF Answer, Goto
<1>2. reply[r] = "none"
  BY DEF AuditInv
<1>3. {q \in Request : reply'[q] = "refused"} = {q \in Request : reply[q] = "refused"}
  BY <1>1, <1>2 DEF TypeOK
<1>4. audit' = Cardinality({q \in Request : reply'[q] = "refused"})
  BY <1>3 DEF AuditInv, RefusalsAudited
<1>5. \A q \in Request : reply'[q] \in {"refused", "bad_request", "no_route"} => entry'[q] = 0
  BY <1>1 DEF AuditInv, RefusalsAudited, TypeOK
<1>6. IsFiniteSet(Refused)'
  BY <1>3 DEF AuditInv, Refused
<1>7. \A q \in Request : reply'[q] # "none" => pc'[q] = "done"
  BY <1>1 DEF AuditInv, TypeOK
<1> QED
  BY <1>4, <1>5, <1>6, <1>7 DEF AuditInv, RefusalsAudited

\* A refusal is counted as it is answered.
LEMMA AuditRefuse ==
  ASSUME TypeOK, AuditInv, LedgerInv, NEW r \in Request, pc[r] # "done", Refuse(r)
  PROVE  AuditInv'
<1>1. /\ reply' = [reply EXCEPT ![r] = "refused"]
      /\ pc' = [pc EXCEPT ![r] = "done"]
      /\ audit' = audit + 1
      /\ entry' = entry
  BY DEF Refuse, Answer, Goto
<1>2. r \notin Refused
  BY DEF AuditInv, Refused
<1>3. Refused' = Refused \cup {r}
  BY <1>1 DEF Refused, TypeOK
<1>4. IsFiniteSet(Refused') /\ Cardinality(Refused') = Cardinality(Refused) + 1
  BY <1>2, <1>3, FS_AddElement DEF AuditInv
<1>5. audit' = Cardinality(Refused')
  BY <1>1, <1>4 DEF AuditInv, RefusalsAudited, Refused
<1>6. entry[r] = 0
  BY DEF LedgerInv, RecordedAreDone
<1>7. \A q \in Request : reply'[q] \in {"refused", "bad_request", "no_route"} => entry'[q] = 0
  BY <1>1, <1>6 DEF AuditInv, RefusalsAudited, TypeOK
<1>8. \A q \in Request : reply'[q] # "none" => pc'[q] = "done"
  BY <1>1 DEF AuditInv, TypeOK
<1>9. RefusalsAudited'
  BY <1>5, <1>7 DEF RefusalsAudited, Refused
<1> QED
  BY <1>4, <1>8, <1>9 DEF AuditInv

\* An answer that changes nothing, of a handler that has no row.
LEMMA AuditPlain ==
  ASSUME TypeOK, AuditInv, LedgerInv, NEW r \in Request, pc[r] # "done",
         NEW status, status # "refused", Plain(r, status)
  PROVE  AuditInv'
<1>1. entry[r] = 0
  BY DEF LedgerInv, RecordedAreDone
<1> QED
  BY <1>1, AuditAnswer DEF Plain

\* A row for the request that is answered with it.
LEMMA AuditRecord ==
  ASSUME TypeOK, AuditInv, NEW r \in Request, pc[r] # "done",
         Answer(r, "ok"), Record(r) \/ UNCHANGED entry, UNCHANGED audit
  PROVE  AuditInv'
<1>1. \A q \in Request \ {r} : entry'[q] = entry[q]
  BY DEF Record, TypeOK
<1> QED
  BY <1>1, AuditAnswer

\* Nobody is answered at first.
LEMMA AuditInit == Init => AuditInv
<1> SUFFICES ASSUME Init
             PROVE  AuditInv
  OBVIOUS
<1>1. Refused = {} /\ {r \in Request : reply[r] = "refused"} = {}
  BY DEF Init, Refused
<1>2. IsFiniteSet({}) /\ Cardinality({}) = 0
  BY FS_EmptySet
<1> QED
  BY <1>1, <1>2 DEF Init, AuditInv, RefusalsAudited

\* Every other step answers nobody.
LEMMA AuditStep == TypeOK /\ LedgerInv /\ AuditInv /\ [Next]_vars => AuditInv'
<1> SUFFICES ASSUME TypeOK, LedgerInv, AuditInv, [Next]_vars
             PROVE  AuditInv'
  OBVIOUS
<1>1. ASSUME NEW r \in Request, Receive(r)
      PROVE  AuditInv'
  BY <1>1, AuditFrame DEF Receive, Goto, TypeOK
<1>2. ASSUME NEW r \in Request,
             \/ RefuseUnknownSegment(r) \/ NoRoute(r) \/ FetchObject(r)
             \/ RejectPut(r) \/ UnreadableConnect(r) \/ FailConnect(r)
      PROVE  AuditInv'
  <2>1. pc[r] # "done"
    BY <1>2 DEF RefuseUnknownSegment, NoRoute, FetchObject, RejectPut, UnreadableConnect,
                FailConnect, Handling
  <2>2. \/ Refuse(r) \/ Plain(r, "no_route") \/ Plain(r, "ok")
        \/ Plain(r, "bad_request") \/ Plain(r, "unreachable")
    BY <1>2 DEF RefuseUnknownSegment, NoRoute, FetchObject, RejectPut, UnreadableConnect,
                FailConnect
  <2> QED
    BY <2>1, <2>2, AuditRefuse, AuditPlain
<1>3. ASSUME NEW r \in Request,
             AuthorizeObjectRead(r) \/ AuthorizePut(r) \/ ResolveDelete(r) \/ AuthorizeConnect(r)
      PROVE  AuditInv'
  <2>1. pc[r] = "received"
    BY <1>3 DEF AuthorizeObjectRead, AuthorizePut, ResolveDelete, AuthorizeConnect, Handling
  <2>2. Refuse(r) \/ \E label : Decide(r, label)
    BY <1>3 DEF AuthorizeObjectRead, AuthorizePut, ResolveDelete, AuthorizeConnect
  <2>3. ASSUME NEW label, Decide(r, label)
        PROVE  AuditInv'
    BY <2>1, <2>3, AuditFrame DEF Decide, Goto, TypeOK
  <2> QED
    BY <2>1, <2>2, <2>3, AuditRefuse
<1>4. ASSUME NEW r \in Request, AuthorizeDelete(r)
      PROVE  AuditInv'
  <2>1. CASE Goto(r, "write") /\ UNCHANGED <<audit, reply, entry>>
    BY <1>4, <2>1, AuditFrame DEF AuthorizeDelete, Goto, TypeOK
  <2> QED
    BY <1>4, <2>1, AuditRefuse DEF AuthorizeDelete
<1>5. ASSUME NEW r \in Request, ApplyPut(r) \/ ApplyDelete(r)
      PROVE  AuditInv'
  <2>1. pc[r] = "write"
    BY <1>5 DEF ApplyPut, ApplyDelete
  <2>2. ASSUME NEW slot, NEW v, Write(r, slot, v)
        PROVE  AuditInv'
    BY <2>1, <2>2, AuditFrame DEF Write, Goto, TypeOK
  <2> QED
    BY <1>5, <2>1, <2>2, AuditRefuse, AuditPlain DEF ApplyPut, ApplyDelete
<1>6. ASSUME NEW r \in Request, RecordChange(r) \/ FinishConnect(r)
      PROVE  AuditInv'
  BY <1>6, AuditRecord DEF RecordChange, FinishConnect
<1>7. ASSUME NEW r \in Request, WorkloadHandle(r) \/ WorkloadMiss(r)
      PROVE  AuditInv'
  BY <1>7, AuditFrame DEF WorkloadHandle, WorkloadMiss
<1>8. CASE UNCHANGED vars
  BY <1>8, AuditFrame DEF vars, handlerVars
<1> QED
  BY <1>1, <1>2, <1>3, <1>4, <1>5, <1>6, <1>7, <1>8 DEF Next, Handler

\* Every refusal is audited once, whichever of its checks a handler fell at,
\* and neither a refused nor an unroutable request has a row (refuse, server.go).
THEOREM AuditTheorem == Spec => []RefusalsAudited
<1>1. TypeOK /\ LedgerInv /\ AuditInv /\ [Next]_vars => (TypeOK /\ LedgerInv /\ AuditInv)'
  BY TypeStep, LedgerStep, AuditStep
<1>2. AuditInv => RefusalsAudited
  BY DEF AuditInv
<1> QED
  BY TypeInit, LedgerInit, AuditInit, <1>1, <1>2, PTL DEF Spec

-----------------------------------------------------------------------------
(* Decisions.  A handler holds a decision from the critical section it     *)
(* read to the one it writes in; raced says whose decision another write   *)
(* has overtaken meanwhile.                                                *)

\* The step between the two looks of a delete: its target is still the one
\* of the resource it found, or there is none any more.
ResolvedHolds(r) ==
  pc[r] \in {"authorize", "write"} /\ msg[r].op = "delete" /\ store[msg[r].slot] # None =>
    target[r] = TargetOf(msg[r].slot, store[msg[r].slot])

FetchHolds(r) ==
  pc[r] = "fetch" => /\ ReadAllowed(store, CallerOf(msg[r]), msg[r].object)
                     /\ store[ObjectSlot(msg[r].object)] # None

WriteHolds(r) ==
  pc[r] = "write" => WriteAllowed(store, CallerOf(msg[r]), target[r])

UnracedInv == \A r \in Request \ raced : ResolvedHolds(r) /\ FetchHolds(r) /\ WriteHolds(r)

\* Steps that leave every decision where it was taken, or drop it.
LEMMA UnracedFrame ==
  ASSUME UnracedInv, UNCHANGED store,
         \A q \in Request : pc'[q] \in {"fetch", "authorize", "write"} =>
           /\ pc'[q] = pc[q] /\ msg'[q] = msg[q] /\ target'[q] = target[q]
           /\ q \in raced => q \in raced'
  PROVE  UnracedInv'
BY DEF UnracedInv, ResolvedHolds, FetchHolds, WriteHolds

\* A handler that is answered decides nothing any more.
LEMMA UnracedAnswer ==
  ASSUME TypeOK, UnracedInv, NEW r \in Request,
         Refuse(r) \/ \E status : Plain(r, status)
  PROVE  UnracedInv'
BY UnracedFrame DEF Refuse, Plain, Answer, Goto, TypeOK

\* A fresh decision holds when its own step took it on the store as it is.
LEMMA UnracedDecide ==
  ASSUME TypeOK, UnracedInv, NEW r \in Request, NEW label, Decide(r, label),
         \A q \in Request \ {r} : target'[q] = target[q],
         (ResolvedHolds(r) /\ FetchHolds(r) /\ WriteHolds(r))'
  PROVE  UnracedInv'
<1>1. /\ UNCHANGED <<store, msg>>
      /\ raced' = raced \ {r}
      /\ \A q \in Request \ {r} : pc'[q] = pc[q]
  BY DEF Decide, Goto, TypeOK
<1>2. ASSUME NEW q \in Request \ raced', q # r
      PROVE  (ResolvedHolds(q) /\ FetchHolds(q) /\ WriteHolds(q))'
  <2>1. ResolvedHolds(q) /\ FetchHolds(q) /\ WriteHolds(q)
    BY <1>1, <1>2 DEF UnracedInv
  <2> QED
    BY <1>1, <1>2, <2>1 DEF ResolvedHolds, FetchHolds, WriteHolds
<1> QED
  BY <1>2 DEF UnracedInv

\* A write overtakes whoever else holds a decision.
LEMMA UnracedWrite ==
  ASSUME TypeOK, NEW r \in Request, NEW slot, NEW v, Write(r, slot, v)
  PROVE  UnracedInv'
<1>1. \A q \in Request \ raced' : pc'[q] \notin {"fetch", "authorize", "write"}
  BY DEF Write, Goto, TypeOK
<1> QED
  BY <1>1 DEF UnracedInv, ResolvedHolds, FetchHolds, WriteHolds

\* Nothing is decided at first.
LEMMA UnracedInit == Init => UnracedInv
BY DEF Init, UnracedInv, ResolvedHolds, FetchHolds, WriteHolds

\* Who decides leaves raced, who writes puts the others into it.
LEMMA UnracedStep == TypeOK /\ UnracedInv /\ [Next]_vars => UnracedInv'
<1> SUFFICES ASSUME TypeOK, UnracedInv, [Next]_vars
             PROVE  UnracedInv'
  OBVIOUS
<1>1. ASSUME NEW r \in Request, Receive(r)
      PROVE  UnracedInv'
  <2>1. \A q \in Request \ {r} : pc'[q] = pc[q] /\ msg'[q] = msg[q]
    BY <1>1 DEF Receive, Goto, TypeOK
  <2>2. pc'[r] = "received"
    BY <1>1 DEF Receive, Goto, TypeOK
  <2> QED
    BY <1>1, <2>1, <2>2, UnracedFrame DEF Receive
<1>2. ASSUME NEW r \in Request,
             \/ RefuseUnknownSegment(r) \/ NoRoute(r) \/ FetchObject(r)
             \/ RejectPut(r) \/ UnreadableConnect(r) \/ FailConnect(r)
      PROVE  UnracedInv'
  BY <1>2, UnracedAnswer
     DEF RefuseUnknownSegment, NoRoute, FetchObject, RejectPut, UnreadableConnect, FailConnect
<1>3. ASSUME NEW r \in Request, AuthorizeObjectRead(r)
      PROVE  UnracedInv'
  <2>1. CASE /\ ReadAllowed(store, CallerOf(msg[r]), msg[r].object)
             /\ Decide(r, "fetch") /\ UNCHANGED target
    <3>1. UNCHANGED <<store, msg>> /\ pc'[r] = "fetch"
      BY <2>1 DEF Decide, Goto, TypeOK
    <3>2. store[ObjectSlot(msg[r].object)] # None
      BY <2>1 DEF ReadAllowed
    <3>3. (ResolvedHolds(r) /\ FetchHolds(r) /\ WriteHolds(r))'
      BY <2>1, <3>1, <3>2 DEF ResolvedHolds, FetchHolds, WriteHolds
    <3> QED
      BY <2>1, <3>3, UnracedDecide
  <2> QED
    BY <1>3, <2>1, UnracedAnswer DEF AuthorizeObjectRead
<1>4. ASSUME NEW r \in Request, AuthorizePut(r)
      PROVE  UnracedInv'
  <2> DEFINE t == TargetOf(msg[r].slot, msg[r].value)
  <2>1. CASE /\ WriteAllowed(store, CallerOf(msg[r]), t)
             /\ Decide(r, "write")
             /\ target' = [target EXCEPT ![r] = t]
    <3> HIDE DEF t
    <3>1. /\ UNCHANGED <<store, msg>> /\ pc'[r] = "write" /\ target'[r] = t
          /\ msg[r].op = "put"
      BY <1>4, <2>1 DEF AuthorizePut, Handling, Decide, Goto, TypeOK
    <3>2. (ResolvedHolds(r) /\ FetchHolds(r) /\ WriteHolds(r))'
      BY <2>1, <3>1 DEF ResolvedHolds, FetchHolds, WriteHolds
    <3>3. \A q \in Request \ {r} : target'[q] = target[q]
      BY <2>1 DEF TypeOK
    <3> QED
      BY <2>1, <3>2, <3>3, UnracedDecide
  <2> QED
    BY <1>4, <2>1, UnracedAnswer DEF AuthorizePut
<1>5. ASSUME NEW r \in Request, ResolveDelete(r)
      PROVE  UnracedInv'
  <2> DEFINE t == TargetOf(msg[r].slot, store[msg[r].slot])
  <2>1. CASE Decide(r, "authorize") /\ target' = [target EXCEPT ![r] = t]
    <3>1. /\ UNCHANGED <<store, msg>> /\ pc'[r] = "authorize" /\ target'[r] = t
          /\ \A q \in Request \ {r} : target'[q] = target[q]
      BY <2>1 DEF Decide, Goto, TypeOK
    <3>2. (ResolvedHolds(r) /\ FetchHolds(r) /\ WriteHolds(r))'
      BY <3>1 DEF ResolvedHolds, FetchHolds, WriteHolds
    <3> QED
      BY <2>1, <3>1, <3>2, UnracedDecide
  <2> QED
    BY <1>5, <2>1, UnracedAnswer DEF ResolveDelete
<1>6. ASSUME NEW r \in Request, AuthorizeDelete(r)
      PROVE  UnracedInv'
  <2>1. CASE /\ WriteAllowed(store, CallerOf(msg[r]), target[r])
             /\ Goto(r, "write")
             /\ UNCHANGED <<store, msg, target, raced>>
    <3>1. /\ pc[r] = "authorize" /\ pc'[r] = "write"
          /\ \A q \in Request \ {r} : pc'[q] = pc[q]
      BY <1>6, <2>1 DEF AuthorizeDelete, Goto, TypeOK
    <3> QED
      BY <2>1, <3>1 DEF UnracedInv, ResolvedHolds, FetchHolds, WriteHolds
  <2> QED
    BY <1>6, <2>1, UnracedAnswer DEF AuthorizeDelete
<1>7. ASSUME NEW r \in Request, ApplyPut(r) \/ ApplyDelete(r)
      PROVE  UnracedInv'
  BY <1>7, UnracedWrite, UnracedAnswer DEF ApplyPut, ApplyDelete
<1>8. ASSUME NEW r \in Request, RecordChange(r) \/ FinishConnect(r)
      PROVE  UnracedInv'
  BY <1>8, UnracedFrame DEF RecordChange, FinishConnect, Answer, Goto, TypeOK
<1>9. ASSUME NEW r \in Request, AuthorizeConnect(r)
      PROVE  UnracedInv'
  <2>1. CASE Decide(r, "forward") /\ UNCHANGED target
    BY <2>1, UnracedFrame DEF Decide, Goto, TypeOK
  <2> QED
    BY <1>9, <2>1, UnracedAnswer DEF AuthorizeConnect
<1>10. ASSUME NEW r \in Request, WorkloadHandle(r) \/ WorkloadMiss(r)
       PROVE  UnracedInv'
  BY <1>10, UnracedFrame DEF WorkloadHandle, WorkloadMiss
<1>11. CASE UNCHANGED vars
  BY <1>11, UnracedFrame DEF vars, handlerVars
<1> QED
  BY <1>1, <1>2, <1>3, <1>4, <1>5, <1>6, <1>7, <1>8, <1>9, <1>10, <1>11 DEF Next, Handler

\* Only a write of another request between a handler's decision and its use can
\* make the decision stale, for any number of handlers (getObject, putResource,
\* deleteResource).
THEOREM UnracedTheorem == Spec => []UnracedDecisionsHold
<1>1. TypeOK /\ UnracedInv /\ [Next]_vars => (TypeOK /\ UnracedInv)'
  BY TypeStep, UnracedStep
<1>2. UnracedInv => UnracedDecisionsHold
  BY DEF UnracedInv, UnracedDecisionsHold, ResolvedHolds, FetchHolds, WriteHolds
<1> QED
  BY TypeInit, UnracedInit, <1>1, <1>2, PTL DEF Spec

-----------------------------------------------------------------------------
(* The handlers implement ChangeLedger: a write, and a transition handled  *)
(* while somebody still waits for its answer, is the abstract Change; the  *)
(* row is Commit; the answer that never comes is Lose; nothing else shows. *)

\* The refinement mapping of Promise.
Due == [r \in Request |-> IF Unrecorded(r) THEN RowContent(msg[r]) ELSE None]

\* What the ledger will say of a change says something.
LEMMA RowIsSome ==
  ASSUME NEW m \in Submissions, m.op # "read"
  PROVE  RowContent(m) # None
<1>1. RowOf(m, 1) \in LedgerEntry
  BY RowType
<1>2. RowContent(m) \in Row
  BY <1>1 DEF RowOf, LedgerEntry
<1> QED
  BY <1>2, NoneAssumption

\* The abstract ledger sees what is still to be recorded.
LEMMA UnrecordedIsSome ==
  ASSUME TypeOK, NEW r \in Request, Unrecorded(r)
  PROVE  Due[r] = RowContent(msg[r]) /\ Due[r] # None
<1>1. msg[r] \in Submissions /\ msg[r].op # "read"
  BY DEF TypeOK, Unrecorded
<1> QED
  BY <1>1, RowIsSome DEF Due

\* Steps the abstract ledger does not see.
LEMMA PromiseFrame ==
  ASSUME UNCHANGED ledger,
         \A q \in Request : Unrecorded(q)' = Unrecorded(q),
         \A q \in Request : Unrecorded(q) => msg'[q] = msg[q]
  PROVE  UNCHANGED <<ledger, Due>>
<1>1. \A q \in Request : (IF Unrecorded(q) THEN RowContent(msg[q]) ELSE None)'
                          = (IF Unrecorded(q) THEN RowContent(msg[q]) ELSE None)
  OBVIOUS
<1> QED
  BY <1>1 DEF Due

\* Only r's own change, and the row of it, can differ after a step of r.
LEMMA DueExcept ==
  ASSUME NEW r \in Request, UNCHANGED msg,
         \A q \in Request \ {r} : Unrecorded(q)' = Unrecorded(q)
  PROVE  Due' = [Due EXCEPT ![r] = Due'[r]]
<1>1. \A q \in Request \ {r} : Due'[q] = Due[q]
  BY DEF Due
<1> QED
  BY <1>1 DEF Due

\* A step after which r owes a row.
LEMMA PromiseChange ==
  ASSUME TypeOK', NEW r \in Request, ~Unrecorded(r), Unrecorded(r)',
         UNCHANGED <<ledger, msg>>,
         \A q \in Request \ {r} : Unrecorded(q)' = Unrecorded(q)
  PROVE  Promise!Change(r)
<1>1. Due[r] = None
  BY DEF Due
<1>2. Due'[r] # None
  <2>1. msg'[r] \in Submissions /\ msg'[r].op # "read"
    BY DEF TypeOK, Unrecorded
  <2> QED
    BY <2>1, RowIsSome DEF Due
<1>3. Due' = [Due EXCEPT ![r] = Due'[r]]
  BY DueExcept
<1> QED
  BY <1>1, <1>2, <1>3 DEF Promise!Change, Due

\* A step that writes the row r owed.
LEMMA PromiseCommit ==
  ASSUME TypeOK, LedgerInv, NEW r \in Request, Unrecorded(r), ~Unrecorded(r)', Record(r),
         UNCHANGED msg,
         \A q \in Request \ {r} : Unrecorded(q)' = Unrecorded(q)
  PROVE  Promise!Commit(r)
<1>1. Due[r] = RowContent(msg[r]) /\ Due[r] # None
  BY UnrecordedIsSome
<1>2. Due'[r] = None
  BY DEF Due
<1>3. Due' = [Due EXCEPT ![r] = None]
  BY <1>2, DueExcept
<1>4. ledger' = Append(ledger, [seq |-> Len(ledger) + 1, row |-> Due[r]])
  BY <1>1 DEF Record, RowOf, LedgerInv, LedgerAttribution
<1> QED
  BY <1>1, <1>3, <1>4 DEF Promise!Commit, Due

\* A step that gives up the answer that would have announced a change.
LEMMA PromiseLose ==
  ASSUME TypeOK, NEW r \in Request, Unrecorded(r), ~Unrecorded(r)', msg[r].op = "connect",
         UNCHANGED <<ledger, msg>>,
         \A q \in Request \ {r} : Unrecorded(q)' = Unrecorded(q)
  PROVE  Promise!Lose(r)
<1>1. Due[r] = RowContent(msg[r]) /\ Due[r] # None
  BY UnrecordedIsSome
<1>2. Due[r].action = "workload.change"
  BY <1>1 DEF RowContent, RowAction
<1>3. Due'[r] = None
  BY DEF Due
<1>4. Due' = [Due EXCEPT ![r] = None]
  BY <1>3, DueExcept
<1> QED
  BY <1>1, <1>2, <1>4 DEF Promise!Lose, Due

\* The initial states map to initial states.
LEMMA PromiseInit == Init => Promise!Init
BY DEF Init, Promise!Init, Unrecorded

\* A handler that owes no row and goes on without one.
LEMMA PromiseQuiet ==
  ASSUME TypeOK, NEW r \in Request, ~Unrecorded(r), ~Unrecorded(r)', UNCHANGED ledger,
         \A q \in Request \ {r} :
           pc'[q] = pc[q] /\ wire'[q] = wire[q] /\ msg'[q] = msg[q]
  PROVE  UNCHANGED <<ledger, Due>>
<1>1. \A q \in Request \ {r} : Unrecorded(q)' = Unrecorded(q)
  BY DEF Unrecorded
<1>2. Unrecorded(r)' = Unrecorded(r)
  BY DEF Unrecorded
<1> QED
  BY <1>1, <1>2, PromiseFrame

\* An answer of a handler that owes no row.
LEMMA PromiseAnswer ==
  ASSUME TypeOK, NEW r \in Request, ~Unrecorded(r),
         Refuse(r) \/ \E status : Plain(r, status)
  PROVE  UNCHANGED <<ledger, Due>>
<1>1. /\ pc' = [pc EXCEPT ![r] = "done"]
      /\ UNCHANGED <<ledger, msg, wire>>
  BY DEF Refuse, Plain, Answer, Goto
<1>2. ~Unrecorded(r)'
  BY <1>1 DEF Unrecorded, TypeOK
<1> QED
  BY <1>1, <1>2, PromiseQuiet DEF TypeOK

\* Every step maps to a step of the abstract ledger or to a stutter.
LEMMA PromiseStep ==
  TypeOK /\ TypeOK' /\ LedgerInv /\ [Next]_vars => [Promise!Next]_<<ledger, Due>>
<1> SUFFICES ASSUME TypeOK, TypeOK', LedgerInv, [Next]_vars
             PROVE  Promise!Next \/ UNCHANGED <<ledger, Due>>
  OBVIOUS
<1>1. ASSUME NEW r \in Request, Receive(r)
      PROVE  UNCHANGED <<ledger, Due>>
  <2>1. /\ pc[r] = "idle" /\ pc'[r] = "received"
        /\ \A q \in Request \ {r} : pc'[q] = pc[q] /\ msg'[q] = msg[q]
        /\ UNCHANGED <<ledger, wire>>
    BY <1>1 DEF Receive, Goto, TypeOK
  <2> QED
    BY <2>1, PromiseQuiet DEF Unrecorded
<1>2. ASSUME NEW r \in Request,
             \/ RefuseUnknownSegment(r) \/ NoRoute(r) \/ FetchObject(r)
             \/ RejectPut(r) \/ UnreadableConnect(r)
      PROVE  UNCHANGED <<ledger, Due>>
  <2>1. ~Unrecorded(r)
    BY <1>2 DEF RefuseUnknownSegment, NoRoute, FetchObject, RejectPut, UnreadableConnect,
                Handling, Unrecorded
  <2> QED
    BY <1>2, <2>1, PromiseAnswer
       DEF RefuseUnknownSegment, NoRoute, FetchObject, RejectPut, UnreadableConnect
<1>3. ASSUME NEW r \in Request,
             AuthorizeObjectRead(r) \/ AuthorizePut(r) \/ ResolveDelete(r) \/ AuthorizeConnect(r)
      PROVE  UNCHANGED <<ledger, Due>>
  <2>1. pc[r] = "received"
    BY <1>3 DEF AuthorizeObjectRead, AuthorizePut, ResolveDelete, AuthorizeConnect, Handling
  <2>2. ASSUME NEW label \in {"fetch", "write", "authorize", "forward"}, Decide(r, label),
               UNCHANGED wire \/ wire' = [wire EXCEPT ![r] = "sent"],
               label # "forward" \/ wire'[r] = "sent"
        PROVE  UNCHANGED <<ledger, Due>>
    <3>1. ~Unrecorded(r) /\ ~Unrecorded(r)'
      BY <2>1, <2>2 DEF Decide, Goto, TypeOK, Unrecorded
    <3> QED
      BY <2>2, <3>1, PromiseQuiet DEF Decide, Goto, TypeOK
  <2>3. Refuse(r) => UNCHANGED <<ledger, Due>>
    BY <2>1, PromiseAnswer DEF Unrecorded
  <2>4. CASE AuthorizeConnect(r) /\ ~Refuse(r)
    <3>1. Decide(r, "forward") /\ wire' = [wire EXCEPT ![r] = "sent"]
      BY <2>4 DEF AuthorizeConnect
    <3> QED
      BY <2>2, <3>1 DEF TypeOK
  <2>5. CASE ~AuthorizeConnect(r) /\ ~Refuse(r)
    <3>1. \E label \in {"fetch", "write", "authorize"} : Decide(r, label) /\ UNCHANGED wire
      BY <1>3, <2>5 DEF AuthorizeObjectRead, AuthorizePut, ResolveDelete
    <3> QED
      BY <2>2, <3>1
  <2> QED
    BY <2>3, <2>4, <2>5
<1>4. ASSUME NEW r \in Request, AuthorizeDelete(r)
      PROVE  UNCHANGED <<ledger, Due>>
  <2>1. ~Unrecorded(r)
    BY <1>4 DEF AuthorizeDelete, Unrecorded
  <2>2. CASE Goto(r, "write") /\ UNCHANGED <<ledger, msg, wire>>
    BY <2>1, <2>2, PromiseQuiet DEF Goto, Unrecorded, TypeOK
  <2> QED
    BY <1>4, <2>1, <2>2, PromiseAnswer DEF AuthorizeDelete
<1>5. ASSUME NEW r \in Request, ApplyPut(r) \/ ApplyDelete(r)
      PROVE  Promise!Next \/ UNCHANGED <<ledger, Due>>
  <2>1. pc[r] = "write" /\ ~Unrecorded(r)
    BY <1>5 DEF ApplyPut, ApplyDelete, Unrecorded
  <2>2. ASSUME NEW slot, NEW v, Write(r, slot, v)
        PROVE  Promise!Next
    <3>1. /\ pc' = [pc EXCEPT ![r] = "record"]
          /\ UNCHANGED <<ledger, msg, wire>>
      BY <2>2 DEF Write, Goto
    <3>2. Unrecorded(r)' /\ \A q \in Request \ {r} : Unrecorded(q)' = Unrecorded(q)
      BY <3>1 DEF Unrecorded, TypeOK
    <3> QED
      BY <2>1, <3>1, <3>2, PromiseChange DEF Promise!Next
  <2> QED
    BY <1>5, <2>1, <2>2, PromiseAnswer DEF ApplyPut, ApplyDelete
<1>6. ASSUME NEW r \in Request, RecordChange(r)
      PROVE  Promise!Next
  <2>1. /\ pc[r] = "record" /\ pc' = [pc EXCEPT ![r] = "done"]
        /\ Record(r) /\ UNCHANGED <<msg, wire>>
    BY <1>6 DEF RecordChange, Answer, Goto
  <2>2. /\ Unrecorded(r) /\ ~Unrecorded(r)'
        /\ \A q \in Request \ {r} : Unrecorded(q)' = Unrecorded(q)
    BY <2>1 DEF Unrecorded, TypeOK
  <2> QED
    BY <2>1, <2>2, PromiseCommit DEF Promise!Next
<1>7. ASSUME NEW r \in Request, FinishConnect(r) \/ FailConnect(r)
      PROVE  Promise!Next \/ UNCHANGED <<ledger, Due>>
  <2>1. /\ pc[r] = "forward" /\ pc' = [pc EXCEPT ![r] = "done"]
        /\ UNCHANGED <<msg, wire>>
        /\ msg[r].op = "connect"
    BY <1>7 DEF FinishConnect, FailConnect, Plain, Answer, Goto, TypeOK
  <2>2. /\ ~Unrecorded(r)'
        /\ \A q \in Request \ {r} : Unrecorded(q)' = Unrecorded(q)
    BY <2>1 DEF Unrecorded, TypeOK
  <2>3. CASE Unrecorded(r) /\ FinishConnect(r)
    <3>1. Record(r)
      BY <2>1, <2>3 DEF Unrecorded, FinishConnect, IsTransition
    <3> QED
      BY <2>1, <2>2, <2>3, <3>1, PromiseCommit DEF Promise!Next
  <2>4. CASE Unrecorded(r) /\ FailConnect(r)
    BY <2>1, <2>2, <2>4, PromiseLose DEF Promise!Next, FailConnect, Plain
  <2>5. CASE ~Unrecorded(r)
    <3>1. UNCHANGED ledger
      BY <1>7, <2>1, <2>5 DEF Unrecorded, FinishConnect, FailConnect, Plain
    <3> QED
      BY <2>1, <2>2, <2>5, <3>1, PromiseQuiet DEF TypeOK
  <2> QED
    BY <1>7, <2>3, <2>4, <2>5
<1>8. ASSUME NEW r \in Request, WorkloadHandle(r)
      PROVE  Promise!Next \/ UNCHANGED <<ledger, Due>>
  <2>1. /\ wire[r] = "sent" /\ wire' = [wire EXCEPT ![r] = "handled"]
        /\ UNCHANGED <<ledger, pc, msg>>
        /\ msg[r].op = "connect"
    BY <1>8 DEF WorkloadHandle, TypeOK
  <2>2. \A q \in Request \ {r} : Unrecorded(q)' = Unrecorded(q)
    BY <2>1 DEF Unrecorded, IsTransition, TypeOK
  <2>3. ~Unrecorded(r)
    BY <2>1 DEF Unrecorded, TypeOK
  <2>4. CASE Unrecorded(r)'
    BY <2>1, <2>2, <2>3, <2>4, PromiseChange DEF Promise!Next
  <2>5. CASE ~Unrecorded(r)'
    BY <2>1, <2>3, <2>5, PromiseQuiet DEF TypeOK
  <2> QED
    BY <2>4, <2>5
<1>9. ASSUME NEW r \in Request, WorkloadMiss(r)
      PROVE  UNCHANGED <<ledger, Due>>
  <2>1. /\ wire[r] = "sent" /\ wire' = [wire EXCEPT ![r] = "lost"]
        /\ UNCHANGED <<ledger, pc, msg>>
        /\ msg[r].op = "connect"
    BY <1>9 DEF WorkloadMiss, TypeOK
  <2>2. ~Unrecorded(r) /\ ~Unrecorded(r)'
    BY <2>1 DEF Unrecorded, TypeOK
  <2> QED
    BY <2>1, <2>2, PromiseQuiet DEF TypeOK
<1>10. CASE UNCHANGED vars
  <2>1. \A q \in Request : Unrecorded(q)' = Unrecorded(q)
    BY <1>10 DEF vars, handlerVars, Unrecorded, IsTransition
  <2> QED
    BY <1>10, <2>1, PromiseFrame DEF vars, handlerVars
<1> QED
  BY <1>1, <1>2, <1>3, <1>4, <1>5, <1>6, <1>7, <1>8, <1>9, <1>10 DEF Next, Handler

\* The store and its handlers, with any number of requests in progress, give
\* every resource change its own unaltered row and can lose only a change
\* inside a workload (putResource, deleteResource, connect, Store.Record).
THEOREM PromiseTheorem == Spec => LedgerPromise
<1>1. TypeOK /\ LedgerInv /\ [Next]_vars => (TypeOK /\ LedgerInv)'
  BY TypeStep, LedgerStep
<1>2. TypeOK /\ TypeOK' /\ LedgerInv /\ [Next]_vars
        => [Promise!Next]_<<ledger, [r \in Request |-> IF Unrecorded(r) THEN RowContent(msg[r]) ELSE None]>>
  BY PromiseStep DEF Due
<1> QED
  BY TypeInit, LedgerInit, PromiseInit, <1>1, <1>2, PTL DEF Spec, LedgerPromise, Promise!Spec
=============================================================================
