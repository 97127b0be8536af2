---------------------------- MODULE ControlPlane ----------------------------
(***************************************************************************)
(* The democloud control plane while it serves requests concurrently: the  *)
(* store (internal/platform/store.go), the request handlers of the two     *)
(* listeners (internal/api/server.go) and the workload behind the network  *)
(* fabric (cmd/fare-engine).                                               *)
(*                                                                         *)
(* Each method of the store is one critical section of its RWMutex, so a   *)
(* handler that calls several of them is several steps here: other         *)
(* requests run between the snapshot a handler authorized against, the     *)
(* write it then does, and the ledger row it appends.                      *)
(***************************************************************************)
EXTENDS Authz, FiniteSets

CONSTANTS
  Request,       \* requests served; each is one goroutine of net/http
  Name,          \* what X-Democloud-Principal may say
  Submissions,   \* the requests clients may send
  InitialStore,  \* the configuration the store was seeded with
  AdminPort      \* [workload, port] on which fare-engine's admin surface listens

FareCap == {250, 400}

ReadMsg == [op : {"read"}, listener : {"corp", "edge"}, asserted : Name \cup {None},
            addr : Addr, object : ObjectId]
ConnectMsg == [op : {"connect"}, listener : {"corp", "edge"}, asserted : Name \cup {None},
               addr : Addr, workload : WorkloadName, port : PortName,
               method : {"GET", "POST"}, path : {"status", "fare-cap"}]
\* form: the body decodes and names a resource, is not valid JSON, misses the
\* resource its kind announces, or carries undecodable base64.
PutMsg == [op : {"put"}, listener : {"corp", "edge"}, asserted : Name \cup {None},
           addr : Addr, form : {"ok", "not_json", "no_target", "not_base64"},
           slot : Slot, value : Resource]
DeleteMsg == [op : {"delete"}, listener : {"corp", "edge"}, asserted : Name \cup {None},
              addr : Addr, slot : Slot]

Message == ReadMsg \cup ConnectMsg \cup PutMsg \cup DeleteMsg

\* What the rows of the ledger say.
Row ==
  [action    : {"resource.put", "resource.delete", "workload.change"},
   resource  : Slot \cup [workload : WorkloadName, port : PortName],
   principal : Principal \cup {Anonymous},
   segment   : {Segments[i].name : i \in DOMAIN Segments} \cup {None}]

ASSUME NameAssumption == Principal \subseteq Name /\ None \notin Name
ASSUME NoneAssumption ==
  None \notin Resource \cup Message \cup Row \cup Target \cup Principal \cup {Anonymous}
ASSUME SubmissionsAssumption ==
  /\ Submissions \subseteq Message
  /\ \A m \in Submissions :
       m.op = "put" /\ m.form \in {"ok", "not_base64"} => m.value \in ValueOf(m.slot.kind)
ASSUME InitialStoreAssumption == IsState(InitialStore)

VARIABLES
  store,    \* the resource in each slot
  ledger,   \* the change ledger
  seq,      \* Store.seq, the last sequence number given out
  audit,    \* Server.seq, the number of refusals audited
  fareCap,  \* the state of the fare engine
  pc,       \* where each handler is
  msg,      \* the request each handler serves
  target,   \* deleteResource: what targetOfExisting found
  wire,     \* connect: how far the forwarded request got
  reply,    \* what the client was answered
  entry,    \* the sequence number of the row a handler recorded, 0 before
  raced     \* (history) handlers that decided, and then another one wrote

handlerVars == <<pc, msg, target, wire, reply, entry>>
vars == <<store, ledger, seq, audit, fareCap, handlerVars, raced>>

-----------------------------------------------------------------------------
\* withCaller: an asserted principal counts only on the corporate listener and
\* only if it is declared; the segment is the platform's own classification.
CallerOf(m) ==
  [principal |-> IF m.listener = "corp" /\ m.asserted \in Principal
                 THEN m.asserted ELSE Anonymous,
   segment   |-> SegmentName(m.addr),
   addr      |-> m.addr]

\* targetOf and the fixed part of targetOfExisting: buckets and workloads stand
\* for themselves, an object for its bucket.
IsFixed(slot) == slot.kind \in {"bucket", "object", "workload"}
FixedTarget(slot) ==
  CASE slot.kind = "bucket"   -> BucketTarget(slot.id)
    [] slot.kind = "object"   -> BucketTarget(slot.id.bucket)
    [] slot.kind = "workload" -> WorkloadTarget(slot.id)

\* A grant and a network rule stand for the resource they apply to.
TargetOf(slot, value) ==
  CASE IsFixed(slot)                -> FixedTarget(slot)
    [] slot.kind = "grant"          -> value.target
    [] slot.kind = "network_rule"   -> WorkloadTarget(value.workload)

RowResource(m) ==
  IF m.op = "connect" THEN [workload |-> m.workload, port |-> m.port] ELSE m.slot
RowAction(m) ==
  CASE m.op = "put"     -> "resource.put"
    [] m.op = "delete"  -> "resource.delete"
    [] m.op = "connect" -> "workload.change"

\* What the ledger says of the change a request makes, and the nth row.
RowContent(m) == [action    |-> RowAction(m),
                  resource  |-> RowResource(m),
                  principal |-> CallerOf(m).principal,
                  segment   |-> CallerOf(m).segment]
RowOf(m, n) == [seq |-> n, row |-> RowContent(m)]

LedgerEntry == [seq : Nat \ {0}, row : Row]

\* The one request the fare engine answers with X-Democloud-Change.
IsTransition(m) ==
  /\ m.op = "connect"
  /\ [workload |-> m.workload, port |-> m.port] = AdminPort
  /\ m.method = "POST"
  /\ m.path = "fare-cap"

Init ==
  /\ store = InitialStore
  /\ ledger = <<>>
  /\ seq = 0
  /\ audit = 0
  /\ fareCap = 250
  /\ pc = [r \in Request |-> "idle"]
  /\ msg = [r \in Request |-> None]
  /\ target = [r \in Request |-> None]
  /\ wire = [r \in Request |-> "none"]
  /\ reply = [r \in Request |-> "none"]
  /\ entry = [r \in Request |-> 0]
  /\ raced = {}

-----------------------------------------------------------------------------
Goto(r, label) == pc' = [pc EXCEPT ![r] = label]

Answer(r, status) ==
  /\ Goto(r, "done")
  /\ reply' = [reply EXCEPT ![r] = status]
  /\ raced' = raced \ {r}

\* refuse: one generic answer, one audit event; nothing else changes.
Refuse(r) ==
  /\ Answer(r, "refused")
  /\ audit' = audit + 1
  /\ UNCHANGED <<store, ledger, seq, fareCap, msg, target, wire, entry>>

\* An answer that is no refusal and changes nothing.
Plain(r, status) ==
  /\ Answer(r, status)
  /\ UNCHANGED <<store, ledger, seq, audit, fareCap, msg, target, wire, entry>>

\* A handler that holds a decision no other write has yet overtaken.
Decide(r, label) ==
  /\ Goto(r, label)
  /\ raced' = raced \ {r}
  /\ UNCHANGED <<store, ledger, seq, audit, fareCap, msg, reply, entry>>

\* One critical section of the store that changes a slot.
Write(r, slot, value) ==
  /\ store' = [store EXCEPT ![slot] = value]
  /\ raced' = raced \cup {q \in Request \ {r} : pc[q] \in {"fetch", "authorize", "write"}}
  /\ Goto(r, "record")
  /\ UNCHANGED <<ledger, seq, audit, fareCap, msg, target, wire, reply, entry>>

\* Mutant: rows are numbered by a counter nobody advances.
RecordUnnumbered(r) ==
  /\ UNCHANGED seq
  /\ ledger' = Append(ledger, RowOf(msg[r], seq + 1))
  /\ entry' = [entry EXCEPT ![r] = seq + 1]

\* Record: the next sequence number and one row, in one critical section.
Record(r) ==
  /\ seq' = seq + 1
  /\ ledger' = Append(ledger, RowOf(msg[r], seq + 1))
  /\ entry' = [entry EXCEPT ![r] = seq + 1]

-----------------------------------------------------------------------------
(* Arrival.                                                                *)

Receive(r) ==
  /\ pc[r] = "idle"
  /\ \E m \in Submissions : msg' = [msg EXCEPT ![r] = m]
  /\ Goto(r, "received")
  /\ UNCHANGED <<store, ledger, seq, audit, fareCap, target, wire, reply, entry, raced>>

\* A source address in no declared segment is refused before it is routed.
RefuseUnknownSegment(r) ==
  /\ pc[r] = "received"
  /\ CallerOf(msg[r]).segment = None
  /\ Refuse(r)

\* The edge carries no typed resource operation: its mux answers 404.
NoRoute(r) ==
  /\ pc[r] = "received"
  /\ CallerOf(msg[r]).segment # None
  /\ msg[r].listener = "edge" /\ msg[r].op \in {"put", "delete"}
  /\ Plain(r, "no_route")

\* The handler of an operation has started.
Handling(r, op) ==
  /\ pc[r] = "received"
  /\ msg[r].op = op
  /\ CallerOf(msg[r]).segment # None
  /\ msg[r].listener = "corp" \/ op \in {"read", "connect"}

-----------------------------------------------------------------------------
(* getObject: a decision over one snapshot, then a second look at the      *)
(* store for the object itself.                                            *)

AuthorizeObjectRead(r) ==
  /\ Handling(r, "read")
  /\ IF ReadAllowed(store, CallerOf(msg[r]), msg[r].object)
     THEN Decide(r, "fetch") /\ UNCHANGED <<target, wire>>
     ELSE Refuse(r)

FetchObject(r) ==
  /\ pc[r] = "fetch"
  /\ IF store[ObjectSlot(msg[r].object)] # None
     THEN Plain(r, "ok")
     ELSE Refuse(r)

-----------------------------------------------------------------------------
(* putResource and deleteResource: decide, write, record.                  *)

RejectPut(r) ==
  /\ Handling(r, "put")
  /\ \/ msg[r].form = "not_json" /\ Plain(r, "bad_request")
     \/ msg[r].form = "no_target" /\ Refuse(r)

\* Mutant: whoever is in a segment may put.
AuthorizePutUnchecked(r) ==
  /\ Handling(r, "put")
  /\ msg[r].form \in {"ok", "not_base64"}
  /\ Decide(r, "write")
  /\ target' = [target EXCEPT ![r] = TargetOf(msg[r].slot, msg[r].value)]
  /\ UNCHANGED wire

\* Mutant: a put over an existing resource is authorized against what it
\* replaces, not against what it brings.
AuthorizePutOfReplaced(r) ==
  LET old == store[msg[r].slot]
      t   == TargetOf(msg[r].slot, IF old = None THEN msg[r].value ELSE old)
  IN /\ Handling(r, "put")
     /\ msg[r].form \in {"ok", "not_base64"}
     /\ IF WriteAllowed(store, CallerOf(msg[r]), t)
        THEN /\ Decide(r, "write")
             /\ target' = [target EXCEPT ![r] = t]
             /\ UNCHANGED wire
        ELSE Refuse(r)

\* Mutant: the decision forgets what it was about.
AuthorizePutForgetful(r) ==
  /\ Handling(r, "put")
  /\ msg[r].form \in {"ok", "not_base64"}
  /\ IF WriteAllowed(store, CallerOf(msg[r]), TargetOf(msg[r].slot, msg[r].value))
     THEN Decide(r, "write") /\ UNCHANGED <<target, wire>>
     ELSE Refuse(r)

AuthorizePut(r) ==
  /\ Handling(r, "put")
  /\ msg[r].form \in {"ok", "not_base64"}
  /\ IF WriteAllowed(store, CallerOf(msg[r]), TargetOf(msg[r].slot, msg[r].value))
     THEN /\ Decide(r, "write")
          /\ target' = [target EXCEPT ![r] = TargetOf(msg[r].slot, msg[r].value)]
          /\ UNCHANGED wire
     ELSE Refuse(r)

\* PutBucket, PutObject, PutGrant, PutWorkload, PutNetworkRule: an upsert by
\* identity, whatever the slot held before.
ApplyPut(r) ==
  /\ pc[r] = "write"
  /\ msg[r].op = "put"
  /\ IF msg[r].form = "ok"
     THEN Write(r, msg[r].slot, msg[r].value)
     ELSE Plain(r, "bad_request")

\* targetOfExisting: only a grant or a rule has to exist to have a target.
ResolveDelete(r) ==
  /\ Handling(r, "delete")
  /\ IF IsFixed(msg[r].slot) \/ store[msg[r].slot] # None
     THEN /\ Decide(r, "authorize")
          /\ target' = [target EXCEPT ![r] = TargetOf(msg[r].slot, store[msg[r].slot])]
          /\ UNCHANGED wire
     ELSE Refuse(r)

\* authorizeWrite takes a snapshot of its own.
AuthorizeDelete(r) ==
  /\ pc[r] = "authorize"
  /\ IF WriteAllowed(store, CallerOf(msg[r]), target[r])
     THEN /\ Goto(r, "write")
          /\ UNCHANGED <<store, ledger, seq, audit, fareCap, msg, target, wire, reply, entry, raced>>
     ELSE Refuse(r)

\* Mutant: the delete that lost a race is answered without an audit event.
ApplyDeleteUnaudited(r) ==
  /\ pc[r] = "write"
  /\ msg[r].op = "delete"
  /\ IF store[msg[r].slot] # None
     THEN Write(r, msg[r].slot, None)
     ELSE Plain(r, "refused")

\* Delete by identity; a slot emptied meanwhile is a refusal.
ApplyDelete(r) ==
  /\ pc[r] = "write"
  /\ msg[r].op = "delete"
  /\ IF store[msg[r].slot] # None
     THEN Write(r, msg[r].slot, None)
     ELSE Refuse(r)

\* Mutant: the row of a resource that has changed again meanwhile is skipped.
RecordChangeIfCurrent(r) ==
  /\ pc[r] = "record"
  /\ IF store[msg[r].slot] = (IF msg[r].op = "put" THEN msg[r].value ELSE None)
     THEN Record(r)
     ELSE UNCHANGED <<ledger, seq, entry>>
  /\ Answer(r, "ok")
  /\ UNCHANGED <<store, audit, fareCap, msg, target, wire>>

RecordChange(r) ==
  /\ pc[r] = "record"
  /\ Record(r)
  /\ Answer(r, "ok")
  /\ UNCHANGED <<store, audit, fareCap, msg, target, wire>>

-----------------------------------------------------------------------------
(* connect: the platform carries the request to the workload, waits for    *)
(* its answer at most three seconds, and records a change the answer       *)
(* announces.  Nothing undoes what the workload did when no answer comes.  *)

AuthorizeConnect(r) ==
  /\ Handling(r, "connect")
  /\ IF ConnectAllowed(store, CallerOf(msg[r]), msg[r].workload, msg[r].port)
     THEN /\ Decide(r, "forward")
          /\ wire' = [wire EXCEPT ![r] = "sent"]
          /\ UNCHANGED target
     ELSE Refuse(r)

\* The body of a permitted request cannot be read to its end: it is not sent.
UnreadableConnect(r) ==
  /\ Handling(r, "connect")
  /\ ConnectAllowed(store, CallerOf(msg[r]), msg[r].workload, msg[r].port)
  /\ Plain(r, "bad_request")

\* The fare engine handles a request under its own mutex, also one the
\* platform has already given up waiting for.
WorkloadHandle(r) ==
  /\ wire[r] = "sent"
  /\ wire' = [wire EXCEPT ![r] = "handled"]
  /\ fareCap' = IF IsTransition(msg[r]) THEN 400 ELSE fareCap
  /\ UNCHANGED <<store, ledger, seq, audit, pc, msg, target, reply, entry, raced>>

\* The dial fails or the connection breaks before the workload reads it.
WorkloadMiss(r) ==
  /\ wire[r] = "sent"
  /\ wire' = [wire EXCEPT ![r] = "lost"]
  /\ UNCHANGED <<store, ledger, seq, audit, fareCap, pc, msg, target, reply, entry, raced>>

\* Mutant: the row is written when the request is forwarded.
FinishConnectEarly(r) ==
  /\ pc[r] = "forward"
  /\ wire[r] \in {"sent", "handled"}
  /\ Answer(r, "ok")
  /\ IF IsTransition(msg[r]) /\ msg[r].method # "GET"
     THEN Record(r)
     ELSE UNCHANGED <<ledger, seq, entry>>
  /\ UNCHANGED <<store, audit, fareCap, msg, target, wire>>

\* X-Democloud-Change on a successful answer to a request that may change.
FinishConnect(r) ==
  /\ pc[r] = "forward"
  /\ wire[r] = "handled"
  /\ Answer(r, "ok")
  /\ IF IsTransition(msg[r]) /\ msg[r].method # "GET"
     THEN Record(r)
     ELSE UNCHANGED <<ledger, seq, entry>>
  /\ UNCHANGED <<store, audit, fareCap, msg, target, wire>>

\* Mutant: the proxy client has no timeout.
FailConnectPatient(r) ==
  /\ pc[r] = "forward"
  /\ wire[r] = "lost"
  /\ Plain(r, "unreachable")

\* No answer within the client's timeout, or an answer lost on the way.
FailConnect(r) ==
  /\ pc[r] = "forward"
  /\ Plain(r, "unreachable")

-----------------------------------------------------------------------------
Handler(r) ==
  \/ RefuseUnknownSegment(r) \/ NoRoute(r)
  \/ AuthorizeObjectRead(r) \/ FetchObject(r)
  \/ RejectPut(r) \/ AuthorizePut(r) \/ ApplyPut(r)
  \/ ResolveDelete(r) \/ AuthorizeDelete(r) \/ ApplyDelete(r)
  \/ RecordChange(r)
  \/ AuthorizeConnect(r) \/ UnreadableConnect(r)
  \/ FinishConnect(r) \/ FailConnect(r)

Next ==
  \E r \in Request : Receive(r) \/ Handler(r) \/ WorkloadHandle(r) \/ WorkloadMiss(r)

Spec == Init /\ [][Next]_vars

\* A started goroutine is scheduled, the store's mutex is held for a bounded
\* time only, and the proxy client has a timeout: every handler goes on.
FairSpec == Spec /\ \A r \in Request : WF_vars(Handler(r))
-----------------------------------------------------------------------------
(* Properties.                                                             *)

Labels == {"idle", "received", "fetch", "authorize", "write", "record", "forward", "done"}
Replies == {"none", "ok", "refused", "bad_request", "no_route", "unreachable"}

\* Type invariant: what each variable holds, and which fields a handler at
\* each of its steps has already filled in.
TypeOK ==
  /\ IsState(store)
  /\ ledger \in Seq(LedgerEntry)
  /\ seq \in Nat
  /\ audit \in Nat
  /\ fareCap \in FareCap
  /\ pc \in [Request -> Labels]
  /\ msg \in [Request -> Submissions \cup {None}]
  /\ target \in [Request -> Target \cup {None}]
  /\ wire \in [Request -> {"none", "sent", "handled", "lost"}]
  /\ reply \in [Request -> Replies]
  /\ entry \in [Request -> Nat]
  /\ raced \subseteq Request
  /\ \A r \in Request :
       /\ pc[r] # "idle" => msg[r] # None
       /\ pc[r] = "fetch" => msg[r].op = "read"
       /\ pc[r] = "authorize" => msg[r].op = "delete"
       /\ pc[r] \in {"write", "record"} => msg[r].op \in {"put", "delete"}
       /\ pc[r] \in {"authorize", "write"} => target[r] \in Target
       /\ pc[r] = "forward" \/ wire[r] # "none" => pc[r] # "idle" /\ msg[r].op = "connect"

\* The deployer's scope: what some write grant of the seed applies to.
Scope == {t \in Target : GrantsOn(InitialStore, t, "write") # {}}

\* No sequence or interleaving of requests makes a write grant on a resource
\* outside the seeded scope, although whoever may write a resource may also
\* put and move grants on it (fixtures.Bootstrap: the deployment principal
\* cannot widen its own permissions; putResource, deleteResource).
ScopeBounded ==
  \A t \in Target : GrantsOn(store, t, "write") # {} => t \in Scope

\* Buckets, objects and workloads outside the seeded scope are as seeded,
\* whatever was authorized against which snapshot in between
\* (Bootstrap: changes "to exactly the fixture resources").
OutOfScopeUntouched ==
  \A s \in Slot :
    IsFixed(s) /\ FixedTarget(s) \notin Scope => store[s] = InitialStore[s]

\* What makes the two inductive: a handler about to write holds a target in
\* the scope, and that target is the one its write bears on.
DecisionsInScope ==
  \A r \in Request :
    /\ pc[r] = "write" => target[r] \in Scope
    /\ pc[r] = "write" /\ msg[r].op = "put" => target[r] = TargetOf(msg[r].slot, msg[r].value)
    /\ pc[r] \in {"authorize", "write"} /\ msg[r].op = "delete" /\ IsFixed(msg[r].slot) =>
         target[r] = FixedTarget(msg[r].slot)

\* The deployer stays in its scope: it neither widens its own permissions nor
\* changes what they do not reach (fixtures.Bootstrap; putResource, deleteResource).
DeployerStaysInScope == ScopeBounded /\ OutOfScopeUntouched

ScopeInv == ScopeBounded /\ OutOfScopeUntouched /\ DecisionsInScope

\* Rows and recorded changes correspond one to one: sequence numbers count the
\* rows, each row is the one of exactly one request, and names its caller,
\* although write and record are separate critical sections (Store.Record).
LedgerAttribution ==
  /\ seq = Len(ledger)
  /\ \A r \in Request :
       entry[r] # 0 => /\ entry[r] <= seq
                       /\ ledger[entry[r]] = RowOf(msg[r], entry[r])
  /\ \A r, q \in Request : r # q /\ entry[r] # 0 => entry[r] # entry[q]
  /\ \A n \in 1 .. seq : \E r \in Request : entry[r] = n

\* What makes them inductive: a handler that has its row is done.
RecordedAreDone == \A r \in Request : entry[r] # 0 => pc[r] = "done"

\* What the slot a request writes holds right after it.
Effect(m) == IF m.op = "put" THEN m.value ELSE None

\* Whatever differs from the seed is explained by a request that wrote exactly
\* that and has its row, or is about to record it: no path writes state
\* without the platform observing it (the comment of Store, store.go).
DifferencesAccounted ==
  \A s \in Slot :
    store[s] # InitialStore[s] =>
      \E r \in Request :
        /\ pc[r] = "record" \/ entry[r] # 0
        /\ msg[r].op \in {"put", "delete"}
        /\ msg[r].slot = s
        /\ store[s] = Effect(msg[r])

LedgerInv == LedgerAttribution /\ RecordedAreDone /\ DifferencesAccounted

\* A decision is taken on one snapshot and used after the lock is released: it
\* still holds when it is used, unless another request wrote in between
\* (getObject, putResource, deleteResource).
UnracedDecisionsHold ==
  \A r \in Request \ raced :
    /\ pc[r] = "fetch" =>
         /\ ReadAllowed(store, CallerOf(msg[r]), msg[r].object)
         /\ store[ObjectSlot(msg[r].object)] # None
    /\ pc[r] = "write" => WriteAllowed(store, CallerOf(msg[r]), target[r])
    /\ pc[r] = "write" /\ msg[r].op = "delete" /\ store[msg[r].slot] # None =>
         target[r] = TargetOf(msg[r].slot, store[msg[r].slot])

\* A refused request leaves nothing behind, and every refusal is audited once,
\* also the refusal of a delete that lost a race (refuse, server.go).
RefusalsAudited ==
  /\ audit = Cardinality({r \in Request : reply[r] = "refused"})
  /\ \A r \in Request : reply[r] \in {"refused", "bad_request", "no_route"} => entry[r] = 0

\* The ledger says that the fare cap was raised only after it was, also when a
\* request that raised it was given up by its caller (connect).
TransitionRowsAreTrue ==
  \A n \in 1 .. Len(ledger) : ledger[n].row.action = "workload.change" => fareCap = 400

\* The row a change still has to get: that of a write that is done, or of a
\* transition whose answer is under way.
Unrecorded(r) ==
  \/ pc[r] = "record"
  \/ pc[r] = "forward" /\ wire[r] = "handled" /\ IsTransition(msg[r])

Promise == INSTANCE ChangeLedger WITH
  Actor   <- Request,
  log     <- ledger,
  pending <- [r \in Request |-> IF Unrecorded(r) THEN RowContent(msg[r]) ELSE None]

\* The store and its handlers implement the abstract ledger: every resource
\* change gets its own row, only a workload's change can be lost (connect).
LedgerPromise == Promise!Spec

\* README.md: "the one enumerated, documented, non-destructive admin transition
\* is recorded as exactly one ledger row": once nothing is in progress, a
\* raised fare cap has its row (connect, server.go).
TransitionRecorded ==
  (\A r \in Request : pc[r] \in {"idle", "done"} /\ wire[r] # "sent") /\ fareCap = 400 =>
    Cardinality({n \in 1 .. Len(ledger) : ledger[n].row.action = "workload.change"}) = 1

\* Every request that arrived is answered, whatever the others do and whether
\* or not the workload answers (the timeout of the proxy client, api.New).
EveryRequestAnswered ==
  \A r \in Request : pc[r] = "received" ~> pc[r] = "done"
=============================================================================
