--------------------------- MODULE ReconcileProofs ---------------------------
(***************************************************************************)
(* Proofs about a scenario end to end, for any observers and resources,    *)
(* any scenarios and any number of pipelines that go on writing while the  *)
(* public segment is observed: what a reconciliation reports was so at     *)
(* some moment of the observation, and two documents compare as the moments *)
(* they were taken in did.                                                 *)
(***************************************************************************)
EXTENDS Reconcile, PipelineProofs

Public(i) == Observers[i].segment = "internet"
Heards == Body \cup {"served", "refused", "lost"}

\* What an observer has: it is done exactly with an answer for every probe, and
\* has none before it asks.
Client ==
  {o \in [pc : {"idle", "edge", "corp", "asking", "done", "failed"}, saw : Seq(Heards)] :
     /\ Len(o.saw) <= Len(Probes)
     /\ o.pc = "done" <=> Len(o.saw) = Len(Probes)
     /\ o.pc \notin {"asking", "done"} => o.saw = <<>>}

ReportType == [reached : SUBSET Probed, unreviewed : SUBSET Probed,
               verdict : {"PASS", "FAIL"}, passed : BOOLEAN]

ScriptTyped ==
  /\ stage \in {"idle", "observing", "stopped", "reported"}
  /\ observer \in [Ids -> Client]
  /\ stage = "reported" => report \in ReportType
  /\ stage # "reported" => report = None
  /\ kept # None => kept.job \in Keeps /\ kept.set \subseteq Observed /\ kept.seen \in History
  /\ seen \in History

-----------------------------------------------------------------------------
(* The pipelines beside the script.                                        *)

\* A step of the script is one of a pipeline, or leaves all of them alone.
LEMMA ScriptStepIsStep == [ScriptNext]_allVars => [Next]_vars \/ UNCHANGED <<platform, run>>
<1> SUFFICES ASSUME [ScriptNext]_allVars
             PROVE  [Next]_vars \/ UNCHANGED <<platform, run>>
  OBVIOUS
<1>1. CASE \E r \in Run : Pipe(r)
  BY <1>1 DEF Pipe, Next
<1>2. CASE Launch \/ Abandon \/ Report \/ Keep
  BY <1>2 DEF Launch, Abandon, Report, Keep
<1>3. CASE \E i \in Ids : AskEdge(i) \/ AskCorp(i) \/ Ask(i) \/ Lose(i)
  BY <1>3 DEF AskEdge, AskCorp, Ask, Lose
<1>4. CASE UNCHANGED allVars
  BY <1>4 DEF allVars
<1> QED
  BY <1>1, <1>2, <1>3, <1>4 DEF ScriptNext, ScriptStep

\* What holds of the pipelines alone holds of them beside the script.
LEMMA PipelinesBeside == ScriptSpec => [](RunInv /\ DriftInv)
<1>1. ScriptInit => RunInv /\ DriftInv
  BY InvInit, DriftInit DEF ScriptInit
<1>2. RunInv /\ DriftInv /\ [ScriptNext]_allVars => (RunInv /\ DriftInv)'
  <2>1. RunInv /\ DriftInv /\ [Next]_vars => (RunInv /\ DriftInv)'
    BY InvStep, DriftNext
  <2>2. RunInv /\ DriftInv /\ UNCHANGED <<platform, run>> => (RunInv /\ DriftInv)'
    BY DEF RunInv, DriftInv
  <2> QED
    BY <2>1, <2>2, ScriptStepIsStep
<1> QED
  BY <1>1, <1>2, PTL DEF ScriptSpec

-----------------------------------------------------------------------------
(* The answers.                                                            *)

LEMMA ProbeTypes ==
  ASSUME NEW k \in DOMAIN Probes
  PROVE  /\ Probes[k].kind = "bucket" => Probes[k].name \in BucketName /\ Probes[k].key \in ObjectKey
         /\ ResourceOf(Probes[k]) \in Probed
<1>1. Probes[k] \in [kind : {"bucket"}, name : BucketName, key : ObjectKey]
                      \cup [kind : {"workload_port"}, name : WorkloadName \X PortName, key : {None}]
  BY ProbesAssumption
<1> QED
  BY <1>1 DEF Probed

LEMMA ProbesLength == Len(Probes) \in Nat /\ Len(Probes) > 0 /\ DOMAIN Probes = 1..Len(Probes)
BY ProbesAssumption

LEMMA AnswersType ==
  ASSUME IsState(platform), NEW k \in DOMAIN Probes, NEW caller
  PROVE  Answers(Probes[k], caller) \in Heards
<1>1. CASE Probes[k].kind = "bucket"
  <2> DEFINE object == [bucket |-> Probes[k].name, key |-> Probes[k].key]
  <2>1. object \in ObjectId
    BY <1>1, ProbeTypes DEF ObjectId
  <2>2. ObjectSlot(object) \in Slot /\ ObjectSlot(object).kind = "object"
    BY <2>1 DEF ObjectSlot, Slot
  <2> HIDE DEF object
  <2>3. ReadAllowed(platform, caller, object) => platform[ObjectSlot(object)] \in Body
    BY <2>2 DEF ReadAllowed, IsState, ValueOf
  <2>4. Answers(Probes[k], caller) =
          IF ReadAllowed(platform, caller, object) THEN platform[ObjectSlot(object)] ELSE "refused"
    BY <1>1 DEF Answers, object
  <2> QED
    BY <2>3, <2>4 DEF Heards
<1>2. CASE Probes[k].kind # "bucket"
  BY <1>2 DEF Answers, Heards
<1> QED
  BY <1>1, <1>2

\* The public observer's caller is the probe client.
LEMMA PublicCaller ==
  ASSUME NEW i \in Ids, Public(i)
  PROVE  CallerOf(i) = [principal |-> Anonymous, segment |-> "internet", addr |-> ProbeAddress]
BY ObserverAssumption DEF CallerOf, Public, Ids

\* What it is answered is what the history of the same moment says.
LEMMA AskedIsOpen ==
  ASSUME NEW i \in Ids, Public(i), NEW k \in DOMAIN Probes
  PROVE  Reachable(Answers(Probes[k], CallerOf(i))) <=> ResourceOf(Probes[k]) \in OpenNow
<1> DEFINE caller == [principal |-> Anonymous, segment |-> "internet", addr |-> ProbeAddress]
           open == {j \in DOMAIN Probes : Reachable(Answers(Probes[j], caller))}
<1>1. OpenNow = {ResourceOf(Probes[j]) : j \in open}
  BY DEF OpenNow
<1>2. CallerOf(i) = caller
  BY PublicCaller
<1>3. k \in open <=> Reachable(Answers(Probes[k], CallerOf(i)))
  BY <1>2
<1>4. \A j \in DOMAIN Probes : ResourceOf(Probes[j]) = ResourceOf(Probes[k]) => j = k
  BY ProbesAssumption
<1>5. open \subseteq DOMAIN Probes
  OBVIOUS
<1> HIDE DEF open, caller
<1> QED
  BY <1>1, <1>3, <1>4, <1>5

LEMMA OpenNowType == OpenNow \subseteq Probed
BY DEF OpenNow, Probed

-----------------------------------------------------------------------------
(* The inductive invariant.                                                *)

\* While the public segment is observed, the history knows what it reaches now;
\* and whatever it was answered was so at a moment the history knows.
Watched ==
  /\ stage = "observing" => OpenNow \subseteq seen.open /\ Probed \ OpenNow \subseteq seen.closed
  /\ stage \in {"observing", "reported"} =>
       \A i \in Ids : Public(i) =>
         \A k \in DOMAIN observer[i].saw :
           /\ Reachable(observer[i].saw[k]) => ResourceOf(Probes[k]) \in seen.open
           /\ observer[i].saw[k] = "refused" => ResourceOf(Probes[k]) \in seen.closed

\* A public document that is complete tells of moments the history knows.
Accounted(set, history) ==
  /\ set # {} /\ \A o \in set : o.segment = "internet"
  /\ {o.resource : o \in set} = Probed
  /\ ReachedPublicly(set) \subseteq history.open
  /\ Complete(set) => Probed \ ReachedPublicly(set) \subseteq history.closed

\* A report is one of complete documents, and what was put aside was one.
Recorded ==
  /\ stage = "reported" =>
       /\ \A i \in Ids : observer[i].pc = "done"
       /\ report.reached = ReachedPublicly(PublicSet)
  /\ kept # None => Accounted(kept.set, kept.seen)

ScriptInv == ScriptTyped /\ Watched /\ Recorded

-----------------------------------------------------------------------------
(* Documents.                                                              *)

\* The documents of clients that are done.
LEMMA DocumentFacts ==
  ASSUME ScriptTyped, NEW i \in Ids, observer[i].pc = "done"
  PROVE  /\ DOMAIN observer[i].saw = DOMAIN Probes
         /\ \A o \in SetOf(i) : \E k \in DOMAIN Probes :
              /\ o.segment = Observers[i].segment /\ o.resource = ResourceOf(Probes[k])
              /\ o.answer = observer[i].saw[k]
         /\ \A k \in DOMAIN Probes :
              [segment |-> Observers[i].segment, resource |-> ResourceOf(Probes[k]),
               answer |-> observer[i].saw[k]] \in SetOf(i)
<1>1. observer[i] \in Client
  BY DEF ScriptTyped
<1>2. observer[i].saw \in Seq(Heards) /\ Len(observer[i].saw) = Len(Probes)
  BY <1>1 DEF Client
<1>3. DOMAIN observer[i].saw = DOMAIN Probes
  BY <1>2, ProbesAssumption
<1> QED
  BY <1>3 DEF SetOf, Document

\* What the public segment's documents say of the moments of the observation.
LEMMA PublicAccounted ==
  ASSUME ScriptTyped, Watched, stage \in {"observing", "reported"},
         \A i \in Ids : observer[i].pc = "done"
  PROVE  Accounted(PublicSet, seen)
<1>1. PICK i \in Ids : Public(i)
  BY ObserverAssumption DEF Public, Ids
<1>2. \A o \in PublicSet : \E j \in Ids : Public(j) /\ o \in SetOf(j)
  BY DEF PublicSet, Public
<1>3. SetOf(i) \subseteq PublicSet
  BY <1>1 DEF PublicSet, Public
<1>4. \A o \in PublicSet : o.segment = "internet" /\ o.resource \in Probed
  BY <1>2, DocumentFacts, ProbeTypes DEF Public
<1>5. \A k \in DOMAIN Probes : \E o \in PublicSet :
        o.resource = ResourceOf(Probes[k]) /\ o.answer = observer[i].saw[k]
  BY <1>1, <1>3, DocumentFacts
<1>6. PublicSet # {}
  BY <1>5, ProbesLength
<1>7. {o.resource : o \in PublicSet} = Probed
  <2>1. {o.resource : o \in PublicSet} \subseteq Probed
    BY <1>4
  <2>2. Probed \subseteq {o.resource : o \in PublicSet}
    BY <1>5 DEF Probed
  <2> QED
    BY <2>1, <2>2
<1>8. ReachedPublicly(PublicSet) \subseteq seen.open
  <2> SUFFICES ASSUME NEW o \in PublicSet, Reachable(o.answer)
               PROVE  o.resource \in seen.open
    BY DEF ReachedPublicly
  <2>1. PICK j \in Ids : Public(j) /\ o \in SetOf(j)
    BY <1>2
  <2>2. PICK k \in DOMAIN Probes : o.resource = ResourceOf(Probes[k]) /\ o.answer = observer[j].saw[k]
    BY <2>1, DocumentFacts
  <2>3. k \in DOMAIN observer[j].saw
    BY DocumentFacts
  <2> QED
    BY <2>1, <2>2, <2>3 DEF Watched
<1>9. ASSUME Complete(PublicSet), NEW r \in Probed \ ReachedPublicly(PublicSet)
      PROVE  r \in seen.closed
  <2>1. PICK k \in DOMAIN Probes : r = ResourceOf(Probes[k])
    BY DEF Probed
  <2>2. PICK o \in PublicSet : o.resource = r /\ o.answer = observer[i].saw[k]
    BY <1>5, <2>1
  <2>3. o.segment = "internet" /\ o.answer # "lost"
    BY <1>4, <1>9 DEF Complete
  <2>4. ~Reachable(o.answer)
    BY <1>9, <2>2, <2>3 DEF ReachedPublicly
  <2>5. observer[i].saw[k] = "refused"
    BY <2>2, <2>3, <2>4 DEF Reachable
  <2>6. k \in DOMAIN observer[i].saw
    BY DocumentFacts
  <2> QED
    BY <1>1, <2>1, <2>5, <2>6 DEF Watched
<1> QED
  BY <1>4, <1>6, <1>7, <1>8, <1>9 DEF Accounted

\* What all documents say the public segment reaches is what its own say.
LEMMA ReachedIsPublic ==
  ReachedPublicly(UNION {SetOf(i) : i \in Ids}) = ReachedPublicly(PublicSet)
<1> DEFINE all == UNION {SetOf(i) : i \in Ids}
<1>1. \A i \in Ids : \A o \in SetOf(i) : o.segment = Observers[i].segment
  BY DEF SetOf, Document
<1>2. \A o : o \in PublicSet <=> o \in all /\ o.segment = "internet"
  BY <1>1 DEF PublicSet
<1> HIDE DEF all
<1>3. ReachedPublicly(all) = ReachedPublicly(PublicSet)
  BY <1>2 DEF ReachedPublicly
<1> QED
  BY <1>3 DEF all

-----------------------------------------------------------------------------
(* Every step of the script keeps the invariant.                           *)

LEMMA HistoryType == ScriptTyped /\ Witness => seen' \in History
<1> SUFFICES ASSUME ScriptTyped, Witness PROVE seen' \in History
  OBVIOUS
<1>1. seen \in History /\ OpenNow' \subseteq Probed /\ Nothing \in History
  BY OpenNowType DEF ScriptTyped, OpenNow, Probed, Nothing, History
<1> QED
  BY <1>1 DEF Witness, History

\* While it lasts, the history of an observation only grows, and knows the present.
LEMMA HistoryGrows ==
  ASSUME ScriptTyped, Witness, stage' = "observing"
  PROVE  /\ seen.open \subseteq seen'.open /\ seen.closed \subseteq seen'.closed
         /\ OpenNow' \subseteq seen'.open /\ Probed \ OpenNow' \subseteq seen'.closed
BY DEF Witness

\* An observer that has not been asked anything.
LEMMA ClientStarts ==
  ASSUME NEW pc \in {"idle", "edge", "corp", "failed"}
  PROVE  [pc |-> pc, saw |-> <<>>] \in Client
<1>1. <<>> \in Seq(Heards) /\ Len(<<>>) = 0
  OBVIOUS
<1> QED
  BY <1>1, ProbesLength DEF Client

LEMMA ScriptInitInv == ScriptInit => ScriptInv
<1> SUFFICES ASSUME ScriptInit PROVE ScriptInv
  OBVIOUS
<1>1. Quiet \in Client
  BY ClientStarts DEF Quiet
<1>2. ScriptTyped
  BY <1>1 DEF ScriptInit, ScriptTyped, Nothing, History
<1> QED
  BY <1>2 DEF ScriptInit, ScriptInv, Watched, Recorded

\* A step in which no observer moves and the script stays where it is.
LEMMA StayInv ==
  ASSUME ScriptInv, Witness, UNCHANGED <<stage, observer, report, kept>>
  PROVE  ScriptInv'
<1> USE DEF ScriptInv
<1>1. ScriptTyped'
  BY HistoryType DEF ScriptTyped
<1>2. CASE stage = "observing"
  BY <1>1, <1>2, HistoryGrows DEF Watched, Recorded
<1>3. CASE stage # "observing"
  <2>1. stage = "reported" => seen' = seen
    BY DEF Witness
  <2>2. Watched'
    BY <1>3, <2>1 DEF Watched
  <2>3. PublicSet' = PublicSet
    BY DEF PublicSet, SetOf
  <2> QED
    BY <1>1, <2>2, <2>3 DEF Recorded
<1> QED
  BY <1>2, <1>3

\* A pipeline's step.  The script's own begins its next run and forgets what it saw.
LEMMA PipeInv ==
  ASSUME ScriptInv, Witness, NEW r \in Run, Pipe(r)
  PROVE  ScriptInv'
<1> USE DEF ScriptInv
<1>1. CASE r # Script
  BY <1>1, StayInv DEF Pipe
<1>2. CASE r = Script
  <2>1. stage' = "idle" /\ report' = None /\ observer' = [i \in Ids |-> Quiet] /\ UNCHANGED kept
    BY <1>2 DEF Pipe
  <2>2. Quiet \in Client
    BY ClientStarts DEF Quiet
  <2>3. ScriptTyped'
    BY <2>1, <2>2, HistoryType DEF ScriptTyped
  <2> QED
    BY <2>1, <2>3 DEF Watched, Recorded
<1> QED
  BY <1>1, <1>2

LEMMA LaunchInv == ASSUME ScriptInv, Witness, Launch PROVE ScriptInv'
<1> USE DEF ScriptInv
<1>1. stage' = "observing" /\ UNCHANGED <<report, kept>> /\ report = None
  BY DEF Launch, ScriptTyped
<1>2. [pc |-> "edge", saw |-> <<>>] \in Client
  BY ClientStarts
<1>3. observer' = [i \in Ids |-> [pc |-> "edge", saw |-> <<>>]]
  BY DEF Launch
<1>4. ScriptTyped'
  BY <1>1, <1>2, <1>3, HistoryType DEF ScriptTyped
<1>5. \A i \in Ids : DOMAIN observer'[i].saw = {}
  BY <1>3
<1> QED
  BY <1>1, <1>4, <1>5, HistoryGrows DEF Watched, Recorded

\* A step of one observer, to one that has heard no more than was so.
LEMMA TurnInv ==
  ASSUME ScriptInv, Witness, NEW i \in Ids, NEW o \in Client, stage = "observing",
         Turns(i, o), UNCHANGED <<stage, report, kept>>,
         Public(i) => \A k \in DOMAIN o.saw :
           /\ Reachable(o.saw[k]) => ResourceOf(Probes[k]) \in seen.open
           /\ o.saw[k] = "refused" => ResourceOf(Probes[k]) \in seen.closed
  PROVE  ScriptInv'
<1> USE DEF ScriptInv
<1>1. observer' = [observer EXCEPT ![i] = o]
  BY DEF Turns
<1>2. /\ observer' \in [Ids -> Client] /\ observer'[i] = o
      /\ \A j \in Ids \ {i} : observer'[j] = observer[j]
  BY <1>1 DEF ScriptTyped
<1>3. ScriptTyped'
  BY <1>2, HistoryType DEF ScriptTyped
<1>4. Watched'
  BY <1>2, HistoryGrows DEF Watched
<1> QED
  BY <1>3, <1>4 DEF Recorded

\* What a client has that hears one more answer.
LEMMA HeardClient ==
  ASSUME NEW o \in Client, o.pc = "asking", NEW answer \in Heards, NEW saw,
         saw = Append(o.saw, answer)
  PROVE  /\ [pc |-> IF Len(saw) = Len(Probes) THEN "done" ELSE "asking", saw |-> saw] \in Client
         /\ Len(o.saw) + 1 \in DOMAIN Probes
         /\ DOMAIN saw = DOMAIN o.saw \cup {Len(o.saw) + 1}
         /\ saw[Len(o.saw) + 1] = answer
         /\ \A k \in DOMAIN o.saw : k # Len(o.saw) + 1 /\ saw[k] = o.saw[k]
<1>1. o.saw \in Seq(Heards) /\ Len(o.saw) <= Len(Probes) /\ Len(o.saw) # Len(Probes)
  BY DEF Client
<1>2. /\ saw \in Seq(Heards) /\ Len(saw) = Len(o.saw) + 1 /\ Len(o.saw) \in Nat
      /\ DOMAIN o.saw = 1..Len(o.saw) /\ DOMAIN saw = 1..Len(saw)
      /\ saw[Len(o.saw) + 1] = answer
      /\ \A k \in 1..Len(o.saw) : saw[k] = o.saw[k]
  BY <1>1
<1>3. Len(saw) <= Len(Probes) /\ Len(o.saw) + 1 \in DOMAIN Probes
  BY <1>1, <1>2, ProbesLength
<1>4. [pc |-> IF Len(saw) = Len(Probes) THEN "done" ELSE "asking", saw |-> saw] \in Client
  BY <1>2, <1>3 DEF Client
<1> QED
  BY <1>2, <1>3, <1>4

\* The requests before the first resource is asked for.
LEMMA EdgeInv ==
  ASSUME ScriptInv, Witness, NEW i \in Ids, NEW pc \in {"asking", "corp", "failed"},
         stage = "observing", observer[i].pc \in {"edge", "corp"},
         Turns(i, [observer[i] EXCEPT !.pc = pc]), UNCHANGED <<stage, report, kept>>
  PROVE  ScriptInv'
<1>1. observer[i] \in Client /\ observer[i].saw = <<>>
  BY DEF ScriptInv, ScriptTyped, Client
<1>2. [observer[i] EXCEPT !.pc = pc] = [pc |-> pc, saw |-> <<>>]
  BY <1>1 DEF Client
<1>3. <<>> \in Seq(Heards) /\ Len(<<>>) = 0 /\ DOMAIN <<>> = {}
  OBVIOUS
<1>4. [pc |-> pc, saw |-> <<>>] \in Client
  BY <1>3, ProbesLength DEF Client
<1> QED
  BY <1>2, <1>3, <1>4, TurnInv

\* An observer hears an answer.
LEMMA HeardInv ==
  ASSUME ScriptInv, Witness, NEW i \in Ids, NEW answer \in Heards, Observing(i, "asking"),
         Heard(i, answer), UNCHANGED <<stage, report, kept>>,
         Public(i) => LET r == ResourceOf(Probes[Len(observer[i].saw) + 1])
                      IN /\ Reachable(answer) => r \in seen.open
                         /\ answer = "refused" => r \in seen.closed
  PROVE  ScriptInv'
<1> DEFINE saw == Append(observer[i].saw, answer)
           o == [pc |-> IF Len(saw) = Len(Probes) THEN "done" ELSE "asking", saw |-> saw]
<1>1. observer[i] \in Client /\ observer[i].pc = "asking" /\ stage = "observing"
  BY DEF ScriptInv, ScriptTyped, Observing
<1>2. Turns(i, o)
  BY DEF Heard
<1>3. o \in Client
  BY <1>1, HeardClient
<1>4. /\ DOMAIN saw = DOMAIN observer[i].saw \cup {Len(observer[i].saw) + 1}
      /\ saw[Len(observer[i].saw) + 1] = answer
      /\ \A k \in DOMAIN observer[i].saw : saw[k] = observer[i].saw[k]
  <2>1. saw = Append(observer[i].saw, answer)
    OBVIOUS
  <2> HIDE DEF saw
  <2>2. DOMAIN saw = DOMAIN observer[i].saw \cup {Len(observer[i].saw) + 1}
    <3>1. observer[i].saw \in Seq(Heards)
      BY <1>1 DEF Client
    <3>2. saw \in Seq(Heards) /\ Len(saw) = Len(observer[i].saw) + 1
      BY <2>1, <3>1
    <3>3. /\ DOMAIN saw = 1..(Len(observer[i].saw) + 1)
          /\ DOMAIN observer[i].saw = 1..Len(observer[i].saw) /\ Len(observer[i].saw) \in Nat
      BY <3>1, <3>2
    <3> QED
      BY <3>3
  <2>3. saw[Len(observer[i].saw) + 1] = answer
    BY <1>1, <2>1, HeardClient
  <2>4. \A k \in DOMAIN observer[i].saw : saw[k] = observer[i].saw[k]
    BY <1>1, <2>1, HeardClient
  <2> QED
    BY <2>2, <2>3, <2>4
<1> HIDE DEF saw
<1>5. ASSUME Public(i), NEW k \in DOMAIN saw
      PROVE  /\ Reachable(saw[k]) => ResourceOf(Probes[k]) \in seen.open
             /\ saw[k] = "refused" => ResourceOf(Probes[k]) \in seen.closed
  <2>1. CASE k = Len(observer[i].saw) + 1
    BY <1>4, <1>5, <2>1
  <2>2. CASE k # Len(observer[i].saw) + 1
    <3>1. k \in DOMAIN observer[i].saw /\ saw[k] = observer[i].saw[k]
      BY <1>4, <2>2
    <3> QED
      BY <1>1, <1>5, <3>1 DEF ScriptInv, Watched
  <2> QED
    BY <2>1, <2>2
<1>6. o.saw = saw
  OBVIOUS
<1> HIDE DEF o
<1> QED
  BY <1>1, <1>2, <1>3, <1>5, <1>6, TurnInv

LEMMA AskInv ==
  ASSUME ScriptInv, DriftInv, Witness, NEW i \in Ids, Ask(i)
  PROVE  ScriptInv'
<1> DEFINE k == Len(observer[i].saw) + 1
           answer == Answers(Probes[k], CallerOf(i))
<1>1. observer[i] \in Client /\ observer[i].pc = "asking" /\ stage = "observing"
  BY DEF ScriptInv, ScriptTyped, Observing, Ask
<1>2. k \in DOMAIN Probes
  BY <1>1, HeardClient DEF Heards
<1>3. answer \in Heards
  BY <1>2, AnswersType DEF DriftInv
<1>4. ResourceOf(Probes[k]) \in Probed
  BY <1>2, ProbeTypes
<1>5. Public(i) => /\ Reachable(answer) => ResourceOf(Probes[k]) \in seen.open
                   /\ answer = "refused" => ResourceOf(Probes[k]) \in seen.closed
  <2> SUFFICES ASSUME Public(i)
               PROVE  /\ Reachable(answer) => ResourceOf(Probes[k]) \in seen.open
                      /\ answer = "refused" => ResourceOf(Probes[k]) \in seen.closed
    OBVIOUS
  <2>1. Reachable(answer) <=> ResourceOf(Probes[k]) \in OpenNow
    BY <1>2, AskedIsOpen
  <2>2. answer = "refused" => ~Reachable(answer)
    BY DEF Reachable
  <2> HIDE DEF answer, k
  <2> QED
    BY <1>1, <1>4, <2>1, <2>2 DEF ScriptInv, Watched
<1> QED
  BY <1>3, <1>5, HeardInv DEF Ask

LEMMA LoseInv ==
  ASSUME ScriptInv, Witness, NEW i \in Ids, Lose(i)
  PROVE  ScriptInv'
<1>1. CASE Observing(i, "edge") /\ Turns(i, [observer[i] EXCEPT !.pc = "corp"])
  BY <1>1, EdgeInv DEF Observing, Lose
<1>2. CASE Observing(i, "corp") /\ Turns(i, [observer[i] EXCEPT !.pc = "failed"])
  BY <1>2, EdgeInv DEF Observing, Lose
<1>3. CASE Observing(i, "asking") /\ Heard(i, "lost")
  <2>1. "lost" \in Heards /\ ~Reachable("lost") /\ "lost" # "refused"
    BY DEF Heards, Reachable
  <2> QED
    BY <1>3, <2>1, HeardInv DEF Lose
<1> QED
  BY <1>1, <1>2, <1>3 DEF Lose

LEMMA AbandonInv == ASSUME ScriptInv, Witness, Abandon PROVE ScriptInv'
<1>1. /\ stage' = "stopped" /\ UNCHANGED <<observer, report, kept>> /\ report = None
  BY DEF Abandon, ScriptInv, ScriptTyped
<1>2. ScriptTyped'
  BY <1>1, HistoryType DEF ScriptInv, ScriptTyped
<1> QED
  BY <1>1, <1>2 DEF ScriptInv, Watched, Recorded

LEMMA ReportingInv == ASSUME ScriptInv, Witness, Report PROVE ScriptInv'
<1> DEFINE all == UNION {SetOf(i) : i \in Ids}
<1>1. /\ stage = "observing" /\ stage' = "reported" /\ UNCHANGED <<observer, kept>>
      /\ \A i \in Ids : observer[i].pc = "done"
      /\ report' = Reconciled(run[Script], all)
  BY DEF Report
<1>2. seen' = seen
  BY <1>1 DEF Witness
<1>3. ReachedPublicly(all) = ReachedPublicly(PublicSet)
  BY ReachedIsPublic
<1>4. Accounted(PublicSet, seen)
  BY <1>1, PublicAccounted DEF ScriptInv
<1>5. ReachedPublicly(PublicSet) \subseteq Probed
  BY <1>4 DEF Accounted, ReachedPublicly
<1> HIDE DEF all
<1>6. report'.reached = ReachedPublicly(PublicSet) /\ report' \in ReportType
  BY <1>1, <1>3, <1>5 DEF Reconciled, ReportType
<1>7. PublicSet' = PublicSet
  BY <1>1 DEF PublicSet, SetOf
<1>8. ScriptTyped'
  BY <1>1, <1>6, HistoryType DEF ScriptInv, ScriptTyped
<1>9. Watched'
  BY <1>1, <1>2 DEF ScriptInv, Watched
<1>10. Recorded'
  BY <1>1, <1>6, <1>7 DEF ScriptInv, Recorded
<1> QED
  BY <1>8, <1>9, <1>10 DEF ScriptInv

LEMMA KeepInv == ASSUME ScriptInv, Witness, Keep PROVE ScriptInv'
<1>1. /\ stage = "reported" /\ UNCHANGED <<stage, observer, report>> /\ run[Script].job \in Keeps
      /\ kept' = [job |-> run[Script].job, seen |-> seen, set |-> PublicSet]
  BY DEF Keep
<1>2. seen' = seen
  BY <1>1 DEF Witness
<1>3. \A i \in Ids : observer[i].pc = "done"
  BY <1>1 DEF ScriptInv, Recorded
<1>4. Accounted(PublicSet, seen)
  BY <1>1, <1>3, PublicAccounted DEF ScriptInv
<1>5. PublicSet \subseteq Observed
  <2> SUFFICES ASSUME NEW o \in PublicSet PROVE o \in Observed
    OBVIOUS
  <2>1. PICK i \in Ids : o \in SetOf(i)
    BY DEF PublicSet
  <2>2. observer[i] \in Client
    BY DEF ScriptInv, ScriptTyped
  <2>3. PICK k \in DOMAIN observer[i].saw :
          o = [segment |-> Observers[i].segment, resource |-> ResourceOf(Probes[k]),
               answer |-> observer[i].saw[k]]
    BY <2>1 DEF SetOf, Document
  <2>4. k \in DOMAIN Probes
    BY <1>3, <2>3, DocumentFacts DEF ScriptInv
  <2>5. observer[i].saw[k] \in Heards
    BY <2>2, <2>3 DEF Client
  <2>6. Observers[i].segment \in {"corp", "internet"}
    BY ObserverAssumption DEF Ids
  <2> QED
    BY <2>3, <2>4, <2>5, <2>6, ProbeTypes DEF Observed, Heards
<1>6. ScriptTyped'
  BY <1>1, <1>5, <1>2, HistoryType DEF ScriptInv, ScriptTyped
<1>7. Watched'
  BY <1>1, <1>2 DEF ScriptInv, Watched
<1>8. PublicSet' = PublicSet
  BY <1>1 DEF PublicSet, SetOf
<1>9. Recorded'
  BY <1>1, <1>4, <1>8 DEF ScriptInv, Recorded
<1> QED
  BY <1>6, <1>7, <1>9 DEF ScriptInv

LEMMA ScriptInvStep == DriftInv /\ ScriptInv /\ [ScriptNext]_allVars => ScriptInv'
<1> SUFFICES ASSUME DriftInv, ScriptInv, [ScriptNext]_allVars
             PROVE  ScriptInv'
  OBVIOUS
<1>1. CASE UNCHANGED allVars
  BY <1>1 DEF allVars, ScriptInv, ScriptTyped, Watched, Recorded, OpenNow, Answers, PublicSet, SetOf
<1>2. CASE ScriptNext
  <2>1. Witness
    BY <1>2 DEF ScriptNext
  <2>2. CASE \E r \in Run : Pipe(r)
    BY <2>1, <2>2, PipeInv
  <2>3. CASE Launch
    BY <2>1, <2>3, LaunchInv
  <2>4. ASSUME NEW i \in Ids, AskEdge(i)
        PROVE  ScriptInv'
    BY <2>1, <2>4, EdgeInv DEF AskEdge, Observing
  <2>5. ASSUME NEW i \in Ids, AskCorp(i)
        PROVE  ScriptInv'
    BY <2>1, <2>5, EdgeInv DEF AskCorp, Observing
  <2>6. ASSUME NEW i \in Ids, Ask(i) \/ Lose(i)
        PROVE  ScriptInv'
    BY <2>1, <2>6, AskInv, LoseInv
  <2>7. CASE Abandon \/ Report \/ Keep
    BY <2>1, <2>7, AbandonInv, ReportingInv, KeepInv
  <2> QED
    BY <1>2, <2>2, <2>3, <2>4, <2>5, <2>6, <2>7 DEF ScriptNext, ScriptStep
<1> QED
  BY <1>1, <1>2

-----------------------------------------------------------------------------
(* The theorems.                                                           *)

\* The invariant holds in every run of the script.
THEOREM ScriptInvariant == ScriptSpec => []ScriptInv
BY ScriptInitInv, ScriptInvStep, PipelinesBeside, PTL DEF ScriptSpec

\* Types, and a complete document has an answer for every resource, in the order
\* they are asked for (ScriptTypeOK).
THEOREM ScriptTypes == ScriptSpec => []ScriptTypeOK
<1>1. ScriptInv => ScriptTypeOK
  BY DEF ScriptInv, ScriptTyped, ScriptTypeOK, Client, Heards, ReportType
<1> QED
  BY <1>1, ScriptInvariant, PTL

\* A verdict is about moments that were, whatever other runs change between two
\* requests (reconcile.go 105-119).
THEOREM MomentsTheorem == ScriptSpec => []VerdictHadItsMoments
<1>1. ScriptInv => VerdictHadItsMoments
  BY PublicAccounted DEF ScriptInv, Recorded, Accounted, VerdictHadItsMoments
<1> QED
  BY <1>1, ScriptInvariant, PTL

\* Two complete public documents of steady moments compare as what the public
\* segment could reach at those moments (reconcile.go 196-239, 352-406).
THEOREM ComparisonTheorem == ScriptSpec => []ComparisonsAreExact
<1>1. ASSUME NEW set, NEW history, history \in History, Accounted(set, history),
             Complete(set), Steady(history)
      PROVE  ReachedPublicly(set) = history.open
  <2>1. ReachedPublicly(set) \subseteq history.open
    BY <1>1 DEF Accounted
  <2>2. ASSUME NEW r \in history.open PROVE r \in ReachedPublicly(set)
    BY <1>1, <2>2 DEF Accounted, Steady, History
  <2> QED
    BY <2>1, <2>2
<1>2. ScriptInv => ComparisonsAreExact
  <2> SUFFICES ASSUME ScriptInv, stage = "reported", kept # None, Complete(kept.set),
                      Complete(PublicSet), Steady(kept.seen), Steady(seen)
               PROVE  /\ SameReach(kept.set, PublicSet) <=> kept.seen.open = seen.open
                      /\ SameObservations(kept.set, PublicSet) => SameReach(kept.set, PublicSet)
    BY DEF ComparisonsAreExact
  <2>1. Accounted(kept.set, kept.seen) /\ Accounted(PublicSet, seen)
    BY PublicAccounted DEF ScriptInv, Recorded
  <2>2. ReachedPublicly(kept.set) = kept.seen.open /\ ReachedPublicly(PublicSet) = seen.open
    BY <1>1, <2>1 DEF ScriptInv, ScriptTyped
  <2>3. ASSUME NEW set, NEW history, Accounted(set, history)
        PROVE  /\ {o \in set : o.segment = "internet"} = set
               /\ {o.resource : o \in set} = Probed /\ set # {}
    BY <2>3 DEF Accounted
  <2>4. SameReach(kept.set, PublicSet) <=> ReachedPublicly(kept.set) = ReachedPublicly(PublicSet)
    BY <2>1, <2>3 DEF SameReach
  <2> QED
    BY <2>2, <2>4 DEF SameObservations
<1> QED
  BY <1>2, ScriptInvariant, PTL

\* Observing takes no part in the deployment: refusals, approvals, transcripts and
\* drift reports are beside the script what they are without it.
THEOREM PipelinesHoldBeside ==
  ScriptSpec => [](RefusalChangesNothing /\ AppliedWasApproved /\ DriftReportIsSound)
<1>1. RunInv /\ DriftInv => RefusalChangesNothing /\ AppliedWasApproved /\ DriftReportIsSound
  BY GoodRuns DEF DriftInv, Checked, DriftReportIsSound
<1> QED
  BY <1>1, PipelinesBeside, PTL
=============================================================================
