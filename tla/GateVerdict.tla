---------------------------- MODULE GateVerdict ----------------------------
(***************************************************************************)
(* What a deployment asks of the gate, whatever the policy engine does:    *)
(* one decision, never revised.  It is a denial, or the answer of the      *)
(* policy for exactly the graph and the allowlist that were put to it.     *)
(***************************************************************************)
CONSTANTS
  Questions,      \* [graph, allowlist] pairs that can be put to the gate
  Admits(_, _),   \* the policy: does it admit a graph under an allowlist
  Unparsable,     \* the artifact that is no graph
  None

VARIABLES question, verdict

Denied == [result |-> "deny"]
Admitted == [result |-> "admit"]

\* The verdicts about a graph; every question may also fail and be denied.
Verdicts(graph, allowlist) ==
  {Denied} \cup IF Admits(graph, allowlist) THEN {Admitted} ELSE {}

Init == question \in Questions /\ verdict = None

\* An artifact that cannot be normalized is no graph at all.
Decide ==
  /\ verdict = None
  /\ verdict' \in IF question.graph = Unparsable THEN {Denied}
                  ELSE Verdicts(question.graph, question.allowlist)
  /\ UNCHANGED question

Next == Decide

Spec == Init /\ [][Next]_<<question, verdict>>
=============================================================================
