---------------------------- MODULE ChangeLedger ----------------------------
(***************************************************************************)
(* What the platform promises about its change ledger, without saying how: *)
(* an actor makes a change, and the row that names it is appended later,   *)
(* once, unaltered and numbered in order.  A change of a resource is never *)
(* dropped.  A change inside a workload may be: the platform only learns   *)
(* of it from the workload's answer, which can be lost.                    *)
(***************************************************************************)
EXTENDS Naturals, Sequences

CONSTANTS Actor, None

VARIABLES
  log,      \* the rows, oldest first
  pending   \* the change an actor has made and not yet recorded, or None

Init ==
  /\ log = <<>>
  /\ pending = [a \in Actor |-> None]

Change(a) ==
  /\ pending[a] = None
  /\ pending' = [pending EXCEPT ![a] = pending'[a]]
  /\ pending'[a] # None
  /\ UNCHANGED log

Commit(a) ==
  /\ pending[a] # None
  /\ pending' = [pending EXCEPT ![a] = None]
  /\ log' = Append(log, [seq |-> Len(log) + 1, row |-> pending[a]])

Lose(a) ==
  /\ pending[a] # None
  /\ pending[a].action = "workload.change"
  /\ pending' = [pending EXCEPT ![a] = None]
  /\ UNCHANGED log

Next == \E a \in Actor : Change(a) \/ Commit(a) \/ Lose(a)

Spec == Init /\ [][Next]_<<log, pending>>
=============================================================================
