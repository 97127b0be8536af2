------------------------------ MODULE Posture ------------------------------
(***************************************************************************)
(* What the platform may expose, over whole sequences of pipeline runs:    *)
(* Pipeline with one history variable, which tells whether a scenario that *)
(* is meant to leave an exposure began since the platform was last         *)
(* restored the way the demonstration restores it: a removal of the        *)
(* undeclared grants that nothing else was running beside when it began,   *)
(* and then a secure apply.                                                *)
(***************************************************************************)
EXTENDS Configurations

-----------------------------------------------------------------------------
VARIABLE posture   \* reviewed, opened, or on the way back: removing, removed

PostureInit == Init /\ posture = "reviewed"

Busy(r) == run[r].pc \notin {"idle", "end"}

\* In this step the run r starts a job, or ends it as it should.
Begins(r, job) == ~Busy(r) /\ Busy(r)' /\ run'[r].job = job
Completes(r, job) == Busy(r) /\ run[r].job = job /\ run'[r].pc = "end" /\ run'[r].passed

\* restore: remove-undeclared, then secure-apply.
PostureAfter ==
  IF \E r \in Run, job \in Exposing : Begins(r, job) THEN "opened"
  ELSE IF /\ posture = "opened"
          /\ \E r \in Run : Begins(r, "remove-undeclared") /\ \A other \in Run \ {r} : ~Busy(other)
       THEN "removing"
  ELSE IF posture = "removing" /\ \E r \in Run : Completes(r, "remove-undeclared") THEN "removed"
  ELSE IF posture = "removed" /\ \E r \in Run : Completes(r, "secure-apply") THEN "reviewed"
  ELSE posture

PostureNext == Next /\ posture' = PostureAfter

PostureSpec == PostureInit /\ [][PostureNext]_<<vars, posture>>

\* Nothing on the platform is reachable that no reviewed allowlist names, from
\* the start until a scenario meant to expose something begins, and again once
\* the platform was restored: not between two puts, not after a partial apply,
\* not by two admitted plans mixed with each other, whatever was left behind.
OnlyReviewedExposure ==
  posture = "reviewed" => ExposuresNamed(platform, Named)
=============================================================================
