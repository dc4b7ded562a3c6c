------------------------------ MODULE MCAnswered ------------------------------
(***************************************************************************)
(* What must be answered: the transactions on teaching classes, imported   *)
(* offerings included, and the import jobs while statements work.  A       *)
(* behaviour exercises one of the two, chosen once.                        *)
(***************************************************************************)
EXTENDS TeachingClass, ImportJob

VARIABLE focus

MCInit == focus \in {"classes", "jobs"} /\ Init /\ JobsInit /\ ~failing

MCNext ==
  \/ focus = "classes" /\ Next /\ UNCHANGED <<focus, jobVars>>
  \/ focus = "jobs" /\ JobsNext /\ UNCHANGED <<focus, vars>>

\* Out of focus nothing was started: its fairness asks for nothing.
MCSpec == MCInit /\ [][MCNext]_<<focus, vars, jobVars>> /\ Fairness /\ JobsFairness
=============================================================================
