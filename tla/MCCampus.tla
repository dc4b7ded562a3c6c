------------------------------ MODULE MCCampus ------------------------------
(***************************************************************************)
(* Permissions, observation forms, bell times, master data, the accounts   *)
(* with their audit log, the jobs of the importers and the events a device *)
(* buffers share nothing that one of them writes: a behaviour exercises    *)
(* one of them, chosen once, and the rest stays in an initial state.       *)
(***************************************************************************)
EXTENDS Grants, Observation, MCRegimes, Records, Access, ImportJob, EventQueue

VARIABLE focus

SectionsOfTwo == {<<1, 2>>, <<2, 1, 1>>}

MCInit ==
  /\ focus \in {"grants", "observation", "regimes", "records", "access", "jobs", "events"}
  /\ GInit /\ (focus = "grants" \/ (/\ Existing = {Boot}
                                     /\ \A r \in CustomRoles : roles[r] = "none"
                                     /\ \A g \in Groups : groups[g] = "none"))
  /\ ObsInit /\ (focus = "observation" \/ renderer)
  /\ RegimesInit /\ (focus = "regimes" \/ nextRegime = 1)
  /\ RecordsInit /\ (focus = "records" \/ table = "classrooms")
  /\ AccessInit /\ (focus = "access" \/ policy = CHOOSE s \in Policies : \A d \in Windows : s.days <= d)
  /\ \A d \in Windows : policy.days <= d
  /\ JobsInit /\ (focus = "jobs" \/ ~failing)
  /\ QInit /\ (focus = "events" \/ (max = 1 /\ link = "up"))

MCNext ==
  \/ focus = "grants" /\ GNext
     /\ UNCHANGED <<focus, formVars, regimeVars, recordVars, accessVars, jobVars, qVars>>
  \/ focus = "observation" /\ ObsNext
     /\ UNCHANGED <<focus, grantVars, regimeVars, recordVars, accessVars, jobVars, qVars>>
  \/ focus = "regimes" /\ RegimesNext
     /\ UNCHANGED <<focus, grantVars, formVars, recordVars, accessVars, jobVars, qVars>>
  \/ focus = "records" /\ RecordsNext
     /\ UNCHANGED <<focus, grantVars, formVars, regimeVars, accessVars, jobVars, qVars>>
  \/ focus = "access" /\ AccessNext
     /\ UNCHANGED <<focus, grantVars, formVars, regimeVars, recordVars, jobVars, qVars>>
  \/ focus = "jobs" /\ JobsNext
     /\ UNCHANGED <<focus, grantVars, formVars, regimeVars, recordVars, accessVars, qVars>>
  \/ focus = "events" /\ QNext
     /\ UNCHANGED <<focus, grantVars, formVars, regimeVars, recordVars, accessVars, jobVars>>

MCSpec ==
  MCInit /\ [][MCNext]_<<focus, grantVars, formVars, regimeVars, recordVars, accessVars,
                          jobVars, qVars>>

=============================================================================
