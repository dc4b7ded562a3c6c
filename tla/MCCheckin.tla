----------------------------- MODULE MCCheckin -----------------------------
(***************************************************************************)
(* Attendance, repair tickets and the assistant's turns share no row: a    *)
(* behaviour exercises one of them, chosen once.                           *)
(***************************************************************************)
EXTENDS Checkin, Repairs, MCAssistant

VARIABLE focus

MCInit ==
  /\ focus \in {"attendance", "repairs", "assistant"}
  /\ Init /\ RInit /\ AssistantInit
  /\ focus = "assistant" \/ inForce = {Winter}

MCNext ==
  \/ focus = "attendance" /\ Next /\ UNCHANGED <<repairVars, talkVars, focus>>
  \/ focus = "repairs" /\ RNext /\ UNCHANGED <<vars, talkVars, focus>>
  \/ focus = "assistant" /\ AssistantNext /\ UNCHANGED <<vars, repairVars, focus>>

\* Out of focus no scan and no turn begins: its fairness asks for nothing.
MCSpec == /\ MCInit /\ [][MCNext]_<<vars, repairVars, talkVars, focus>>
          /\ Fairness /\ AssistantFairness

=============================================================================
