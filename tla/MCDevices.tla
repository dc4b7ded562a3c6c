------------------------------ MODULE MCDevices ------------------------------
(***************************************************************************)
(* The presence and the commands of a device share nothing but the         *)
(* connection, whose losses both modules let happen at any time.  A        *)
(* behaviour exercises one of the two, chosen once.                        *)
(***************************************************************************)
EXTENDS DevicePresence, IotCommand

VARIABLE focus

MCInit ==
  /\ focus \in {"presence", "commands"}
  /\ PInit /\ Init

MCNext ==
  \/ focus = "presence" /\ PNext /\ UNCHANGED <<vars, focus>>
  \/ focus = "commands" /\ Next /\ UNCHANGED <<pVars, focus>>

\* Out of focus no command and no report is made: its fairness asks for nothing.
MCSpec == /\ MCInit /\ [][MCNext]_<<pVars, vars, focus>>
          /\ PFairness /\ Fairness

=============================================================================
