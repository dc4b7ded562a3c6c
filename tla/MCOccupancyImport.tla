------------------------- MODULE MCOccupancyImport -------------------------
(***************************************************************************)
(* Small instances of OccupancyImport, of the attendance views and of each *)
(* settings row, which share no row: a behaviour exercises one of them,    *)
(* chosen once, and the rest stays in one of its initial states.           *)
(***************************************************************************)
EXTENDS OccupancyImport, AttendanceViews, Settings

VARIABLE focus

\* Of each service: switched on and complete, switched on and incomplete, and
\* switched off, each with a secret, without one and with one too long.
Body(service, enabled, fields, secret) ==
  [service |-> service, enabled |-> enabled, fields |-> fields, secret |-> secret]
FieldsOf(service, first, rest) ==
  CASE service = "ai" -> [baseUrl |-> first, model |-> rest, reasoningEffort |-> Blank]
    [] service = "mail" -> [host |-> rest, port |-> first, username |-> rest,
                            fromAddress |-> first, encryption |-> Blank]
    [] service = "storage" -> [endpoint |-> first, bucket |-> rest, accessKey |-> rest]
SettingBodies ==
  {Body(s, e, FieldsOf(s, f[1], f[2]), k) :
     s \in Services, e \in BOOLEAN, k \in {"k", Spaces, Long},
     f \in {<<"v", "v">>, <<"v", Spaces>>, <<Odd, "v">>}}

MCInit ==
  /\ focus \in {"imports", "views"} \cup Services
  /\ InitImport /\ SettingsInit
  /\ ViewsInit
  /\ focus = "views" => anchored # {} /\ accounts # {}
  /\ focus = "views" \/ (/\ anchored = {} /\ classmates = {} /\ accounts = {}
                         /\ \A k \in Checkins : phase[k] = "none")

MCNext ==
  \/ focus = "imports" /\ NextImport /\ UNCHANGED <<focus, viewVars, settingsVars>>
  \/ focus = "views" /\ ViewsNext /\ UNCHANGED <<focus, allVars, settingsVars>>
  \/ /\ focus \in Services
     /\ SettingsNext
     /\ \A c \in Admins : put'[c] # NoPut => put'[c].in.service = focus
     /\ UNCHANGED <<focus, allVars, viewVars>>

MCSpec == MCInit /\ [][MCNext]_<<focus, allVars, viewVars, settingsVars>>

\* Check-ins and students are interchangeable, and so are the two bookings.
Symmetry == Permutations(Checkins) \cup Permutations(Students) \cup Permutations(Bookings)
=============================================================================
