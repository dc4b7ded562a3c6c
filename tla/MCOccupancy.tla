---------------------------- MODULE MCOccupancy ----------------------------
(***************************************************************************)
(* The grid of rooms and periods, the requests of a paged list and the     *)
(* turns of the chat share nothing: a behaviour exercises one of them,     *)
(* chosen once, and the rest stays in one of its initial states.           *)
(***************************************************************************)
EXTENDS Occupancy, PagedList, ChatStore

VARIABLE focus

MCInit ==
  /\ focus \in {"rooms", "list", "chat"}
  /\ Init
  \* The rows that a list finds depend on the filter alone.
  /\ ListInit /\ want.filter = CHOOSE f \in FilterValues : TRUE
  /\ \A k, l \in DOMAIN found : k[2] = l[2] => found[k] = found[l]
  /\ focus = "list" \/ (app = "console" /\ \A k \in DOMAIN found : found[k] = 1)
  /\ ChatInit

MCNext ==
  \/ focus = "rooms" /\ Next /\ UNCHANGED <<focus, listVars, chatVars>>
  \/ focus = "list" /\ ListNext /\ UNCHANGED <<focus, vars, chatVars>>
  \/ focus = "chat" /\ ChatNext /\ UNCHANGED <<focus, vars, listVars>>

MCSpec == MCInit /\ [][MCNext]_<<focus, vars, listVars, chatVars>>

\* Requests, row ids and days are interchangeable; periods are ordered.
Symmetry == Permutations(Clients) \cup Permutations(Bookings)
              \cup Permutations(Sessions) \cup Permutations(Rooms)
=============================================================================
