-------------------------- MODULE OccupancyImport --------------------------
(***************************************************************************)
(* Bulk imports of course sessions and of bookings beside the requests of  *)
(* Occupancy.  A commit parses the file, drops the rows that overlap an    *)
(* earlier row of the file, reads the occupied ranges of both tables       *)
(* outside any transaction and without the classroom lock, and inserts the *)
(* rows that are left in one transaction.                                  *)
(***************************************************************************)
EXTENDS Occupancy, SequencesExt

CONSTANTS
  Imports,    \* import jobs committing concurrently (at most jobConcurrency)
  MaxRows,    \* bound on the rows of a file
  RowStatus   \* bound on the statuses that the rows of a booking file carry

ASSUME ImportAssumption == MaxRows \in Nat /\ RowStatus \subseteq BookingStatus \ {"none"}

VARIABLES
  ipc,        \* the next statement of each import
  table,      \* the table each import writes
  clean,      \* the rows of each import that passed so far, by their line
  imported,   \* history: the row ids that imports inserted
  alone       \* history: nothing else ran since the import started

importVars == <<ipc, table, clean, imported, alone>>
allVars == <<vars, importVars>>

ImportSteps == {"idle", "readSessions", "readBookings", "insert"}
Tables == {"sessions", "bookings"}

\* A booking file carries the status of every row; a session is live.
Rows(t) == [slot : Slots,
            status : IF t = "sessions" THEN {"live"} ELSE RowStatus]

\* Rejected and cancelled rows are history: they occupy nothing.
Occupies(row) == row.status \in {"live", "pending", "approved"}

InitImport ==
  /\ Init
  /\ ipc = [w \in Imports |-> "idle"]
  /\ table = [w \in Imports |-> "sessions"]
  /\ clean = [w \in Imports |-> << >>]
  /\ imported = {}
  /\ alone = [w \in Imports |-> FALSE]

----------------------------------------------------------------------------
\* A row that names no classroom of now is an error.
Resolves(row) == row.slot.room \in rooms

ClashInFile(kept, row) ==
  Occupies(kept) /\ Occupies(row) /\ Overlaps(kept.slot, row.slot)

\* Line by line: a row that overlaps a row kept before it is an error of its own.
KeptLines(file, lines) ==
  \A k \in DOMAIN file :
    k \in lines <=> /\ Resolves(file[k])
                    /\ \A l \in lines : l < k => ~ClashInFile(file[l], file[k])

\* A step of one import ends the solitude of all others.
Disturb(w) == [v \in Imports |-> v = w /\ alone[v]]

StartImport(w, t, file) ==
  \E lines \in (SUBSET DOMAIN file) \ {{}} :
    /\ ipc[w] = "idle"
    /\ KeptLines(file, lines)
    /\ ipc' = [ipc EXCEPT ![w] = "readSessions"]
    /\ table' = [table EXCEPT ![w] = t]
    /\ clean' = [clean EXCEPT ![w] = Restrict(file, lines)]
    /\ alone' = [Disturb(w) EXCEPT ![w] = /\ \A c \in Clients : pc[c] = "idle"
                                          /\ \A v \in Imports : ipc[v] = "idle"]
    /\ UNCHANGED <<vars, imported>>

EndImport(w) ==
  /\ ipc' = [ipc EXCEPT ![w] = "idle"]
  /\ table' = [table EXCEPT ![w] = "sessions"]
  /\ clean' = [clean EXCEPT ![w] = << >>]
  /\ alone' = [Disturb(w) EXCEPT ![w] = FALSE]

\* Mistake: the query leaves out the bookings that nobody has reviewed yet.
FreeOfApproved(row, pool) ==
  Occupies(row) =>
    \A i \in pool : status[i] \in {"live", "approved"} => ~Overlaps(row.slot, slot[i])

\* The occupied ranges of one table, tested row by row in Go.
FreeIn(row, pool) ==
  Occupies(row) => \A i \in pool : Active(i) => ~Overlaps(row.slot, slot[i])

ReadTable(w, here, pool, next) ==
  /\ ipc[w] = here
  /\ ipc' = [ipc EXCEPT ![w] = next]
  /\ clean' = [clean EXCEPT ![w] = Restrict(@, {k \in DOMAIN @ : FreeIn(@[k], pool)})]
  /\ alone' = Disturb(w)
  /\ UNCHANGED <<vars, table, imported>>

ReadSessions(w) == ReadTable(w, "readSessions", Sessions, "readBookings")
ReadBookings(w) == ReadTable(w, "readBookings", Bookings, "insert")

Pool(w) == IF table[w] = "sessions" THEN Sessions ELSE Bookings

\* The bound on row ids, shared with the creates in flight.
IdsFor(w) ==
  {ids \in [DOMAIN clean[w] -> FreshIds(Pool(w))] :
     /\ IsInjective(ids)
     /\ Cardinality(DOMAIN ids) + Cardinality({c \in Clients :
          req[c].op = (IF table[w] = "sessions" THEN "createSession" ELSE "createBooking")})
          <= Cardinality(FreshIds(Pool(w)))}

\* One transaction inserts every row that is left; nothing is checked again.
InsertRows(w) ==
  /\ ipc[w] = "insert"
  /\ \E ids \in IdsFor(w) :
       LET row(i) == clean[w][CHOOSE k \in DOMAIN ids : ids[k] = i]
           new == {ids[k] : k \in DOMAIN ids}
       IN /\ status' = [i \in Ids |-> IF i \in new THEN row(i).status ELSE status[i]]
          /\ slot' = [i \in Ids |-> IF i \in new THEN row(i).slot ELSE slot[i]]
          /\ imported' = imported \cup new
  /\ EndImport(w)
  /\ UNCHANGED <<rooms, lock, pc, req>>

\* A failing query or insert: the import fails as a whole.
AbortImport(w) ==
  /\ ipc[w] # "idle"
  /\ EndImport(w)
  /\ UNCHANGED <<vars, imported>>

----------------------------------------------------------------------------
RequestStep ==
  /\ Next
  /\ alone' = [w \in Imports |-> FALSE]
  /\ UNCHANGED <<ipc, table, clean, imported>>

NextImport ==
  \/ RequestStep
  \/ \E w \in Imports :
       \/ \E t \in Tables : \E file \in BoundedSeq(Rows(t), MaxRows) : StartImport(w, t, file)
       \/ ReadSessions(w) \/ ReadBookings(w) \/ InsertRows(w) \/ AbortImport(w)

SpecImport == InitImport /\ [][NextImport]_allVars

----------------------------------------------------------------------------
(* Properties.                                                             *)

TypeOKImport ==
  /\ TypeOK
  /\ ipc \in [Imports -> ImportSteps]
  /\ table \in [Imports -> Tables]
  /\ clean = [w \in Imports |-> clean[w]]
  /\ \A w \in Imports : \E lines \in SUBSET (1 .. MaxRows) : clean[w] \in [lines -> Rows(table[w])]
  /\ imported \subseteq Ids
  /\ alone \in [Imports -> BOOLEAN]

\* Whatever imports do beside them, the requests of the console keep their
\* promise among themselves: of two occupants that overlap, an import inserted
\* at least one (booking/store.go Create, course/sessions.go).
OverlapOnlyFromImport == NoOverlapIn(Ids \ imported)

\* Two rows that an import keeps never overlap.
CleanApart(w) ==
  \A k, l \in DOMAIN clean[w] : k # l => ~ClashInFile(clean[w][k], clean[w][l])

\* What a lookup found free is free while nothing else runs.
LookupsStand(w) ==
  alone[w] =>
    /\ \A c \in Clients : pc[c] = "idle"
    /\ \A v \in Imports \ {w} : ipc[v] = "idle"
    /\ \A k \in DOMAIN clean[w] :
         /\ ipc[w] \in {"readBookings", "insert"} => FreeIn(clean[w][k], Sessions)
         /\ ipc[w] = "insert" => FreeIn(clean[w][k], Bookings)

\* The strengthening of both: what the requests write among themselves keeps the
\* invariant of Occupancy, and each import keeps its own account of what is free.
IInvImport ==
  /\ TypeOKImport
  /\ IInvIn(Ids \ imported)
  /\ \A w \in Imports : CleanApart(w) /\ LookupsStand(w)

\* The duplicate test within the file and the two lookups are complete: an
\* import that runs while nothing else does adds no overlap
\* (importer/sessions.go parseAndValidate, importer/bookings.go parseBookings).
ImportAloneIsSafe ==
  [][\A w \in Imports :
       NoOverlap /\ alone[w] /\ ipc[w] = "insert" => NoOverlap']_allVars
=============================================================================
