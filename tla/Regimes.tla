------------------------------- MODULE Regimes -------------------------------
(***************************************************************************)
(* Bell-time regimes and their periods: the console's edits and the bulk   *)
(* import.  A replacement of a regime's periods deletes the rows it sees   *)
(* and inserts its own in one transaction at READ COMMITTED, and locks     *)
(* nothing else: of two that overlap, the second deletes nothing of what   *)
(* the first inserted, and fails only if the two name the same period.     *)
(***************************************************************************)
EXTENDS Naturals, FiniteSets, Functions, Bells

CONSTANTS
  MaxRegimes,      \* bound: ids 1 .. MaxRegimes are drawn
  RegimeNames,
  Starts,          \* dates on which a regime may begin
  PeriodLists,     \* the lists of period numbers an edit may ask for
  Files,           \* uploads: sequences of groups of distinct names
  Seeds,           \* the two regimes of a new database, <<name, start>> each
  Editors,         \* requests served concurrently
  NoRegime, Idle,
  MaxEdits         \* bound: period sets saved

RegimeRows == [name : RegimeNames, start : Starts]

ASSUME RegimesAssumption ==
  /\ MaxRegimes \in Nat
  /\ Seeds \in Seq(RegimeNames \X Starts) /\ Len(Seeds) <= MaxRegimes
  /\ Files \subseteq Seq([name : RegimeNames, start : Starts, periods : SUBSET Nat])
  /\ NoRegime \notin RegimeRows

VARIABLES
  regime,     \* rows of schedule_regimes: no row, or its name and start
  periods,    \* rows of schedule_periods; history: the edit that wrote them, and
              \* the numbers it asked for
  nextRegime, \* the identity sequence
  edit,       \* the open transaction of each editor
  edits,      \* period sets saved so far
  unseen,     \* history: <<e, r>>, of whose periods e has missed another's commit
  mixed,      \* history: regimes last replaced by one that had missed a commit
  early       \* history: ids that periods were saved for without a regime

regimeVars == <<regime, periods, nextRegime, edit, edits, unseen, mixed, early>>

Ids == 1 .. MaxRegimes
Stands(r) == r \in Ids /\ regime[r] # NoRegime
PeriodsOf(r) == {p \in periods : p.regime = r}
PeriodRows(r, s, n) == {[regime |-> r, index |-> i, edit |-> n, asked |-> s] : i \in s}

\* PeriodIndexSet.
Indices(r) == {p.index : p \in PeriodsOf(r)}

\* What ListRegimes returns.
Table == {[id |-> r, start |-> regime[r].start, periods |-> Indices(r)] :
            r \in {x \in Ids : Stands(x)}}

\* A new database is seeded statement by statement; a start that failed on the
\* way leaves a prefix, which no later start completes.
RegimesInit ==
  /\ \E n \in 0 .. 2 * Len(Seeds) :
       /\ regime = [r \in Ids |-> IF 2 * r - 1 <= n
                      THEN [name |-> Seeds[r][1], start |-> Seeds[r][2]] ELSE NoRegime]
       /\ periods = UNION {PeriodRows(r, {1, 2}, 0) : r \in {x \in Ids : 2 * x <= n}}
       /\ nextRegime = (n + 1) \div 2 + 1
  /\ edit = [e \in Editors |-> Idle]
  /\ edits = 0 /\ unseen = {} /\ mixed = {} /\ early = {}

----------------------------------------------------------------------------
(* Single statements.  A regime an import has upserted is locked until the *)
(* import ends: a statement that needs the row or the name waits.          *)

Holds(e, r) == edit[e] # Idle /\ edit[e].kind = "import" /\ r \in Range(edit[e].at)
NameHeld(e, n) == edit[e] # Idle /\ \E i \in 1 .. Len(edit[e].at) :
                    edit[e].kind = "import" /\ edit[e].file[i].name = n
Locked(r, n) == \E e \in Editors : Holds(e, r) \/ NameHeld(e, n)

\* No other regime has the name.
Free(r, n) == \A x \in Ids \ {r} : Stands(x) => regime[x].name # n

InsertRegime(n, d) ==
  /\ nextRegime <= MaxRegimes
  /\ ~Locked(nextRegime, n) /\ Free(nextRegime, n)
  /\ regime' = [regime EXCEPT ![nextRegime] = [name |-> n, start |-> d]]
  /\ nextRegime' = nextRegime + 1

RenameRegime(r, n, d) ==
  /\ Stands(r) /\ ~Locked(r, n) /\ Free(r, n)
  /\ regime' = [regime EXCEPT ![r] = [name |-> n, start |-> d]]
  /\ UNCHANGED nextRegime

aside == <<periods, edit, edits, unseen, mixed, early>>

\* A month and a day, though not every day of every month exists.
NormalizeRegime(n, d) == n # "" /\ d \div 100 \in 1 .. 12 /\ d % 100 \in 1 .. 31

CreateRegime(n, d) ==
  NormalizeRegime(n, d) /\ InsertRegime(n, d) /\ UNCHANGED aside

UpdateRegime(r, n, d) ==
  NormalizeRegime(n, d) /\ RenameRegime(r, n, d) /\ UNCHANGED aside

----------------------------------------------------------------------------
(* Transactions: a first statement that deletes the periods it sees ...    *)

Begin(e, kind, file) ==
  /\ edit[e] = Idle
  /\ edit' = [edit EXCEPT ![e] = [kind |-> kind, file |-> file, at |-> <<>>, seen |-> {}, own |-> {}]]
  /\ UNCHANGED <<regime, periods, nextRegime, unseen, mixed, early>>

\* The DELETE takes the committed rows and those of the transaction itself; its
\* INSERTs follow, g being a regime's share of the request.
Replace(e, r, g) ==
  /\ edit' = [edit EXCEPT ![e].at = Append(@, r), ![e].seen = @ \cup PeriodsOf(r),
                          ![e].own = {p \in @ : p.regime # r} \cup PeriodRows(r, g.periods, g.edit)]
  /\ UNCHANGED <<regime, periods, edits, unseen, mixed, early>>

\* No number is below one or comes twice.
NormalizePeriods(q) == Range(q) \subseteq Nat \ {0} /\ IsInjective(q)

\* replacePeriods and deleteRegime name one regime by its id; replacePeriods
\* does not ask whether it exists.
OpenReplace(e, r, q) ==
  /\ NormalizePeriods(q)
  /\ edits < MaxEdits /\ edits' = edits + 1
  /\ Begin(e, "replace", <<[regime |-> r, periods |-> Range(q), edit |-> edits + 1]>>)

OpenDelete(e, r) ==
  /\ Stands(r) /\ UNCHANGED edits
  /\ Begin(e, "delete", <<[regime |-> r, periods |-> {}, edit |-> 0]>>)

LookById(e) ==
  /\ edit[e] # Idle /\ edit[e].kind \in {"replace", "delete"} /\ edit[e].at = <<>>
  /\ Replace(e, edit[e].file[1].regime, edit[e].file[1])
  /\ UNCHANGED nextRegime

\* An import takes its regimes by name, or draws ids for new ones, and replaces
\* the periods of each.
OpenImport(e, f) ==
  /\ edits + Len(f) <= MaxEdits /\ edits' = edits + Len(f)
  /\ Begin(e, "import", [i \in DOMAIN f |-> [name |-> f[i].name, start |-> f[i].start,
                           periods |-> f[i].periods, edit |-> edits + i]])

Upsert(e) ==
  LET i == Len(edit[e].at) + 1
      g == edit[e].file[i]
      old == {r \in Ids : Stands(r) /\ regime[r].name = g.name} IN
  /\ edit[e] # Idle /\ edit[e].kind = "import" /\ i <= Len(edit[e].file)
  /\ \A x \in Editors \ {e} : ~NameHeld(x, g.name) /\ \A r \in old : ~Holds(x, r)
  /\ \/ \E r \in old : Replace(e, r, g) /\ UNCHANGED nextRegime
     \/ /\ old = {} /\ nextRegime <= MaxRegimes
        /\ Replace(e, nextRegime, g)
        /\ nextRegime' = nextRegime + 1

----------------------------------------------------------------------------
(* ... and the rest of it, up to the commit.                               *)

Done(e) == edit' = [edit EXCEPT ![e] = Idle] /\ UNCHANGED <<nextRegime, edits>>

\* The open transactions that deleted periods of r before this commit adds some.
Overtaken(e) == {x \in (Editors \ {e}) \X {p.regime : p \in edit[e].own} :
                   edit[x[1]] # Idle /\ x[2] \in Range(edit[x[1]].at)}
Missed(e) == {r \in Range(edit[e].at) : <<e, r>> \in unseen}
Forgotten(e) == {x \in unseen : x[1] = e}

Committed(e) ==
  /\ Done(e)
  /\ unseen' = (unseen \ Forgotten(e)) \cup Overtaken(e)
  /\ mixed' = (mixed \ Range(edit[e].at)) \cup Missed(e)

\* Mistake: what was seen stays; only clashing periods make it fail.
ReplacedWithout(e) == periods \cup edit[e].own

\* The table with what the transaction saw replaced by its own.
Replaced(e) == (periods \ edit[e].seen) \cup edit[e].own

\* UNIQUE (regime_id, period_index).
Unique(P) == \A p, q \in P : p.regime = q.regime /\ p.index = q.index => p = q

CommitReplace(e) ==
  /\ edit[e] # Idle /\ edit[e].kind = "replace" /\ edit[e].at # <<>>
  /\ Unique(Replaced(e))
  /\ periods' = Replaced(e)
  /\ early' = IF Stands(edit[e].at[1]) THEN early ELSE early \cup {edit[e].at[1]}
  /\ Committed(e)
  /\ UNCHANGED regime

CommitImport(e) ==
  /\ edit[e] # Idle /\ edit[e].kind = "import" /\ Len(edit[e].at) = Len(edit[e].file)
  /\ Unique(Replaced(e))
  /\ periods' = Replaced(e)
  /\ regime' = [r \in Ids |->
       IF r \in Range(edit[e].at)
         THEN LET g == edit[e].file[CHOOSE i \in DOMAIN edit[e].at : edit[e].at[i] = r]
              IN [name |-> g.name, start |-> g.start]
         ELSE regime[r]]
  /\ Committed(e)
  /\ UNCHANGED early

\* A regime that is already gone rolls the deletion back.
CommitDelete(e) ==
  LET r == edit[e].at[1] IN
  /\ edit[e] # Idle /\ edit[e].kind = "delete" /\ edit[e].at # <<>>
  /\ Stands(r) /\ \A x \in Editors : ~Holds(x, r)
  /\ periods' = periods \ edit[e].seen
  /\ regime' = [regime EXCEPT ![r] = NoRegime]
  /\ Committed(e)
  /\ UNCHANGED early

\* A clash, a failing statement, a cancelled request or a crash.
RollBack(e) ==
  /\ edit[e] # Idle
  /\ Done(e)
  /\ unseen' = unseen \ Forgotten(e)
  /\ UNCHANGED <<regime, periods, mixed, early>>

RegimesNext ==
  \/ \E n \in RegimeNames, d \in Starts :
       CreateRegime(n, d) \/ \E r \in Ids : UpdateRegime(r, n, d)
  \/ \E e \in Editors :
       \/ \E r \in Ids : OpenDelete(e, r) \/ \E q \in PeriodLists : OpenReplace(e, r, q)
       \/ \E f \in Files : OpenImport(e, f)
       \/ LookById(e) \/ Upsert(e)
       \/ CommitReplace(e) \/ CommitImport(e) \/ CommitDelete(e) \/ RollBack(e)

RegimesSpec == RegimesInit /\ [][RegimesNext]_regimeVars

----------------------------------------------------------------------------
(* Properties.                                                             *)

\* All the numbers an edit asked for, or none of them.
Whole(P) == \A p \in P : \A i \in p.asked : [p EXCEPT !.index = i] \in P

\* However replacements, imports and deletions overlap, no period set of an
\* edit is left in part.  The periods of a regime are one edit's, and a regime
\* that is gone leaves none, unless the last transaction that replaced them had
\* missed another's commit (mixed: the next one that misses nothing makes it
\* good), or they were saved for an id that had no regime (ReplacePeriods and
\* DeleteRegime of schedule/store.go; importer/regimes.go).
PeriodsAreOneEdit ==
  /\ Whole(periods)
  /\ \A r \in Ids \ mixed :
       /\ \A p, q \in PeriodsOf(r) : p.edit = q.edit
       /\ PeriodsOf(r) # {} => Stands(r) \/ r \in early

PeriodRowSet == {p \in [regime : Nat, index : Nat, edit : Nat, asked : SUBSET Nat] :
                   p.index \in p.asked}

\* What an open transaction has at hand.
EditShape(e) ==
  LET t == edit[e] IN
  /\ t = [kind |-> t.kind, file |-> t.file, at |-> t.at, seen |-> t.seen, own |-> t.own]
  /\ t.at \in Seq(Nat)
  /\ t.kind \in {"replace", "delete"} =>
       /\ t.file[1].regime \in Nat /\ t.file[1].periods \subseteq Nat /\ t.file[1].edit \in Nat
       /\ Len(t.at) <= 1
  /\ t.kind = "delete" => t.file[1].periods = {}
  /\ t.kind = "import" => t.file \in Seq([name : RegimeNames, start : Starts,
                                          periods : SUBSET Nat, edit : Nat])

RegimesTypeOK ==
  /\ regime \in [Ids -> RegimeRows \cup {NoRegime}]
  /\ nextRegime \in Nat \ {0} /\ edits \in Nat
  /\ edit = [e \in Editors |-> edit[e]]
  /\ periods \subseteq PeriodRowSet
  /\ unseen \subseteq Editors \X Nat
  /\ \A e \in Editors : edit[e] # Idle => EditShape(e)

\* What a transaction writes is one whole set for each of its regimes.
OwnSet(e) ==
  LET own == edit[e].own IN
  /\ own \subseteq PeriodRowSet /\ Whole(own)
  /\ \A p \in own : p.regime \in Range(edit[e].at)
  /\ \A p, q \in own : p.regime = q.regime => p.edit = q.edit
  /\ edit[e].kind = "delete" => own = {}

\* What a transaction has seen are whole sets, and all there is but for what
\* others have committed since.
SeenSet(e) ==
  LET seen == edit[e].seen IN
  /\ seen \subseteq PeriodRowSet /\ Whole(seen)
  /\ \A p \in seen : p.regime \in Range(edit[e].at)
  /\ \A r \in Range(edit[e].at) : <<e, r>> \notin unseen => PeriodsOf(r) \subseteq seen

RegimesIInv ==
  /\ RegimesTypeOK /\ PeriodsAreOneEdit
  /\ \A e \in Editors : edit[e] # Idle => OwnSet(e) /\ SeenSet(e)
=============================================================================
