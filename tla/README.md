# A formal model of the campus management system

These TLA+ modules describe the concurrent core of the system in `src/`: a Go backend on
PostgreSQL (`src/backend`), an MQTT device SDK (`src/iot`), a React console (`src/web`) and a
WeChat mini program (`src/miniapp`). TLC checks them on small instances; the modules named
`*_proofs` hold theorems that TLAPS checks for every value of the constants. `PROJECT.json` is
the machine-readable index: components, runs, mutants, the lines every definition models,
hazards, findings, theorems.

Paths below without a prefix are relative to `src/backend/internal`.

## 1. The system

The backend is one process. Every HTTP request is a goroutine; a handler loads what it needs,
validates it in Go and calls a store, which runs SQL statements on a connection pool - alone, or
in a transaction at PostgreSQL's default level, READ COMMITTED. Nothing else than row locks
(`SELECT ... FOR UPDATE`), unique indexes and `WHERE` clauses of the writes keeps two requests
apart, so the order of statements *is* the concurrency design. Beside the requests run import
goroutines (two at a time), the presence loop of the devices, the MQTT consumer and retention
jobs.

| component | state | operations | interacts with |
|---|---|---|---|
| bookings and review (`booking`) | `classroom_bookings`: slot, status | create, review (approve, reject), cancel | shares the (classroom, date, periods) grid with sessions; locks `classrooms` rows |
| course sessions (`course/sessions.go`) | `course_sessions`: slot, offering | create, update, delete | same grid, same lock |
| classrooms (`classroom`) | `classrooms` | create, update, delete (refused while referenced) | referenced by bookings, sessions, tickets |
| repair tickets (`classroom/repair*.go`) | `classroom_repairs`: status, creator, assignee | create (gated), emergency create, update, confirm | classrooms, users |
| teaching classes (`user/org_store.go`) | `teaching_classes`, members | create, update, delete; members frozen while in use | offerings; locks `teaching_classes` rows |
| offerings (`course/store.go`) | `course_offerings` | create, update, delete | locks the teaching class they refer to |
| attendance (`attendance`) | `checkins`, `checkin_records` | create, close, scan by code, correct; card, lists, report | students; the clock |
| imports (`importer`) | `import_jobs` and what each importer writes | upload, confirm, re-analyse, cancel; analyse and commit in goroutines; recovery at startup | all of the tables above |
| timetable splitter (`importer/jwc`) | six files made of one sheet | split | its files are uploaded as import jobs |
| device commands (`iot`, `iot/mqtt`) | `iot_commands`, the MQTT client's store | request, publish, PUBACK, ack, expiry sweep, retention, deletion of the device | broker, device SDK |
| device registry and presence (`iot`) | `iot_devices`, `iot_events`, live streams | first contact, approval, states, wills, sweep, events | broker, console |
| device SDK (`src/iot/mqttc`) | retained states, event buffer file, running drivers | commands, states, events, replay on reconnect | broker |
| permissions (`iam`, `authz`) | roles, groups, direct grants with expiry | replace, grant, revoke, delete | every handler's guard |
| course catalog, admin classes, students (`course`, `user`) | rows that others name by id | CRUD, imports | offerings, sessions, profiles |
| login and audit log (`auth`, `systemlog`) | WeChat openids, `system_logs`, retention | login, bind, unbind, settings, purge | users |
| observation forms (`observation`) | drafts and submissions | save, submit, delete, export | sections, users |
| bell times (`schedule`) | regimes and periods | CRUD, replacement of periods, import | validation of every slot |
| settings of AI, mail and storage | one row each, with a secret | read masked, replace | - |
| AI assistant (`ai`) | one turn: rounds, stream, tools | a tool loop that reads | provider; drafts are submitted by the user |
| console and mini program | paged lists, chat | fetch, filter, page, stream | HTTP API |
| dashboards, metrics, documents, exports | - | reads | - |

What is hard: requests that check in one statement and write in a later one (double occupancy,
tickets, members of classes, dangling references); sets that are replaced by deleting the rows
one sees; locks taken in different orders by requests and by long import transactions; jobs that
outlive the process, or whose process dies between two statements; messages of devices that
arrive late, twice, or never, against deadlines and time-outs; a provider that falls silent;
state in a client that is overtaken by an older answer. The hazards in `PROJECT.json` name the
lines. What makes each component correct is stated with its module below.

## 2. Modules

| module | models | role |
|---|---|---|
| `Slots` | the grid, `conflicts`, `sessionConflict` | operators shared by the next three |
| `Reservations` | what bookings and sessions promise together | abstract specification |
| `Occupancy`, `Occupancy_proofs` | `booking`, `course/sessions.go`, `classroom.Delete` | transactions statement by statement; proofs |
| `OccupancyImport` | `importer/sessions.go`, `importer/bookings.go` | composes imports with `Occupancy`; its proofs are in `Occupancy_proofs` |
| `Rosters` | what teaching classes and offerings promise | abstract specification |
| `TeachingClass`, `TeachingClass_proofs` | `user/org_store.go`, `course/store.go`, `importer/teaching_classes.go`, `importer/offerings.go` | transactions with locks, unique names, deadlock detection; proofs |
| `Attendance` | what check-ins promise | abstract specification |
| `Checkin`, `Checkin_proofs` | `attendance` | scans against closes and corrections; proofs |
| `AttendanceViews` | `attendance/store.go`, `attendance/records.go`, `user/students.go` | card, lists, report, read beside writes; its proofs are in `Classroom_proofs` |
| `Repairs`, `Classroom_proofs` | `classroom/repair_store.go` | requests without transactions; proofs |
| `IotCommand` | `iot`, `iot/mqtt`, `src/iot/mqttc/client.go` | command life across backend, broker and device |
| `EventQueue` | `src/iot/mqttc/queue.go`, `client.go`, `iot/store.go` | events on their way, with the file of the buffer |
| `DevicePresence` | `iot/store.go`, `iot/mqtt/consumer.go`, `src/iot/mqttc/client.go` | states, wills, sweep, registry |
| `ImportJob`, `ImportJob_proofs` | `importer/handler.go`, `importer/store.go` | jobs, requests, goroutines, crashes; proofs |
| `Splitter` | `importer/jwc` | a pure algorithm whose loops take maps in any order; its proofs are in `TeachingClass_proofs` |
| `Grants` | `iam`, `authz`, `user/handler.go` | replaced sets at READ COMMITTED |
| `Observation` | `observation` | drafts, submissions, exports |
| `Bells`, `Bells_proofs` | `schedule.ActiveFor` | the regime in force on a date, an operator of others; proofs |
| `Regimes` | `schedule`, `importer/regimes.go` | edits of regimes |
| `Records` | `course`, `classroom`, `user`, their importers | rows that others refer to |
| `Access` | `auth`, `systemlog` | sign-in, WeChat binding, audit log, purge |
| `Settings` | the settings of `ai`, mail and storage | kept secrets |
| `Assistant` | `ai/agent.go`, `ai/openai.go` | one turn; its proofs are in `Checkin_proofs` |
| `PagedList` | `src/web/src/hooks/usePagedList.ts`, `src/miniapp/utils/paged.ts` | overlapping fetches |
| `ChatStore` | `src/web/src/ai/chatStore.ts`, `src/web/src/auth/AuthContext.tsx` | turns, resets, accounts |
| `Campus_proofs` | - | proofs about `Grants`, `Observation`, `Regimes`, `Access`, `Settings` |
| `Queues_proofs` | - | proofs about `IotCommand`, `EventQueue`, `DevicePresence`, `PagedList`, `ChatStore` |
| `MC*` | - | instances for TLC, with the symmetries that are sound |

Components that share no state that both write are checked in one run: each of the seven modules
of the passing runs (`MCOccupancy`, `MCOccupancyImport`, `MCDevices`, `MCCheckin`,
`MCTeachingClass`, `MCAnswered`, `MCCampus`) EXTENDS several modules and has a variable `focus`,
chosen once, that says which of them takes steps. This adds the state spaces instead of
multiplying them, and loses nothing, because a step of one module changes no variable of
another. `MCRegimes`, `MCSplitter` and `MCAssistant` hold the small inputs of their modules.

Definitions introduced by a comment "Mistake:" are variants of the code with one plausible bug.
No specification uses them. Each property is paired, in `mutants`, with the variant that breaks
it.

### Conventions of the transaction models

A client (`Clients`, `Scans`, `Consoles`, `Tabs`, `Editors`, `Clerks`, `Phones`, `Admins`) is a
request in flight; one variable is its next statement, another what it asked for and has read.
One action is one SQL statement. The last write of a transaction is fused with its commit,
because nobody reads an uncommitted row at READ COMMITTED; where a transaction writes many rows
before the commit (imports of teaching classes) they are kept in `pending`. `lock[r]` is the
holder of the row lock. A rollback is every error return; an abort is a failing statement, a
request cancelled by its client, a lost connection or a crash of the backend, all of which end
in PostgreSQL rolling the transaction back. Row ids come from finite sets because serial ids
never recur; running out of them disables arrivals and nothing else.

Where the code lets a race win, a history variable records that it happened (`crossed`,
`mislaid`, `raced`, `mixed`, `early`, `touched`, `overtaken`), and the property excepts exactly
what the race touched, for as long as it shows; all the rest is held to the promise while such
races happen beside it. Section 5 names each of them, as behaviour of the code that its comments
deny.

### Occupancy

*State.* `status` and `slot` of every row of `classroom_bookings` and `course_sessions`, the
rows of `classrooms`, their locks. *Actions.* `CreateBooking`, `CreateSession`, `UpdateSession`
start at `LockClassroom`, then `CheckSessions`, `CheckBookings` and the write. `ReviewApprove`
starts at the checks: `Review` takes no lock. `Cancel`, `ReviewReject`, `DeleteSession` have
read the row and write with a `WHERE` that tests its status again. `DeleteRoom` counts
references in one statement and deletes in the next (`RemoveRoom`). *Correct means* that no two
active occupants overlap (`NoOverlap`), nothing settled is rewritten (`SettledIsFinal`), no path
keeps the row lock (`LockHeldInside`), and that the whole is `Reservations`: an occupant takes a
free slot in one step and gives it up for good (`RefinesReservations`, with `held` the slot of
an active row). The interesting case is the approval without the lock: it re-checks, decides and
writes while others insert. It is safe because a pending booking already occupies its slot, so
an approval changes nothing about occupancy - it is a stuttering step of `Reservations`.

### OccupancyImport

A commit parses the file (dropping rows that overlap an earlier one: `KeptLines`), looks both
tables up outside any transaction and without the lock, and inserts what is left in one
transaction. `RequestStep` is any step of `Occupancy`. *Correct means* that the import adds no
overlap when it runs alone (`ImportAloneIsSafe`) and that the console's own requests keep their
promise whatever imports do (`OverlapOnlyFromImport`). An import beside a request may
double-book (section 5).

### TeachingClass

*State.* Names and members of teaching classes, the offerings' references, row locks, what
import transactions have written and not committed. *Actions.* Edits, deletions and offerings
lock the class row (`LockClass`), check use (`Check`) and write. An import of teaching classes
is a plan of groups worked through in one transaction; it may be refused a group (`Refuse`),
wait for a unique name (`Contended`) or have its transaction aborted by PostgreSQL (`Abandon`).
`BreakDeadlock` is PostgreSQL's deadlock detection. An import of offerings takes no lock and may
insert one at any moment: `raced` is the offerings that were imported for a class which some
transaction had already checked (or deleted), until that transaction ends; `Standing` is the
offerings without them. *Correct means* that the members of a class with a standing offering do
not change (`MembersFrozen`), that the whole implements atomic writes, an offering imported
behind a transaction's back counting from its end (`RefinesRosters`), and that all requests are
`Answered`. A request that arrives finds its client idle; the model lets it start at once.

### Checkin and AttendanceViews

A scan locks the check-in's row, refuses a closed or expired one, reads the clock and inserts
`ON CONFLICT DO NOTHING`. The end of the grace period and the expiry are events (`TimePasses`)
that happen at any moment and in either order. *Correct means* that a teacher's correction
stands whatever scans are under way (`CorrectionStands`), that nobody is recorded as present
after somebody was recorded as late (`PresentBeforeLate`), and the refinement of `Attendance`.
`Attendance` has no expiry: a scan that read the clock just before the expiry commits just after
it.

`AttendanceViews` is the other side of the same tables. A view - the card of a check-in, the
list of check-ins, the records, a student's own page, the report of an offering - is three or
four statements, and marks, classes and accounts change between any two of them. *Correct means*
that every view tells the same of each student who was not touched meanwhile (`ViewsAgree`).

### Repairs

No transactions at all: each request reads, decides and writes with one statement. *What
survives* any interleaving is that a ticket is confirmed only while completed and by its creator
(`ConfirmedFromCompleted`: the `UPDATE` tests again) and that work has an assignee
(`AssigneeKnown`, proved). What does not survive - the gate of ordinary tickets, the finality of
`confirmed` - is proved of one request at a time: the code's checks are right, their atomicity
is missing. Deleted users are left out, since they only disable requests.

### IotCommand

*State.* The device's row and a deletion under way, the status of each command's row, the
request's next step, whether the deadline has passed, the frame in the backend's MQTT client,
the frames at the broker, running drivers, acks on their way, and `reported`, the history of all
acks. *Actions.* Requests (`LoadDevice`, `InsertCommand`, `PublishTimeout`,
`MarkCommandPublished`, `FailCommand`), the wire (`Transmit`, `Puback`, `Lose`), the device
(`OnCommand`, `DriverDone`), the backend's loops (`ApplyAck`, `ExpireCommands`, `PurgeExpired`),
the three-statement `DeleteDevice`, and crashes of both sides. QoS 1 is modelled by frames and
acks that may stay after they are delivered. Assumed: the two clocks agree on the deadline, and
no time passes between the SDK's test of the deadline and the start of the driver's goroutine.
*Correct means* `OutcomeIsHonest`, `ExpiredNeverFires`, `EventuallySettled`, and
`SettledIsFinal`, which is proved and not repeated by a run.

### EventQueue

*State.* Where each `PublishEvent` stands (`sending`), the connection, what the MQTT client keeps
until it is acknowledged (`unacked`), the FIFO in memory (`entries`) and on disk (`file`), drain
goroutines that wait for the mutex (`drains`) and the one that holds it (`drainer`), what the
broker holds, and the registry's rows. *Actions.* `PublishEvent` hands a frame to the client and
waits; when that fails it buffers, dropping the oldest entry of a full FIFO, and rewrites the
file, which may fail. `OnConnect` starts a drain that publishes the head, drops it once
acknowledged and rewrites the file only when it ends. `DeviceRestart` keeps the file and nothing
else. *Correct means* that what was accepted survives a crash at any moment and is re-sent in
its order (`AcceptedIsKept`), and that a connection whose drain has ended left nothing behind
that did not fail on this very connection (`NothingLeftBehind`). That the registry stores a
repeated event once is its unique index, part of `HandleEvent`.

### DevicePresence

*State.* Ages of the states a device reported, the SDK's latest one, the connection, the
retained copy at the broker, the backend's inbox, the consumer's next statement (`job`), the row
of `iot_devices`. *Actions.* `PublishState` and the replay of a snapshot after a reconnect
(`Replay`) run side by side; the broker fires the will of a lost connection; the backend
resubscribes and gets the retained copy again; the consumer looks the device up, creates it,
applies a state or an offline mark, each a statement that may meet an approval, a deletion or
the sweep. *Correct means* that retained copy and row end at the latest state (`Converges`, but
for `crossed` replays and `mislaid` reports), and that a source that is gone for good is offline
for good (`VanishedGoesOffline`).

### ImportJob

*State.* The status of each job, `written` (its rows are in the business tables), requests,
goroutines (`work`: job, kind, step, verdict), and the environment: crashes so far, whether
statements may fail in this behaviour (`failing`, chosen once), and how many statements had
their effect and lost their answer (`lost`). *Actions.* A request loads a job and claims it with
a guarded `UPDATE` (`Claim`, `Cancel`), then starts goroutines, which pass the semaphore
(`Acquire`) and run. `SetStatus` is a status statement with its three outcomes. A restart fails
what was processing and requeues what was pending (`RecoverStale`) before it serves requests; it
may itself fail half-way. *Correct means* one goroutine per job (`OneHolder`), nothing written
that was not confirmed (`OnlyConfirmedWrites`), verdicts that are true both ways
(`VerdictIsTrue`: what shows success wrote; what shows failure did not, so that a second
confirmation does not write twice), and that accepted jobs end (`EventuallyAnswered`). With an
answer lost, `SavePreview` and `Finish`, which test no status, can overwrite each other;
`OneHolder` and `OnlyConfirmedWrites` are therefore stated for behaviours where none was lost so
far. That success means rows is stated always; that failure means none only before the first
lost answer or crash, since afterwards it is false (section 5).

### Splitter

`Split` is sequential: it groups rows by course number, finds parallel classes, names teaching
classes, dates the lessons and validates them against the regimes. What makes it hard is that
the groups live in a Go map, so that each loop takes them in an order of its own; a loop is one
action that chooses the order. *Correct means* that a sheet that passes becomes exactly the
lessons its rows say (`SplitsTheSheet`, against a definition that does not go by groups), and
that the files refer to each other (`FilesFitTogether`): each lesson's room, course, offering
and admin classes are in their files, each class with a grade that some row of it gives or else
the one its name tells, and each lesson falls where the bells ring. Not promised, because not so
(section 5): that the teaching class file names the classes as the offering file does, and that
the grade is the first one given.

### Grants

*State.* Accounts, roles and groups, and one set `grants` of rows for the five tables that link
them: each row knows the set it belongs to, its item, the request that wrote it (`batch`), and
whether it is still valid. *Actions.* A replacement is a transaction that deletes the rows its
statement's snapshot shows (`seen`), waits for rows another transaction has deleted (`taken`),
and inserts its own; rows inserted meanwhile stay. `UpdateGroup` locks the group's row by
updating it first; nothing locks an account or a role. Deletions of accounts, roles and groups,
the lapse of grants and the bootstrap of a restart are actions too. *Correct means* that nobody
holds the admin role but by the hands of an administrator (`AdminFromAdmins`) and that members
and roles of a group come from one update (`GroupIsOneUpdate`).

### Observation

Forms are created, edited, submitted, deleted and exported by requests that read a form and
later write with a statement that tests again that it is a draft; offerings and lessons may
change in between. *Correct means* that a submitted form is final (`SubmittedIsFinal`) and is
complete (`SubmittedWasComplete`), unless the very submission that went through was overtaken by
an edit between its validation and its `UPDATE`: `outdated` follows the submissions under way
that were, `raced` the forms they submitted. An edit before the validation, of another form, or
against a submission that then failed excuses nothing.

### Bells and Regimes

`Bells` is the operator that bookings, lessons, imports and the assistant share: which regime is
in force on a date, with the wrap over New Year. Properties of others test it against the
definition by `Since`, the days since a regime began. `Regimes` has the console's edits and the
import as transactions that replace the periods they see. *Correct means* that no edit's periods
are ever there in part, and that those of a regime are one edit's and go with it
(`PeriodsAreOneEdit`). `unseen` follows whose commits an open transaction has missed, `mixed` the
regimes last replaced by one that had: they may hold two edits' periods, each whole, until the
next replacement that misses nothing. `early` are the ids that got periods without a regime.

### Records

The course catalog, classrooms and admin classes with what refers to them. A deletion counts
references and deletes with a second statement; an insertion looks its target up, or does not.
What the handlers promise of such references does not hold, so no passing run states a property
of this module: `MembersKeepTheirClass` is violated (`member_class`), and section 5 names the
other references that may be of rows that are gone.

### Access

Login, WeChat login, binding, unbinding and the retention settings, statement by statement, with
clients that hang up (every later statement of the call then fails, the audit row too), accounts
that are deleted and the daily purge, which reads its settings before it deletes. *Correct
means* `AuditTellsTheTruth` - no second row for a call, and no row of a binding or of changed
settings without the change; the row of an unbinding tells nothing, since an `UPDATE` that found
no binding is logged alike - and `OnlyExpiredRowsGo`: a row goes only by settings that were in
force when the purge read them or since (`since`), never by older ones.

### Settings

A `PUT` with an empty secret reads the stored one and later writes the whole row. *Correct
means* that what is switched on is complete and that no secret is cleared but by a `PUT` that
another one overtook (`SettingsStand`, `overtaken`).

### Assistant

*State.* The stage of one turn, the tool calls of its rounds, the provider's response, the
bounded channel between the goroutine that reads it (the pump) and the turn, the bell times the
prompt was built from and those in force. *Actions.* The turn consumes items, runs tools, goes
on to the next round or to the last request, which offers no tools; idle timer and deadlines
fire; the pump reads whatever the provider sends, which may stop, break off, or not stream at
all; the browser may leave; the bell times may change. *Correct means* that a slot is judged by
the table the model was shown (`SlotsMatchPrompt`) and that a turn ends whatever the provider
does (`TurnEnds`).

### PagedList

One module for the two clients, because both promise the same list; `app` chooses. In the
console an event of the user renders at once, whereas a timer or an answer only sets the state
and the next `Rerender` sees all that was set; a changed filter is fetched once with the old
page before the reset to page 1 is rendered. In the mini program every change goes straight into
the state and a sequence number. *Correct means* that a list at rest shows what it asks for
(`ShownIsAsked`). Pages have one row: a longer page is full or not, as here.

### ChatStore

A turn carries the number of its conversation (`session`); resets, sign-ins and refused tokens
do not wait for the turn they abort. *Correct means* that the input is closed exactly while a
turn of this conversation streams (`InputFollowsTurn`), and that what a turn is sent with is
what its own account has seen (`SentIsShown`). Assumed: a sign-in and the effect that binds the
conversation are one step - nobody types in between.

## 3. Runs

| run | instance | shows |
|---|---|---|
| `occupancy` | 2 rooms, 1 day, 2 periods, 2 requests, 2 bookings, 1 session; lists: up to 2 pages, 2 searches, 2 filters, 3 acts of the user; chat: 2 people, 3 turns, 3 resets | no double booking, refinement of `Reservations`; lists at rest, one conversation at a time |
| `occupancy_import` | imports: 1 room, 1 period, 2 requests, 2 bookings, 1 session, 1 import of up to 2 rows; views: 2 check-ins, 2 students, 1 write while a view is read; settings: 2 administrators, complete, incomplete and overlong bodies | requests stay safe among themselves, an import alone is safe; views agree; secrets stand |
| `devices` | presence: 2 states, 1 resubscription, 1 deletion; commands: 1 command, 2 driver runs | convergence of the registry, honest commands; and that commands and presence settle |
| `checkin` | 1 check-in, 2 students, 2 scans; 2 tickets, 1 room, 2 users, 2 requests; 1 turn of 2 rounds, channel of 2, responses of up to 2 items, 2 calls at once | scans, refinement of `Attendance`, every scan answered; confirmations; turns end |
| `teaching_class` | 2 classes, 2 names, 2 admin classes, 2 offerings, 2 clients, files of 2 groups; sheets of up to 3 rows | members stay frozen, refinement of `Rosters`, with offerings imported at any moment; the splitter |
| `answered` | teaching classes: 2 classes, 2 names, 1 offering, 2 clients, imported offerings too; import jobs: 2 jobs, 2 requests, 2 goroutines, 1 slot, 1 outage | every request is answered, deadlocks included; with working statements every job ends |
| `campus` | grants: 2 accounts, 1 group, 1 custom role, 2 consoles, 2 requests, 1 restart; forms: 2 forms, 1 observer, 1 course, 1 lesson, 2 requests, 2 saves; bells: 2 regimes, 2 editors, 2 edits; records: 2 ids, 2 keys, 1 student, 2 clerks; access: 2 accounts, 1 WeChat id, 2 clients, 2 calls, 2 windows, 2 days; events: 2 events, 1 caller, buffers of 1 or 2, 1 crash; import jobs: 2 jobs, 2 requests, 2 goroutines, 1 slot, 1 outage, 1 lost answer | grants, forms, bell times and the log keep their rules; the device's buffer; jobs in one hand and honest |
| `occupancy_dangling` | violated | a room is deleted between the count and the `DELETE` |
| `member_class` | violated | a teaching class takes an admin class as a member between the count and the `DELETE` |
| `assistant_fallback` | violated | a provider that answers without streaming crashes the request |
| `splitter_names` | violated | one teaching class gets two names |
| `miniapp_list` | violated | rows of two filters in one list |

*Bounds.* Every hazard of the transaction models needs two transactions that meet on one row; a
third participant is a committed row (an id more). Two periods are the least with ranges that
touch, contain and miss each other. The room that is *not* contended appears as a second room in
`occupancy`; the other instances need none. Files of two groups are the least that lock in
opposite orders, and two classes with two names let an import meet an edit of either class while
the other one is new. For `IotCommand` commands share nothing but the sweep, the retention and
the crashes, which act on all rows alike; the proofs cover any number. `MaxRuns` 2 lets a
frame's second delivery overlap its first. In `EventQueue` two events fill a buffer of one, so
that it sheds; a drain and a caller, two drains and a crash meet. In `DevicePresence` two states
are the least that can overtake each other, and `OnlineTTL` 0 makes every tick a stale one; the
sweep treats longer times alike. `ImportJob` has as many goroutines as jobs and one slot, so
that the semaphore is contended (the code has two slots and any number of jobs). Sheets of three
rows let two rows share a course number and a third have the same classes. The log starts with
the shorter of two windows, so that a change while a purge is due lengthens it, or switches it
off: a purge by the older settings would show. Three acts of a user are a filter, a page and a
search in any order, each with its request in flight; three turns let one end after two resets.
`MaxEvents`, `MaxCrashes`, `MaxOutages`, `MaxRequests`, `MaxRestarts`, `MaxSaves`, `MaxEdits`,
`MaxWrites`, `MaxCalls`, `MaxDays`, `MaxActs`, `MaxTurns`, `MaxResets`, `MaxRemovals`,
`MaxResubscribe`, `MaxState`, `MaxLost` cap what the environment may begin; nothing that has
begun is cut off by them. `MaxRounds`, `QueueMax`, `ChannelSize`, `MaxParallel` are small values
of limits the code has.

Deadlock checking is off wherever ids or budgets run out: the system may then really stop; that
requests do not stop is what `Answered`, `ScanAnswered`, `EventuallySettled`,
`EventuallyAnswered` and `TurnEnds` check.

*Symmetry* is used only in runs without liveness, over sets whose members the specification
treats alike: `occupancy`, `occupancy_import` and `teaching_class`.

*Fairness.* A handler or a transaction that was started keeps executing: weak fairness of its
statements. PostgreSQL queues the waiters of a row lock and of an index entry in order of
arrival, and a Go channel serves its senders in order: strong fairness of `LockCheckin`, `Wait`
and `Acquire`, which are enabled again and again but may be disabled in between. `IotCommand`
assumes that requests execute, time passes and the presence loop runs every minute, and nothing
of the broker or the device: they may stay away for good. `DevicePresence` assumes the same
loop, the clock and the consumer's statements. `Assistant` assumes that the turn runs on and its
timers fire (`TurnStep`), and nothing of the provider. `Abort` and crashes are never fair. In
`ImportJob` progress is claimed for behaviours in which statements do not fail: when `Finish`
fails, the code only logs it and the job stays `processing` until the restart.

## 4. Proofs

The eight `_proofs` modules follow one argument. The model holds an invariant in inductive form
(`IInv`, `JobsIInv`, ...), which TLC confirmed on the instances of section 3 before it was
proved; a lemma per action or group of actions shows that a step keeps it; a theorem named
`Invariance` or `...Invariance` states `Spec => []IInv`; invariants that a run checks follow
from it, action properties and refinements from it and one step. `PROJECT.json` lists the
theorems and the properties they state.

- **Occupancy.** `NoOverlap` alone is not inductive: an insert keeps it only if the checks
  before it still hold when it happens. `CheckStands` says that they do: past the lock statement
  the request holds its room's lock, and what it found free is still free. The step that matters
  is another client's write: it puts an occupant only into the room whose lock it holds itself,
  which is a different one (`InsertInductive`, `MoveInductive`). Writes without the lock only
  settle rows, so they shrink the set of occupants (`FewerOccupants`). `Refinement` maps
  rejects, cancels and deletes to `Release`, approvals to stuttering.
- **OccupancyImport.** An import inserts without the lock, so the invariant of `Occupancy` fails
  for all rows and holds for those no import inserted: `IInvIn(X)` is stated of a set of rows,
  and every lemma about a request is proved for any `X`. `RequestsKeepApart` takes `X` to be the
  rows that are not imported. For an import that nothing runs beside, `CleanApart` (the rows kept
  of the file are apart from each other) and `LookupsStand` (a row that passed a lookup is still
  apart from the table) give `AloneImportsAreSafe`.
- **TeachingClass.** The conjuncts follow what a transaction knows: under the lock of a class it
  found existing or unused, it stays so until the write (`CheckStands`); what an import has
  written and not committed is of classes it holds the lock of, or new ones, under names nobody
  else has (`PendingStands`, `PendingApart`, for the commit that shows all of it at once); the
  groups it has still to do are of other classes (`PlanOK`). `Refinement` maps a commit to one
  `WriteClasses`. Offerings may be imported at any moment in all four theorems; what is said of
  offerings is said of `Standing`, those that no open transaction has missed, and the step in
  which a transaction ends admits the ones it missed (`Noticed`): an offering whose class it
  deleted never counts.
- **Checkin.** `IInv` says that a scan past its lock is the holder and the row is active; so a
  close, which waits for the lock, cannot fall between check and insert. `PresentBeforeLate`
  needs that the verdict of the one scan inside is not older than any recorded `late`.
- **IotCommand.** The strengthening is that acks on the wire were reported, that `expired` rows
  are overdue, and that a request which has not inserted yet has no row. `SettledIsFinal` is
  only proved.
- **Repairs.** `RIInv` keeps requests and tickets well formed; `AssigneeKnown` holds since
  `WriteUpdate` always writes the assignee. `AloneGateHolds` and `AloneConfirmedIsFinal` assume
  that `Clients` has exactly one member and strengthen `RIInv` by what the one request has read.
- **AttendanceViews.** The card compares sizes of sets that its statements read at different
  moments. The strengthening, `CountStands`, says of a number that was counted of a set: it is
  the number of untouched students in the set of now, and at most as many more as were touched.
  It holds when the number is counted and while more students are touched (`CountTaken`,
  `CountGrows`), whatever a change does to the set. `AbsentCount` adds up three such numbers, as
  `backfillCounts` does; the sizes of disjoint sets add up by `DisjointSize`, of the bijections
  behind `Cardinality`. For the report, `ReportOK` says what the rows read so far tell of every
  untouched student (`Told`).
- **ImportJob.** While no answer is lost, a job's status says who has it in hand (`InHand`:
  `HeldState` of goroutines, `RequestState` of requests). A guarded `UPDATE` that succeeds
  therefore finds nobody else with the job. A lost answer breaks that, so the invariant has two
  parts: `Honest`, which always holds and says that success means rows, and `lost = 0 => InHand`.
  `VerdictHolds` adds what holds until the first lost answer or crash: a job that has not
  reached its commit, or failed, is `Untouched`.
- **Grants.** What a `DELETE` has seen and taken is all there is of a group's rows while one
  request holds the group's row (`LockHeld`); so an update that commits leaves its own rows and
  no others (`OneUpdate`), and a set that brings in the admin role comes of a trusted request
  (`CallShape`, `AdminFromAdmins`).
- **Observation, Regimes, Access, Settings.** Each needs one fact about the requests under way:
  a submission that was validated is still of a complete form, or is marked as outdated
  (`Validated`); what a transaction writes is whole sets, and what it has seen of a regime is
  all there is unless `unseen` says otherwise (`OwnSet`, `SeenSet`); calls are numbered and
  their log row is their last step (`Numbered`, `RecordLast`); a `PUT` that will write is
  complete, and has looked at the stored secret unless it was overtaken (`PutOK`).
- **EventQueue.** `AcceptedIsKept` relates the FIFO, the file, the client's store and the broker,
  so all four appear in `QIInv`: an event is buffered once (`BufferedOnce`), what has left the
  client's store is with the broker (`SentIsDelivered`), nothing behind an unsent event was
  tried by a drain (`TriedInOrder`, of the FIFO and of the file), and the file is the FIFO of
  some earlier moment (`FileFollows`) - which is what a restart, that knows only the file, needs.
- **DevicePresence.** The last state handed to the client is the latest one (`LatestIsHanded`),
  the last state on its way to the consumer is the retained one, and when none is, the row shows
  it (`RetainedIsLast`). When nothing is under way the three are one: `Converges`.
- **PagedList.** Only the latest request asks for what was asked last (`LatestAsks`), the state
  follows the field when the debounce is over (`FieldFollows`), and after the last change of this
  client the answer in flight is true, and so is the list once it is in (`AnswersStand`).
- **ChatStore.** A turn of the present conversation is the last one sent (`LastTurnStreams`), and
  everything in the window was said by its owner (`OwnerSays`).
- **Bells.** `ActiveFor` is a loop over a listing, that is, a fold over a sequence, which the
  community modules define by a recursive function of sets of positions. That the function exists
  (`FoldExists`) and what it computes after *n* positions are both proved by induction over *n*
  (`NaturalSteps`), which is stated of a set of numbers and rests on every set of naturals having
  a least member; so is that every table has a listing in the order of `ORDER BY`
  (`ListingExists`). `ActiveForIs` then says which row the loop ends with: the latest start of
  those begun, the lowest id of one day. `ActiveForBeganLast` says the same with the wrap over
  New Year, in the terms the properties of others use.
- **Assistant.** Only the prompt reads the table in force, and a tool that offers a slot does so by
  the table of the prompt (`PromptFirst`); `TurnKeepsItsTable` adds, from `ActiveForBeganLast`,
  that the regime it judged by is the one in force on the slot's date.
- **Splitter.** The strengthening says what the rows read so far have made of each course number's
  group (`GroupOK`): the course, code and classes of its first row, the teachers and cells of all
  of them, and one slot for each cell that can be read, of the first row that has it (`SlotsOK`).
  Each later call is a function of the groups, or of them and of one order in which the loops take
  them, so the rest of `SplitIInv` says that its result is still that (`TablesOK`, `WrittenOK`).
  `SheetIsSplit` and `LessonsLoad` read the files off it, the second with `ActiveForBeganLast` for
  the bell times.

*Assumed of the constants,* by named assumptions TLC evaluates in the runs: limits are natural
numbers; the ids of two tables are different; markers like `None`, `NoJob` and `Quiet` are none
of the data they stand beside; in `ImportJob` a goroutine is not a request
(`Operators \cap Workers = {}`); in `Settings` the bodies are settings, and the empty text is
neither malformed nor too long; in `AttendanceViews` there are finitely many students, as there
are rows; tables of regimes are finite, an id is the primary key and a start is a date, 101 to
1231 (`AreRegimes`), and the assistant's slots are dates too; in `Splitter` a sheet and a cell of
classes are sequences, and the term (`Calendar`) is long enough for every week that a readable
row names - the code computes dates without end, the model has a bound. No theorem bounds the
number of rows, requests, files or events.

*Only model-checked.* Liveness under fairness is out of the prover's reach: `ScanAnswered`,
`VanishedGoesOffline`, `EventuallySettled`, `TurnEnds`, `Answered`, `EventuallyAnswered`. Every
safety invariant of a passing run is proved. The proofs about
the splitter do not open the weeks of a cell (`WeeksOf`) or the compressed name of a class
(`PartsOf`): they hold whatever these compute, and say nothing of what that is.

## 5. Disagreements of code and comments

With a run (`findings`):

- `classroom/store.go:330`: a classroom is deleted under a new booking (`occupancy_dangling`).
- `ai/openai.go:183`: the fallback for providers that do not stream hands the turn a stream
  without a body, and the turn closes it (`assistant_fallback`).
- `user/org_store.go:188`: an admin class is deleted under a teaching class that has just taken
  it as a member; `user/org_handler.go:201` promises 409 (`member_class`).
- `importer/jwc/split.go:419`: two loops name one teaching class differently;
  `importer/jwc/teaching.go:28-29` says that rows with the same members in another order are one
  class (`splitter_names`).
- `src/miniapp/utils/paged.ts:140`: `loadMore` drops a first page in flight and appends the
  second to rows of the old filter (`miniapp_list`).

Met while modelling; the models contain the behaviour unless said otherwise, and the properties
are stated so as to allow it.

*Bookings, tickets, teaching classes.*

- `importer/sessions.go:261`: an import looks for conflicts before its transaction and without
  the lock, and double-books beside a request (`OverlapOnlyFromImport` excepts its rows).
- `classroom/repair_store.go:90`: two ordinary tickets for one room pass the gate at once.
  `:141`: an update that read a ticket before its confirmation moves it afterwards; lines
  125-126 say that confirmed is terminal. Line 132 lets a completed ticket be reopened; line 124
  says `Update` advances open ones.
- `importer/offerings.go:303`: an imported offering takes no lock. It slips in between the check
  of an edit, an import or a deletion and its write, so the members of a class in use change, or
  the class goes; `user/org_store.go:484` says that an insert "cannot slip in between the check
  and the member rewrite", `course/README.md:67` that members are frozen (`raced`).
- `importer/teaching_classes.go:315`: after a unique violation PostgreSQL refuses the rest of
  the transaction, so the whole import fails; lines 312-313 say the group is skipped.
- `importer/teaching_classes.go:243-245` says imports and edits cannot deadlock. An edit that
  renames a class to a name the import has inserted waits for the import, which may wait for the
  lock of that class; PostgreSQL fails one of them (`BreakDeadlock`).
- `importer/store.go:443`: a restart marks every job found `processing` as failed, also one whose
  rows were committed before the process stopped; a commit whose answer is lost ends as failed
  too. Such a job can be confirmed again and then writes again. `importer/model.go:15`: "could
  not parse/commit".
- `importer/store.go:125`: reading the new jobs back after the commit can fail; the handler then
  answers with an error (`importer/handler.go:408`: "no jobs created") and starts no goroutine:
  the jobs stay pending until the next restart.

*Attendance.*

- `attendance/store.go:270`: the auto-close of an expired check-in runs in the scan's
  transaction and is rolled back by the error return that follows; the comment at line 233 says
  it closes (`RefuseExpired` changes nothing).
- `attendance/store.go:183`: `PageCheckins` never calls `backfillCounts`, so lists and the
  check-ins of a report carry counts of zero; `attendance/model.go:51` says a view has its
  per-status counts.
- The list's filter `status=active` uses the stored status, while the status shown is the
  effective one. The counts of a card include records of deleted accounts, the lists do not. A
  card may count a student who is written meanwhile not at all, or twice.

*Devices.*

- `iot/handler.go:391`: after a PUBACK time-out the row is `failed`, the frame is still
  delivered, the device runs it and its ack is dropped as late; `src/iot/spec/spec.md:72-73`
  says that `failed` is what the device reported.
- `iot/store.go:343`: a command inserted during or after the three statements of `DeleteDevice`
  outlives its device; line 336 says the history goes with it.
- `src/iot/mqttc/client.go:165`: the snapshot of a reconnect may be published after a newer
  `PublishState`, and the broker then retains the older state; `src/iot/spec/spec.md:47` counts
  on the retained copy to rebuild the view.
- `src/iot/mqttc/client.go` `Close` says the will fires; an orderly DISCONNECT discards it. The
  spec has `_meta` will messages retained, the SDK passes `retain=false`. The spec's "按序补发"
  holds among re-sent frames only: new events overtake them.
- `src/iot/mqttc/client.go:310`: no record of command ids is kept, so a redelivered frame starts
  the driver again.
- `iot/store.go`: when the command is inserted and reading it back fails, the request answers an
  error and publishes nothing, and the row stays queued until the sweep.
- A device counts as new whenever the lookup missed it, also when another report created it
  meanwhile.

*Permissions.*

- Replacements of one user's roles that overlap leave the union; the comment says the whole set
  is replaced.
- `DeleteGroup` beside `UpdateGroup` can leave rows of a deleted group that still grant.
  `DeleteRole` counts uses and deletes with another statement ("Refuse rather than cascade"); an
  update of a deleted role leaves its permissions behind. The "harmless orphan rows" of a
  deleted user keep a role from being deleted.
- The bootstrap of an administrator does not happen when an expired or dangling grant of the
  admin role exists.

*Observation forms, bell times, records.*

- `observation/handler.go:318`: `Submit` re-reads owner and status and does not validate again, so
  an edit between validation and `UPDATE` is submitted incomplete; line 304 says "the store
  re-checks on submit" (`raced`). One lesson can be reviewed once by occurrence and once by
  periods. Forms of a deleted offering are hidden.
- `schedule/store.go:289`: of two replacements that overlap each deletes the rows it sees, and the
  periods of both stay where they differ; line 278 says that one transaction deletes all periods
  and inserts the given set (`mixed`).
- `ReplacePeriods` saves periods for an id without a regime, answers 404, and a later regime
  inherits them. Two regimes may start on one date and the last one can be deleted, where the
  API documents 409; periods need not be contiguous. A seeding cut off by a crash is not
  repaired.
- `course/store.go:363`: `CreateOffering` does not look its course up, where
  `course/handler.go:311` promises 400; `user/students.go:89`: `AddStudent` does not look its
  class up, where line 212 promises 404; `DeleteAdminClass` ignores profiles; a profile of a
  class that is gone keeps its student from being added elsewhere; `DeleteAccount` leaves the
  profile.

*Assistant, settings, accounts.*

- The pump blocks for ever when a turn ends while the channel is full. A connection that closes
  without `[DONE]` is a normal end. Tool calls of an answer that is not streamed carry no index
  and would merge.
- "The stored secret can therefore never be cleared through the API": two overlapping `PUT`s
  clear it.
- `Audit` "records every mutating request": the row is lost when the client leaves after the
  commit. `auth/handler.go:342`: `wx-unbind` answers 204 and logs a success also when its `UPDATE`
  changed no row, where the documentation has 200, and 400 "no binding to remove"
  (`AuditTellsTheTruth` says nothing of unbindings). Binding for a deleted account reports
  "already bound".
- A purge may apply settings that were changed after it read them.

*Splitter and clients.*

- `importer/jwc/split.go:368`: the grade of an admin class is decided by the first row that names
  it: when that row's cell is empty the grade comes from the class name, whatever a later row
  says; line 359 says the first cell that is not empty, otherwise the name (`FilesFitTogether`
  asks only for one that some row gives or else the name tells).
- `importer/jwc/split.go:484` sorts by course number "to be repeatable"; the names of teaching
  classes still depend on the order of a Go map. A single class name of more than 64 characters
  would index past the members (not modelled). Rows with overlapping weeks give the same lesson
  twice; a course without code or name gets offerings that the importers refuse.
- `src/web/src/hooks/usePagedList.ts:124`: "Changing the search term ... starts a new result
  set: page 1" - the page is reset when typing, the search starts 300 ms later, and a page
  chosen in between is kept.
- Mini program: scrolling twice before an answer, or after a failed append, skips a page;
  scrolling during the debounce makes the new search start at page 2; a reload on page *n* shows
  page *n* only.
- A stream that fails while a tool runs leaves its step shown as running.

## 6. What is left out, and what is next

Left out of the modelled components: texts, descriptions, paging, exports and who may call what
beyond the grants themselves; in `TeachingClass` the columns no rule depends on; in imports the
parsing of cells; in `Grants` names, passwords and the seeding of an emptied users table; in
`Observation` the classroom of a form; in `PagedList` a changed page size; in `ChatStore` the
coalescing of stream updates. Partly modelled are the device registry (renaming and the
console's event stream are left out), the assistant (its settings are in `Settings`; the layout
of a tool's result is left out), the console and the mini program (pages and layout are left
out).

Not modelled: dashboards, metrics, the module registry and branding (read-only aggregates and
static tables); course lists and the timetable export (queries and layout); document writers and
readers (layout of office files); infrastructure (the connection pool and HTTP helpers, whose
statements are steps of the models); deployment, documentation and the simulator (configuration,
a test tool). No rule of the system depends on state they keep.

Worth modelling next: the console's event stream, and the
maintenance status of a classroom in `Occupancy`.
