CONSTANTS
  Accounts = {boot, u1}
  Groups = {g1}
  CustomRoles = {r1}
  Boot = boot
  Admin = Admin
  Wildcard = Wildcard
  Manage = manage
  Perms = {manage}
  Consoles = {c1, c2}
  NoCall = NoCall
  MaxRequests = 2
  MaxRestarts = 1
  MaxSet = 1
  Forms = {f1, f2}
  Observers = {v1}
  Courses = {k1}
  Lessons = {l1}
  SectionLists <- SectionsOfTwo
  Tabs = {t1, t2}
  NoForm = NoForm
  Gone = Gone
  NoLesson = NoLesson
  NoJob = NoJob
  MaxSaves = 2
  MaxRegimes = 2
  RegimeNames = {"s", "w", ""}
  Starts = {501, 1001, 1332}
  PeriodLists <- OneOrTwo
  Files <- Uploads
  Seeds <- SeedList
  Editors = {e1, e2}
  NoRegime = NoRegime
  Idle = Idle
  MaxEdits = 2
  RowIds = {1, 2}
  Keys = {"a", "b"}
  Students = {s1}
  Clerks = {d1, d2}
  MaxRows = 2
  BlankCell = ""
  NoKey = NoKey
  Erased = Erased
  NoClass = NoClass
  Members = {m1, m2}
  WeChatIds = {i1}
  Phones = {p1, p2}
  Windows = {1, 2}
  NoId = NoId
  Quiet = Quiet
  MaxCalls = 2
  MaxDays = 2
  MaxEvents = 2
  MaxCallers = 1
  QueueMax = 2
  MaxCrashes = 1
  ImportJobs = {j1, j2}
  Operators = {r1, r2}
  Workers = {w1, w2}
  Slots = 1
  MaxOutages = 1
  MaxLost = 1
  NoWork = NoWork
SPECIFICATION MCSpec
INVARIANTS AdminFromAdmins GroupIsOneUpdate SubmittedWasComplete PeriodsAreOneEdit AuditTellsTheTruth AcceptedIsKept NothingLeftBehind OneHolder OnlyConfirmedWrites VerdictIsTrue
PROPERTIES SubmittedIsFinal OnlyExpiredRowsGo
CHECK_DEADLOCK FALSE
