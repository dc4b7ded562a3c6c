---------------------------- MODULE Observation ----------------------------
(***************************************************************************)
(* Lesson reviews.  A form is a draft of its observer until she submits    *)
(* it; a submitted form is exported as a document.  Every request reads,   *)
(* decides in Go and writes with one statement of its own, which tests     *)
(* again that the form is a draft.  What else was read may be stale.       *)
(***************************************************************************)
EXTENDS Naturals, FiniteSets, Functions

CONSTANTS
  Forms,           \* ids of observations rows (a bound: ids never recur)
  Observers, Courses, Lessons,
  SectionLists,    \* lists of periods a form names when it names no lesson
  Tabs,            \* requests served concurrently
  NoForm, Gone, NoLesson, NoJob,   \* no row yet, deleted
  MaxSaves         \* bound: writes of a form's content

Contents == [course : Courses, lesson : Lessons \cup {NoLesson}, sections : SUBSET Nat,
             key : SUBSET Nat, complete : BOOLEAN, save : Nat]
Rows == [owner : Observers, status : {"draft", "submitted"}, content : Contents]
FormJobs == [form : Forms \cup {NoForm}, owner : Observers, content : Contents]

ASSUME ObservationAssumption ==
  /\ NoLesson \notin Lessons /\ NoLesson \notin [course : Courses, periods : SUBSET Nat]
  /\ NoForm # Gone /\ NoForm \notin Rows \cup Forms /\ Gone \notin Rows /\ NoJob \notin FormJobs
  /\ \A s \in SectionLists : Range(s) \subseteq Nat \ {0}

VARIABLES
  form,       \* each observations row
  offered,    \* rows of course_offerings
  lesson,     \* the course and the periods of each course_sessions row
  renderer,   \* whether the deployment has a document backend
  tab, job,   \* the next statement of each request, and what it wants
  saves,      \* contents saved so far: the number of the last one
  outdated,  \* history: submissions whose form was rewritten since they validated it
  raced       \* history: forms that such a submission has submitted

formVars == <<form, offered, lesson, renderer, tab, job, saves, outdated, raced>>
world == <<offered, lesson, renderer>>

----------------------------------------------------------------------------
(* Content.                                                                *)

\* Sorted and without duplicates; the hash of it is taken to be injective.
NormalizeSections(s) == Range(s)

\* The UNIQUE keys of a form: its lesson, or else its course and its sections.
Key(c) == IF c.lesson # NoLesson THEN <<"occurrence", c.lesson>>
          ELSE <<"sections", c.course, c.key>>

\* The course must be offered, and the lesson be one of its lessons.
Offered(k) == k \in offered
LessonOf(k, l) == l # NoLesson => lesson[l] # NoLesson /\ lesson[l].course = k

\* Sections that are not given are the lesson's, copied when the form is saved.
SectionsOf(l, s) == IF l = NoLesson THEN NormalizeSections(s) ELSE lesson[l].periods

\* prepare, once the course and the lesson are found.
Prepared(k, l, s, complete, n) ==
  [course |-> k, lesson |-> l, sections |-> SectionsOf(l, s),
   key |-> IF l = NoLesson THEN NormalizeSections(s) ELSE {},
   complete |-> complete, save |-> n]

Exists(f) == form[f] \notin {NoForm, Gone}

\* Get joins the offering: without it the form is not found.
Readable(f) == Exists(f) /\ form[f].content.course \in offered

Duplicate(f, o, c) ==
  \E g \in Forms \ {f} : Exists(g) /\ form[g].owner = o /\ Key(form[g].content) = Key(c)

ObsInit ==
  /\ form = [f \in Forms |-> NoForm]
  /\ offered = Courses
  /\ \E k \in Courses : lesson = [l \in Lessons |-> [course |-> k, periods |-> {1, 2}]]
  /\ renderer \in BOOLEAN
  /\ tab = [t \in Tabs |-> "idle"]
  /\ job = [t \in Tabs |-> NoJob]
  /\ saves = 0
  /\ outdated = {} /\ raced = {}

----------------------------------------------------------------------------
(* Requests: what is read first.                                           *)

Open(t, first, j) ==
  /\ tab[t] = "idle"
  /\ tab' = [tab EXCEPT ![t] = first]
  /\ job' = [job EXCEPT ![t] = j]
  /\ UNCHANGED <<form, world, outdated, raced>>

Save(t, first, f, o, k, l, s, complete) ==
  /\ saves < MaxSaves /\ saves' = saves + 1
  /\ Offered(k) /\ LessonOf(k, l)
  /\ Open(t, first, [form |-> f, owner |-> o, content |-> Prepared(k, l, s, complete, saves + 1)])

CreateForm(t, o, k, l, s, complete) == Save(t, "insert", NoForm, o, k, l, s, complete)

Own(f, o) == Readable(f) /\ form[f].owner = o

UpdateForm(t, o, f, k, l, s, complete) ==
  /\ Own(f, o) /\ form[f].status = "draft"
  /\ Save(t, "update", f, o, k, l, s, complete)

Of(f, o) == [form |-> f, owner |-> o, content |-> form[f].content]

\* Mistake: the renderer is not asked.
SubmitAnything(t, o, f) ==
  /\ Own(f, o)
  /\ Open(t, "submit", Of(f, o))
  /\ UNCHANGED saves

\* The handler validates what it reads; Submit reads the form again.
SubmitForm(t, o, f) ==
  /\ Own(f, o)
  /\ renderer => form[f].content.complete
  /\ Open(t, "submit", Of(f, o))
  /\ UNCHANGED saves

DeleteForm(t, o, f) ==
  /\ Own(f, o) /\ form[f].status = "draft"
  /\ Open(t, "delete", Of(f, o))
  /\ UNCHANGED saves

\* By the observer or by whoever manages observations.
Export(t, f) ==
  /\ Readable(f) /\ form[f].status = "submitted" /\ renderer
  /\ Open(t, "stamp", Of(f, form[f].owner))
  /\ UNCHANGED saves

----------------------------------------------------------------------------
(* The statements that follow.                                             *)

Idled(t) ==
  /\ tab' = [tab EXCEPT ![t] = "idle"]
  /\ job' = [job EXCEPT ![t] = NoJob]
  /\ UNCHANGED <<world, saves>>

Reply(t) == Idled(t) /\ outdated' = outdated \ {t} /\ UNCHANGED raced

InsertForm(t) ==
  /\ tab[t] = "insert"
  /\ \/ /\ ~Duplicate(NoForm, job[t].owner, job[t].content)
        /\ \E f \in Forms :
             /\ form[f] = NoForm
             /\ form' = [form EXCEPT ![f] = [owner |-> job[t].owner, status |-> "draft",
                                             content |-> job[t].content]]
     \/ /\ Duplicate(NoForm, job[t].owner, job[t].content)
        /\ UNCHANGED form
  /\ Reply(t)

Draft(f) == Exists(f) /\ form[f].status = "draft"

\* Requests that have validated the form and not submitted it yet.
Submitting(f) == {t \in Tabs : tab[t] \in {"submit", "flip"} /\ job[t].form = f}

\* They are outdated by whoever rewrites the form now.
Rewrite(t) ==
  LET f == job[t].form IN
  /\ form' = [form EXCEPT ![f].content = job[t].content]
  /\ outdated' = outdated \cup Submitting(f)
  /\ Idled(t) /\ UNCHANGED raced

\* Mistake: UPDATE ... WHERE id.
WriteAnyForm(t) ==
  LET f == job[t].form IN
  /\ tab[t] = "update"
  /\ \/ /\ Exists(f) /\ ~Duplicate(f, job[t].owner, job[t].content)
        /\ Rewrite(t)
     \/ /\ ~Exists(f) \/ Duplicate(f, job[t].owner, job[t].content)
        /\ Reply(t) /\ UNCHANGED form

\* UPDATE ... WHERE id AND status = 'draft'.
WriteForm(t) ==
  LET f == job[t].form IN
  /\ tab[t] = "update"
  /\ \/ /\ Draft(f) /\ ~Duplicate(f, job[t].owner, job[t].content)
        /\ Rewrite(t)
     \/ /\ ~Draft(f) \/ Duplicate(f, job[t].owner, job[t].content)
        /\ Reply(t) /\ UNCHANGED form

\* Submit's own read: what is submitted already is answered as it is.
SubmitRead(t) ==
  LET f == job[t].form IN
  /\ tab[t] = "submit"
  /\ \/ /\ Readable(f) /\ Draft(f)
        /\ tab' = [tab EXCEPT ![t] = "flip"]
        /\ UNCHANGED <<job, world, saves, outdated, raced>>
     \/ /\ ~(Readable(f) /\ Draft(f))
        /\ Reply(t)
  /\ UNCHANGED form

\* UPDATE ... SET status = 'submitted' WHERE id AND status = 'draft'.
Flip(t) ==
  LET f == job[t].form IN
  /\ tab[t] = "flip"
  /\ \/ /\ Draft(f)
        /\ form' = [form EXCEPT ![f].status = "submitted"]
        /\ raced' = IF t \in outdated THEN raced \cup {f} ELSE raced
     \/ /\ ~Draft(f)
        /\ UNCHANGED <<form, raced>>
  /\ Idled(t) /\ outdated' = outdated \ {t}

\* DELETE ... WHERE id AND status = 'draft'.
WriteDelete(t) ==
  /\ tab[t] = "delete"
  /\ form' = IF Draft(job[t].form) THEN [form EXCEPT ![job[t].form] = Gone] ELSE form
  /\ Reply(t)

\* exported_at is stamped by id, and the rendered document served.
MarkExported(t) ==
  /\ tab[t] = "stamp"
  /\ Reply(t)
  /\ UNCHANGED form

\* A failing statement, a cancelled request or a crash.
FormAbort(t) ==
  /\ tab[t] # "idle"
  /\ Reply(t)
  /\ UNCHANGED form

\* The timetable goes on: a lesson is moved or deleted, an offering is deleted
\* once it has no lesson (DeleteOffering does not ask for observations).
Timetable ==
  /\ \/ \E l \in Lessons : /\ lesson[l] # NoLesson
                           /\ \E v \in {NoLesson, [lesson[l] EXCEPT !.periods = {2, 3}]} :
                                lesson' = [lesson EXCEPT ![l] = v]
                           /\ UNCHANGED offered
     \/ \E k \in offered : /\ \A l \in Lessons : lesson[l] # NoLesson => lesson[l].course # k
                           /\ offered' = offered \ {k}
                           /\ UNCHANGED lesson
  /\ UNCHANGED <<form, renderer, tab, job, saves, outdated, raced>>

ObsNext ==
  \/ \E t \in Tabs, o \in Observers, k \in Courses, complete \in BOOLEAN :
       \E c \in ({NoLesson} \X SectionLists) \cup (Lessons \X {<<>>}) :
         \/ CreateForm(t, o, k, c[1], c[2], complete)
         \/ \E f \in Forms : UpdateForm(t, o, f, k, c[1], c[2], complete)
  \/ \E t \in Tabs, f \in Forms :
       \/ Export(t, f)
       \/ \E o \in Observers : SubmitForm(t, o, f) \/ DeleteForm(t, o, f)
  \/ \E t \in Tabs :
       \/ InsertForm(t) \/ WriteForm(t) \/ SubmitRead(t) \/ Flip(t)
       \/ WriteDelete(t) \/ MarkExported(t) \/ FormAbort(t)
  \/ Timetable

ObsSpec == ObsInit /\ [][ObsNext]_formVars

----------------------------------------------------------------------------
(* Properties.                                                             *)

ObsTypeOK ==
  /\ form \in [Forms -> Rows \cup {NoForm, Gone}]
  /\ offered \subseteq Courses
  /\ lesson \in [Lessons -> [course : Courses, periods : SUBSET Nat] \cup {NoLesson}]
  /\ renderer \in BOOLEAN
  /\ tab \in [Tabs -> {"idle", "insert", "update", "submit", "flip", "delete", "stamp"}]
  /\ job \in [Tabs -> FormJobs \cup {NoJob}]
  /\ \A t \in Tabs : /\ tab[t] # "idle" => job[t] # NoJob
                     /\ tab[t] \in {"update", "submit", "flip", "delete"} => job[t].form \in Forms
  /\ saves \in Nat
  /\ outdated \subseteq Tabs /\ raced \subseteq Forms
  /\ \A t \in outdated : tab[t] \in {"submit", "flip"}

\* A submitted form is final, whatever edits, deletions and submissions read it
\* while it was a draft (Update, Delete and Submit test the status again).
SubmittedIsFinal ==
  [][\A f \in Forms : Exists(f) /\ form[f].status = "submitted" =>
       form'[f] = form[f]]_formVars

\* With a document backend a submitted form is complete, unless the very
\* submission that went through was outdated: somebody rewrote the form
\* between the handler's validation (observation/handler.go:318) and the UPDATE
\* of Store.Submit, which does not validate again.  Edits before the validation
\* or of another form, and submissions that were answered or went wrong, excuse
\* nothing.
SubmittedWasComplete ==
  \A f \in Forms : renderer /\ Exists(f) /\ form[f].status = "submitted" =>
    form[f].content.complete \/ f \in raced

\* What a submission validated is complete still, unless it was outdated; the
\* id of a form never names another one.
Validated ==
  \A t \in Tabs : LET f == job[t].form IN
    tab[t] \in {"submit", "flip"} =>
      /\ form[f] # NoForm
      /\ renderer /\ Exists(f) => form[f].content.complete \/ t \in outdated

\* The invariant behind SubmittedWasComplete.
ObsIInv == ObsTypeOK /\ SubmittedWasComplete /\ Validated
=============================================================================
