---------------------------- MODULE Campus_proofs ----------------------------
(***************************************************************************)
(* Proofs about observation forms, bell times, permissions, the audit log  *)
(* and the settings, for every set of rows, users and requests.            *)
(***************************************************************************)
EXTENDS Observation, Regimes, Access, Grants, Settings,
        SequenceTheorems, TLAPS

----------------------------------------------------------------------------
(* Observation forms.                                                      *)

\* The first state of the forms satisfies their invariant.
LEMMA ObsInitInductive == ObsInit => ObsIInv
BY DEF ObsInit, ObsIInv, ObsTypeOK, SubmittedWasComplete, Validated, Exists

\* The content of a saved form.
LEMMA PreparedType ==
  ASSUME ObsTypeOK, NEW k \in Courses, NEW l, NEW s, NEW complete \in BOOLEAN, NEW n \in Nat,
         \/ l = NoLesson /\ s \in SectionLists
         \/ l \in Lessons /\ LessonOf(k, l)
  PROVE  Prepared(k, l, s, complete, n) \in Contents
<1>1. CASE l = NoLesson /\ s \in SectionLists
  <2>1. NormalizeSections(s) \in SUBSET Nat
    BY <1>1, ObservationAssumption DEF NormalizeSections
  <2> HIDE DEF NormalizeSections
  <2> QED BY <1>1, <2>1 DEF Prepared, SectionsOf, Contents
<1>2. CASE l \in Lessons /\ LessonOf(k, l)
  <2>1. l # NoLesson /\ lesson[l] \in [course : Courses, periods : SUBSET Nat]
    BY <1>2, ObservationAssumption DEF LessonOf, ObsTypeOK
  <2> QED BY <1>2, <2>1 DEF Prepared, SectionsOf, Contents
<1> QED BY <1>1, <1>2

\* A form that exists is a row.
LEMMA RowOf ==
  ASSUME ObsTypeOK, NEW f \in Forms, Exists(f)
  PROVE  form[f] \in Rows
BY DEF ObsTypeOK, Exists

\* A request reads, validates and begins its statement.
LEMMA OpenStep ==
  ASSUME ObsIInv, NEW t \in Tabs,
         NEW first \in {"insert", "update", "submit", "delete", "stamp"}, NEW j \in FormJobs,
         Open(t, first, j), saves' \in Nat,
         first \in {"update", "submit", "delete"} => j.form \in Forms,
         first = "submit" => /\ form[j.form] # NoForm
                             /\ renderer => form[j.form].content.complete
  PROVE  ObsIInv'
<1>1. /\ tab' = [tab EXCEPT ![t] = first] /\ job' = [job EXCEPT ![t] = j]
      /\ UNCHANGED <<form, offered, lesson, renderer, outdated, raced>> /\ tab[t] = "idle"
  BY DEF Open, world
<1>2. ObsTypeOK'
  BY <1>1, ObservationAssumption DEF ObsIInv, ObsTypeOK
<1>3. SubmittedWasComplete'
  BY <1>1 DEF ObsIInv, SubmittedWasComplete, Exists
<1>4. Validated'
  <2> SUFFICES ASSUME NEW u \in Tabs, tab'[u] \in {"submit", "flip"}
               PROVE  LET f == job'[u].form IN
                      /\ form[f] # NoForm
                      /\ renderer /\ Exists(f) => form[f].content.complete \/ u \in outdated
    BY <1>1 DEF Validated, Exists
  <2>1. CASE u = t
    BY <1>1, <2>1 DEF ObsIInv, ObsTypeOK
  <2>2. CASE u # t
    BY <1>1, <2>2 DEF ObsIInv, ObsTypeOK, Validated
  <2> QED BY <2>1, <2>2
<1> QED BY <1>2, <1>3, <1>4 DEF ObsIInv

\* A request that a tab opens keeps it.
LEMMA ObsRequestStep ==
  ASSUME ObsIInv, NEW t \in Tabs, NEW o \in Observers, NEW f \in Forms,
         \/ SubmitForm(t, o, f) \/ DeleteForm(t, o, f) \/ Export(t, f)
         \/ \E k \in Courses, complete \in BOOLEAN :
              \E c \in ({NoLesson} \X SectionLists) \cup (Lessons \X {<<>>}) :
                \/ CreateForm(t, o, k, c[1], c[2], complete)
                \/ UpdateForm(t, o, f, k, c[1], c[2], complete)
  PROVE  ObsIInv'
<1>1. ASSUME NEW k \in Courses, NEW complete \in BOOLEAN,
             NEW c \in ({NoLesson} \X SectionLists) \cup (Lessons \X {<<>>}),
             \/ CreateForm(t, o, k, c[1], c[2], complete)
             \/ UpdateForm(t, o, f, k, c[1], c[2], complete)
      PROVE  ObsIInv'
  <2> DEFINE content == Prepared(k, c[1], c[2], complete, saves + 1)
  <2>1. saves + 1 \in Nat /\ LessonOf(k, c[1]) /\ saves' = saves + 1
    BY <1>1 DEF CreateForm, UpdateForm, Save, ObsIInv, ObsTypeOK
  <2>2. content \in Contents
    BY <2>1, PreparedType DEF ObsIInv
  <2>3. \E first \in {"insert", "update"}, g \in Forms \cup {NoForm} :
          /\ Open(t, first, [form |-> g, owner |-> o, content |-> content])
          /\ first = "update" => g \in Forms
    BY <1>1 DEF CreateForm, UpdateForm, Save
  <2> HIDE DEF content
  <2>4. PICK first \in {"insert", "update"}, g \in Forms \cup {NoForm} :
          /\ Open(t, first, [form |-> g, owner |-> o, content |-> content])
          /\ first = "update" => g \in Forms
    BY <2>3
  <2>5. [form |-> g, owner |-> o, content |-> content] \in FormJobs
    BY <2>2 DEF FormJobs
  <2> QED BY <2>1, <2>4, <2>5, OpenStep
<1>2. ASSUME NEW first \in {"submit", "delete", "stamp"}, Open(t, first, Of(f, o)),
             UNCHANGED saves, Exists(f),
             first = "submit" => (renderer => form[f].content.complete)
      PROVE  ObsIInv'
  <2>1. form[f] \in Rows /\ form[f] # NoForm
    BY <1>2, RowOf DEF ObsIInv, Exists
  <2>2. Of(f, o) \in FormJobs /\ Of(f, o).form = f
    BY <2>1 DEF Of, FormJobs, Rows
  <2> QED BY <1>2, <2>1, <2>2, OpenStep DEF ObsIInv, ObsTypeOK
<1>3. CASE SubmitForm(t, o, f) \/ DeleteForm(t, o, f)
  BY <1>2, <1>3 DEF SubmitForm, DeleteForm, Own, Readable
<1>4. CASE Export(t, f)
  <2>1. Exists(f)
    BY <1>4 DEF Export, Readable
  <2>2. form[f].owner \in Observers
    BY <2>1, RowOf DEF Rows, ObsIInv
  <2>3. Of(f, form[f].owner) \in FormJobs
    BY <2>1, <2>2, RowOf DEF Of, FormJobs, Rows, ObsIInv
  <2> QED BY <1>4, <2>3, OpenStep DEF Export, ObsIInv, ObsTypeOK
<1> QED BY <1>1, <1>3, <1>4

\* A statement that ends its request and keeps what the others validated.
LEMMA IdledStep ==
  ASSUME ObsIInv, NEW t \in Tabs, Idled(t),
         form' \in [Forms -> Rows \cup {NoForm, Gone}], raced' \subseteq Forms,
         outdated \ {t} \subseteq outdated', t \notin outdated',
         outdated' \subseteq {u \in Tabs : tab[u] \in {"submit", "flip"}},
         \A f \in Forms : renderer /\ Exists(f)' /\ form'[f].status = "submitted" =>
           form'[f].content.complete \/ f \in raced',
         \A u \in Tabs \ {t} : LET f == job[u].form IN
           tab[u] \in {"submit", "flip"} =>
             \/ form'[f] = form[f]
             \/ form'[f] = Gone
             \/ form'[f] \in Rows /\ form'[f].content = form[f].content /\ Exists(f)
             \/ form'[f] \in Rows /\ u \in outdated'
  PROVE  ObsIInv'
<1>1. /\ tab' = [tab EXCEPT ![t] = "idle"] /\ job' = [job EXCEPT ![t] = NoJob]
      /\ UNCHANGED <<offered, lesson, renderer, saves>>
  BY DEF Idled, world
<1>2. ObsTypeOK'
  BY <1>1 DEF ObsIInv, ObsTypeOK
<1>3. SubmittedWasComplete'
  BY <1>1 DEF SubmittedWasComplete
<1>4. Validated'
  <2> SUFFICES ASSUME NEW u \in Tabs, tab'[u] \in {"submit", "flip"}
               PROVE  LET f == job'[u].form IN
                      /\ form'[f] # NoForm
                      /\ renderer /\ form'[f] # Gone => form'[f].content.complete \/ u \in outdated'
    BY <1>1 DEF Validated, Exists
  <2>1. u # t /\ tab'[u] = tab[u] /\ job'[u] = job[u] /\ (u \in outdated => u \in outdated')
    BY <1>1 DEF ObsIInv, ObsTypeOK
  <2> DEFINE f == job[u].form
  <2>2. /\ form[f] # NoForm
        /\ renderer /\ form[f] # Gone => form[f].content.complete \/ u \in outdated
    BY <2>1 DEF ObsIInv, Validated, Exists
  <2>3. \/ form'[f] = form[f]
        \/ form'[f] = Gone
        \/ form'[f] \in Rows /\ form'[f].content = form[f].content /\ Exists(f)
        \/ form'[f] \in Rows /\ u \in outdated'
    BY <2>1
  <2> HIDE DEF f
  <2>4. /\ form'[f] # NoForm
        /\ renderer /\ form'[f] # Gone => form'[f].content.complete \/ u \in outdated'
    BY <2>1, <2>2, <2>3, ObservationAssumption DEF Exists
  <2> QED BY <2>1, <2>4 DEF f
<1> QED BY <1>2, <1>3, <1>4 DEF ObsIInv

\* The statements that follow a request's reads.
LEMMA ObsStatementStep ==
  ASSUME ObsIInv, NEW t \in Tabs,
         \/ InsertForm(t) \/ WriteForm(t) \/ SubmitRead(t) \/ Flip(t)
         \/ WriteDelete(t) \/ MarkExported(t) \/ FormAbort(t)
  PROVE  ObsIInv'
<1> DEFINE f == job[t].form
<1>0. /\ form \in [Forms -> Rows \cup {NoForm, Gone}] /\ raced \subseteq Forms
      /\ outdated \subseteq {u \in Tabs : tab[u] \in {"submit", "flip"}}
      /\ tab[t] # "idle" => job[t] \in FormJobs
      /\ \A u \in Tabs : tab[u] \in {"update", "submit", "flip", "delete"} => job[u].form \in Forms
  BY DEF ObsIInv, ObsTypeOK
<1>1. CASE InsertForm(t) /\ form' # form
  <2>1. PICK g \in Forms :
          /\ form[g] = NoForm
          /\ form' = [form EXCEPT ![g] = [owner |-> job[t].owner, status |-> "draft",
                                          content |-> job[t].content]]
    BY <1>1 DEF InsertForm
  <2>2. [owner |-> job[t].owner, status |-> "draft", content |-> job[t].content] \in Rows
    BY <1>0, <1>1 DEF InsertForm, Rows, FormJobs
  <2>3. \A u \in Tabs \ {t} : tab[u] \in {"submit", "flip"} => form'[job[u].form] = form[job[u].form]
    BY <1>0, <2>1 DEF ObsIInv, Validated
  <2>4. \A h \in Forms : renderer /\ Exists(h)' /\ form'[h].status = "submitted" =>
          form'[h].content.complete \/ h \in raced
    BY <1>0, <2>1 DEF ObsIInv, SubmittedWasComplete, Exists
  <2> QED BY <1>0, <1>1, <2>1, <2>2, <2>3, <2>4, IdledStep DEF InsertForm, Reply
<1>2. CASE WriteForm(t) /\ form' # form
  <2>1. f \in Forms /\ Draft(f) /\ Rewrite(t) /\ Idled(t) /\ job[t] \in FormJobs
    BY <1>0, <1>2 DEF WriteForm, Rewrite
  <2>2. form[f] \in Rows /\ form[f].status = "draft"
    BY <2>1, RowOf DEF Draft, ObsIInv
  <2>3. form' = [form EXCEPT ![f].content = job[t].content] /\ raced' = raced /\ outdated' = outdated \cup Submitting(f)
    BY <1>0, <2>1 DEF Rewrite
  <2>4. form'[f] \in Rows /\ form'[f].status = "draft" /\ \A h \in Forms \ {f} : form'[h] = form[h]
    BY <1>0, <2>1, <2>2, <2>3 DEF Rows, FormJobs
  <2>5. /\ \A u \in Tabs \ {t} : tab[u] \in {"submit", "flip"} /\ job[u].form = f => u \in outdated'
        /\ outdated \ {t} \subseteq outdated' /\ t \notin outdated'
        /\ outdated' \subseteq {u \in Tabs : tab[u] \in {"submit", "flip"}}
    BY <1>0, <1>2, <2>3 DEF WriteForm, Submitting
  <2>6. \A h \in Forms : renderer /\ Exists(h)' /\ form'[h].status = "submitted" =>
          form'[h].content.complete \/ h \in raced'
    BY <2>3, <2>4 DEF ObsIInv, SubmittedWasComplete, Exists
  <2>7. form' \in [Forms -> Rows \cup {NoForm, Gone}]
    BY <1>0, <2>3, <2>4
  <2>8. \A u \in Tabs \ {t} : tab[u] \in {"submit", "flip"} =>
          \/ form'[job[u].form] = form[job[u].form]
          \/ form'[job[u].form] \in Rows /\ u \in outdated'
    BY <1>0, <2>4, <2>5
  <2> HIDE DEF f
  <2> QED BY <1>0, <2>1, <2>3, <2>5, <2>6, <2>7, <2>8, IdledStep
<1>3. CASE Flip(t) /\ form' # form
  <2>1. /\ f \in Forms /\ Draft(f) /\ Idled(t) /\ outdated' = outdated \ {t}
        /\ form' = [form EXCEPT ![f].status = "submitted"]
        /\ raced' = IF t \in outdated THEN raced \cup {f} ELSE raced
    BY <1>0, <1>3 DEF Flip
  <2>2. form[f] \in Rows /\ Exists(f)
    BY <2>1, RowOf DEF Draft, ObsIInv
  <2>3. form'[f] \in Rows /\ form'[f].content = form[f].content /\ \A h \in Forms \ {f} : form'[h] = form[h]
    BY <1>0, <2>1, <2>2 DEF Rows
  <2>4. renderer => form[f].content.complete \/ t \in outdated
    BY <1>3, <2>2 DEF Flip, ObsIInv, Validated
  <2>5. \A h \in Forms : renderer /\ Exists(h)' /\ form'[h].status = "submitted" =>
          form'[h].content.complete \/ h \in raced'
    BY <2>1, <2>3, <2>4 DEF ObsIInv, SubmittedWasComplete, Exists
  <2>6. form' \in [Forms -> Rows \cup {NoForm, Gone}]
    BY <1>0, <2>1, <2>3
  <2>7. \A u \in Tabs \ {t} : tab[u] \in {"submit", "flip"} =>
          \/ form'[job[u].form] = form[job[u].form]
          \/ /\ form'[job[u].form] \in Rows /\ Exists(job[u].form)
             /\ form'[job[u].form].content = form[job[u].form].content
    BY <1>0, <2>2, <2>3
  <2> HIDE DEF f
  <2> QED BY <1>0, <2>1, <2>5, <2>6, <2>7, IdledStep
<1>4. CASE WriteDelete(t) /\ form' # form
  <2>1. /\ f \in Forms /\ Reply(t) /\ form' = [form EXCEPT ![f] = Gone]
    BY <1>0, <1>4 DEF WriteDelete
  <2>2. \A h \in Forms : form'[h] \in {form[h], Gone}
    BY <1>0, <2>1
  <2>3. \A h \in Forms : renderer /\ Exists(h)' /\ form'[h].status = "submitted" =>
          form'[h].content.complete \/ h \in raced
    BY <2>2 DEF ObsIInv, SubmittedWasComplete, Exists
  <2> QED BY <1>0, <2>1, <2>2, <2>3, IdledStep DEF Reply
<1>5. CASE Reply(t) /\ form' = form
  <2>1. \A h \in Forms : renderer /\ Exists(h)' /\ form'[h].status = "submitted" =>
          form'[h].content.complete \/ h \in raced
    BY <1>5 DEF ObsIInv, SubmittedWasComplete, Exists, Reply
  <2> QED BY <1>0, <1>5, <2>1, IdledStep DEF Reply
<1>6. CASE SubmitRead(t) /\ ~Reply(t)
  <2>1. /\ tab[t] = "submit" /\ tab' = [tab EXCEPT ![t] = "flip"]
        /\ UNCHANGED <<form, outdated, raced, job, offered, lesson, renderer, saves>>
    BY <1>6 DEF SubmitRead, world
  <2> QED BY <2>1 DEF ObsIInv, ObsTypeOK, SubmittedWasComplete, Validated, Exists
<1>7. CASE Rewrite(t) /\ WriteForm(t) /\ form' = form
  <2>1. /\ Idled(t) /\ raced' = raced /\ outdated' = outdated \cup Submitting(f)
        /\ tab[t] = "update"
    BY <1>7 DEF WriteForm, Rewrite
  <2>3. /\ outdated \ {t} \subseteq outdated' /\ t \notin outdated'
        /\ outdated' \subseteq {u \in Tabs : tab[u] \in {"submit", "flip"}}
    BY <1>0, <2>1 DEF Submitting
  <2>2. \A h \in Forms : renderer /\ Exists(h)' /\ form'[h].status = "submitted" =>
          form'[h].content.complete \/ h \in raced'
    BY <1>7, <2>1 DEF ObsIInv, SubmittedWasComplete, Exists
  <2> QED BY <1>0, <1>7, <2>1, <2>2, <2>3, IdledStep
<1>8. CASE Flip(t) /\ form' = form
  <2>1. f \in Forms /\ tab[t] = "flip"
    BY <1>0, <1>8 DEF Flip
  <2>2. CASE Draft(f)
    <3>1. form[f] \in Rows /\ form'[f] = [form[f] EXCEPT !.status = "submitted"]
      BY <1>0, <1>8, <2>1, <2>2, RowOf DEF Flip, Draft, ObsIInv
    <3> QED BY <1>8, <2>2, <3>1 DEF Draft, Rows
  <2>3. CASE ~Draft(f)
    <3>1. Reply(t)
      BY <1>8, <2>3 DEF Flip, Reply
    <3> QED BY <1>5, <1>8, <3>1
  <2> QED BY <2>2, <2>3
<1> QED BY <1>1, <1>2, <1>3, <1>4, <1>5, <1>6, <1>7, <1>8
        DEF InsertForm, WriteForm, SubmitRead, WriteDelete, MarkExported, FormAbort

\* Lessons and courses that change or go touch no form.
LEMMA TimetableStep == ObsIInv /\ Timetable => ObsIInv'
<1> SUFFICES ASSUME ObsIInv, Timetable PROVE ObsIInv'
  OBVIOUS
<1>1. /\ UNCHANGED <<form, renderer, tab, job, saves, outdated, raced>>
      /\ offered' \subseteq offered
      /\ \/ lesson' = lesson
         \/ \E l \in Lessons : /\ lesson[l] # NoLesson
                               /\ \E v \in {NoLesson, [lesson[l] EXCEPT !.periods = {2, 3}]} :
                                    lesson' = [lesson EXCEPT ![l] = v]
  BY DEF Timetable
<1>2. lesson' \in [Lessons -> [course : Courses, periods : SUBSET Nat] \cup {NoLesson}]
  <2>1. CASE lesson' = lesson
    BY <2>1 DEF ObsIInv, ObsTypeOK
  <2>2. ASSUME NEW l \in Lessons, lesson[l] # NoLesson,
               NEW v \in {NoLesson, [lesson[l] EXCEPT !.periods = {2, 3}]},
               lesson' = [lesson EXCEPT ![l] = v]
        PROVE  lesson' \in [Lessons -> [course : Courses, periods : SUBSET Nat] \cup {NoLesson}]
    <3>1. lesson[l] \in [course : Courses, periods : SUBSET Nat]
      BY <2>2 DEF ObsIInv, ObsTypeOK
    <3>2. {2, 3} \in SUBSET Nat
      OBVIOUS
    <3>3. v \in [course : Courses, periods : SUBSET Nat] \cup {NoLesson}
      BY <2>2, <3>1, <3>2
    <3> QED BY <2>2, <3>3 DEF ObsIInv, ObsTypeOK
  <2> QED BY <1>1, <2>1, <2>2
<1> QED BY <1>1, <1>2 DEF ObsIInv, ObsTypeOK, SubmittedWasComplete, Validated, Exists

\* Every step of the forms keeps the invariant.
LEMMA ObsNextInductive == ObsIInv /\ [ObsNext]_formVars => ObsIInv'
<1>1. ASSUME ObsIInv, UNCHANGED formVars PROVE ObsIInv'
  BY <1>1 DEF formVars, ObsIInv, ObsTypeOK, SubmittedWasComplete, Validated, Exists
<1>2. ASSUME ObsIInv, NEW t \in Tabs, NEW o \in Observers, NEW k \in Courses,
             NEW complete \in BOOLEAN,
             NEW c \in ({NoLesson} \X SectionLists) \cup (Lessons \X {<<>>}),
             CreateForm(t, o, k, c[1], c[2], complete)
      PROVE  ObsIInv'
  <2> DEFINE content == Prepared(k, c[1], c[2], complete, saves + 1)
  <2>1. saves + 1 \in Nat /\ LessonOf(k, c[1]) /\ saves' = saves + 1
    BY <1>2 DEF CreateForm, Save, ObsIInv, ObsTypeOK
  <2>2. content \in Contents
    BY <1>2, <2>1, PreparedType DEF ObsIInv
  <2>3. Open(t, "insert", [form |-> NoForm, owner |-> o, content |-> content])
    BY <1>2 DEF CreateForm, Save
  <2> HIDE DEF content
  <2>4. [form |-> NoForm, owner |-> o, content |-> content] \in FormJobs
    BY <2>2 DEF FormJobs
  <2> QED BY <1>2, <2>1, <2>3, <2>4, OpenStep
<1>3. ASSUME ObsIInv, NEW t \in Tabs, NEW f \in Forms, Export(t, f) PROVE ObsIInv'
  <2>1. form[f].owner \in Observers
    BY <1>3, RowOf DEF Export, Readable, ObsIInv, Rows
  <2> QED BY <1>3, <2>1, ObsRequestStep
<1> QED BY <1>1, <1>2, <1>3, ObsRequestStep, ObsStatementStep, TimetableStep DEF ObsNext

\* The inductive invariant of the forms (observation/store.go).
THEOREM FormsInvariance == ObsSpec => []ObsIInv
BY ObsInitInductive, ObsNextInductive, PTL DEF ObsSpec

\* With a document backend a submitted form is complete, unless somebody
\* rewrote it between the validation and the UPDATE of the submission that went
\* through, which does happen (observation/handler.go submit):
\* SubmittedWasComplete.
THEOREM FormsComplete == ObsSpec => []SubmittedWasComplete
<1>1. ObsIInv => SubmittedWasComplete
  BY DEF ObsIInv
<1> QED BY <1>1, FormsInvariance, PTL

\* Nothing changes a form once it is submitted (observation/store.go Update,
\* Submit, Delete): SubmittedIsFinal.
THEOREM FormsFinal == ObsSpec => SubmittedIsFinal
<1>1. ASSUME ObsIInv, [ObsNext]_formVars
      PROVE  \A f \in Forms : Exists(f) /\ form[f].status = "submitted" => form'[f] = form[f]
  <2> SUFFICES ASSUME NEW f \in Forms, Exists(f), form[f].status = "submitted"
               PROVE  form'[f] = form[f]
    OBVIOUS
  <2>0. form \in [Forms -> Rows \cup {NoForm, Gone}]
    BY <1>1 DEF ObsIInv, ObsTypeOK
  <2>1. ASSUME NEW t \in Tabs, InsertForm(t) \/ WriteForm(t) \/ Flip(t) \/ WriteDelete(t)
        PROVE  form'[f] = form[f]
    BY <2>0, <2>1 DEF InsertForm, WriteForm, Rewrite, Flip, WriteDelete, Draft, Exists
  <2>2. ASSUME NEW t \in Tabs, SubmitRead(t) \/ MarkExported(t) \/ FormAbort(t)
        PROVE  form'[f] = form[f]
    BY <2>2 DEF SubmitRead, MarkExported, FormAbort
  <2>3. ASSUME Timetable \/ UNCHANGED formVars PROVE form'[f] = form[f]
    BY <2>3 DEF Timetable, formVars
  <2>4. ASSUME NEW t, NEW first, NEW j, Open(t, first, j) PROVE form'[f] = form[f]
    BY <2>4 DEF Open
  <2>5. ASSUME NEW t \in Tabs, NEW o \in Observers, NEW k \in Courses, NEW complete \in BOOLEAN,
               NEW l, NEW s,
               CreateForm(t, o, k, l, s, complete)
                 \/ \E g \in Forms : UpdateForm(t, o, g, k, l, s, complete)
        PROVE form'[f] = form[f]
    BY <2>4, <2>5 DEF CreateForm, UpdateForm, Save
  <2>6. ASSUME NEW t \in Tabs, NEW g \in Forms,
               Export(t, g) \/ \E o \in Observers : SubmitForm(t, o, g) \/ DeleteForm(t, o, g)
        PROVE form'[f] = form[f]
    BY <2>4, <2>6 DEF SubmitForm, DeleteForm, Export
  <2> QED BY <1>1, <2>1, <2>2, <2>3, <2>5, <2>6 DEF ObsNext
<1>2. ObsIInv /\ [ObsNext]_formVars =>
        [\A f \in Forms : Exists(f) /\ form[f].status = "submitted" => form'[f] = form[f]]_formVars
  BY <1>1
<1> QED BY <1>2, FormsInvariance, PTL DEF ObsSpec, SubmittedIsFinal

----------------------------------------------------------------------------
(* The audit log.                                                          *)

\* Before any login no account is bound and nothing is in flight.
LEMMA AccessInitInductive == AccessInit => AccessIInv
BY AccessAssumption
   DEF AccessInit, AccessIInv, AccessTypeOK, AuditTellsTheTruth, Numbered, HeldByCalls, RecordLast

\* BoundBy in the next state.
BoundThen(n, u) == n \in ended' \/ (holder'[u] = n /\ openid'[u] # NoId)

\* What a call may do to the tables: what was done stays done, bindings end only
\* with their end on record, and every policy that comes into force is kept.
Grows ==
  /\ changed \subseteq changed' /\ purge' = purge
  /\ since \subseteq since' /\ since' \subseteq Policies /\ policy' \in since'
  /\ openid' = [u \in Members |-> openid'[u]] /\ holder' \in [Members -> Nat]
  /\ HeldByCalls'
  /\ \A u \in Members : \A n : BoundBy(n, u) => BoundThen(n, u)

\* No change at all is such a change.
LEMMA GrowsByNothing ==
  ASSUME AccessIInv, UNCHANGED <<bindings, changed, policy, since, purge>>,
         calls' \in Nat, calls' >= calls
  PROVE  Grows
<1>1. UNCHANGED <<openid, holder, ended, changed, policy, since, purge>> /\ calls \in Nat
  BY DEF bindings, AccessIInv, AccessTypeOK
<1>2. HeldByCalls'
  BY <1>1 DEF AccessIInv, HeldByCalls
<1>3. \A u \in Members : \A n : BoundBy(n, u) => BoundThen(n, u)
  BY <1>1 DEF BoundBy, BoundThen
<1> QED BY <1>1, <1>2, <1>3 DEF Grows, AccessIInv, AccessTypeOK

\* The binding of a free account, and the end of a binding, are such changes too.
LEMMA GrowsByBinding ==
  ASSUME AccessIInv, NEW u \in Members, UNCHANGED <<policy, since, purge, calls>>,
         changed \subseteq changed',
         \/ Release(u)
         \/ \E id : \E n \in 1 .. calls : Bind(u, id, n) /\ id # NoId /\ openid[u] = NoId
  PROVE  Grows
<1>1. /\ openid = [v \in Members |-> openid[v]] /\ holder \in [Members -> Nat] /\ calls \in Nat
      /\ \A v \in Members : holder[v] \in 0 .. calls /\ (openid[v] # NoId <=> holder[v] # 0)
  BY DEF AccessIInv, AccessTypeOK, HeldByCalls
<1>2. CASE Release(u)
  <2>1. /\ openid' = [openid EXCEPT ![u] = NoId] /\ holder' = [holder EXCEPT ![u] = 0]
        /\ ended' = ended \cup ({holder[u]} \ {0})
    BY <1>2 DEF Release
  <2>2. HeldByCalls'
    BY <1>1, <2>1 DEF HeldByCalls
  <2>3. ASSUME NEW v \in Members, NEW n, BoundBy(n, v) PROVE BoundThen(n, v)
    BY <1>1, <2>1, <2>3 DEF BoundBy, BoundThen
  <2> QED BY <1>1, <2>1, <2>2, <2>3 DEF Grows, AccessIInv, AccessTypeOK
<1>3. ASSUME NEW id, NEW n \in 1 .. calls, Bind(u, id, n), id # NoId, openid[u] = NoId
      PROVE  Grows
  <2>1. /\ openid' = [openid EXCEPT ![u] = id] /\ holder' = [holder EXCEPT ![u] = n]
        /\ ended' = ended
    BY <1>3 DEF Bind
  <2>2. HeldByCalls'
    BY <1>1, <1>3, <2>1 DEF HeldByCalls
  <2>3. ASSUME NEW v \in Members, NEW m, BoundBy(m, v) PROVE BoundThen(m, v)
    BY <1>1, <1>3, <2>1, <2>3 DEF BoundBy, BoundThen
  <2>4. n \in Nat
    BY <1>1
  <2> QED BY <1>1, <2>1, <2>2, <2>3, <2>4 DEF Grows, AccessIInv, AccessTypeOK
<1> QED BY <1>2, <1>3

\* A call begins, goes on or ends, and changes what it changes; what it leaves
\* to do ends with its row, and it may say it changed something only if it has,
\* or still can.
LEMMA SignStep ==
  ASSUME AccessIInv, NEW p \in Phones, NEW t \in OpenCalls \cup {Quiet},
         sign' = [sign EXCEPT ![p] = t], Grows, UNCHANGED logs,
         calls' \in Nat, calls' >= calls,
         t # Quiet =>
           LET ahead == \E i \in 1 .. Len(t.todo) : t.todo[i] = t.kind IN
           /\ \/ sign[p] # Quiet /\ t.n = sign[p].n
              \/ sign[p] = Quiet /\ t.n = calls + 1 /\ calls' = calls + 1
           /\ t.todo # <<>>
           /\ \A i \in 1 .. Len(t.todo) : t.todo[i] = "record" <=> i = Len(t.todo)
           /\ FitsKind(t)
           /\ t.ok /\ t.kind = "bind" => ahead \/ BoundThen(t.n, t.user)
           /\ t.ok /\ t.kind = "settings" => ahead \/ t.n \in changed'
  PROVE  AccessIInv'
<1>1. sign'[p] = t /\ \A q \in Phones \ {p} : sign'[q] = sign[q]
  BY DEF AccessIInv, AccessTypeOK
<1>2. AccessTypeOK'
  BY DEF AccessIInv, AccessTypeOK, Grows
<1>3. AuditTellsTheTruth'
  <2>1. \A r \in logs : r.ok /\ r.kind = "bind" => r.user \in Members /\ BoundBy(r.call, r.user)
    BY DEF AccessIInv, AccessTypeOK, AuditTellsTheTruth
  <2>2. \A r \in logs : r.ok /\ r.kind = "bind" => BoundThen(r.call, r.user)
    BY <2>1 DEF Grows
  <2>3. \A r \in logs : r.ok /\ r.kind = "settings" => r.call \in changed'
    BY DEF AccessIInv, AuditTellsTheTruth, Grows
  <2>4. \A r, o \in logs : r.call = o.call => r = o
    BY DEF AccessIInv, AuditTellsTheTruth
  <2>5. \A r \in logs' : r.ok /\ r.kind = "bind" => BoundThen(r.call, r.user)
    BY <2>2
  <2>6. (\A r \in logs' : r.ok /\ r.kind = "settings" => r.call \in changed')
        /\ (\A r, o \in logs' : r.call = o.call => r = o)
    BY <2>3, <2>4
  <2> QED BY <2>5, <2>6 DEF AuditTellsTheTruth, BoundBy, BoundThen
<1>4. calls \in Nat /\ 1 .. calls \subseteq 1 .. calls'
  BY DEF AccessIInv, AccessTypeOK
<1>5. Numbered'
  <2>1. \A r \in logs' : r.call \in 1 .. calls'
    BY <1>4 DEF AccessIInv, Numbered
  <2>2. ASSUME t # Quiet
        PROVE  /\ t.n \in 1 .. calls'
               /\ \A r \in logs' : r.call # t.n
               /\ \A q \in Phones \ {p} : sign[q] # Quiet => sign[q].n # t.n
    <3>1. CASE sign[p] # Quiet /\ t.n = sign[p].n
      BY <1>4, <3>1 DEF AccessIInv, Numbered
    <3>2. CASE t.n = calls + 1 /\ calls' = calls + 1
      BY <1>4, <3>2 DEF AccessIInv, Numbered
    <3> QED BY <2>2, <3>1, <3>2
  <2>3. \A q \in Phones \ {p} : sign[q] # Quiet =>
          /\ sign[q].n \in 1 .. calls'
          /\ \A r \in logs' : r.call # sign[q].n
          /\ \A u \in Phones \ {q, p} : sign[u] # Quiet => sign[u].n # sign[q].n
    BY <1>4 DEF AccessIInv, Numbered
  <2> QED BY <1>1, <2>1, <2>2, <2>3 DEF Numbered
<1>6. RecordLast'
  <2> SUFFICES ASSUME NEW q \in Phones, sign'[q] # Quiet
               PROVE  LET s == sign'[q]
                          ahead == \E i \in 1 .. Len(s.todo) : s.todo[i] = s.kind IN
                      /\ s.todo # <<>>
                      /\ \A i \in 1 .. Len(s.todo) : s.todo[i] = "record" <=> i = Len(s.todo)
                      /\ FitsKind(s)
                      /\ s.ok /\ s.kind = "bind" => ahead \/ BoundThen(s.n, s.user)
                      /\ s.ok /\ s.kind = "settings" => ahead \/ s.n \in changed'
    BY DEF RecordLast, BoundBy, BoundThen
  <2>1. CASE q = p
    BY <1>1, <2>1
  <2>2. CASE q # p
    <3> DEFINE s == sign[q]
               ahead == \E i \in 1 .. Len(s.todo) : s.todo[i] = s.kind
    <3>1. sign'[q] = s /\ s # Quiet
      BY <1>1, <2>2
    <3>2. /\ s.todo # <<>>
          /\ \A i \in 1 .. Len(s.todo) : s.todo[i] = "record" <=> i = Len(s.todo)
          /\ FitsKind(s)
          /\ s.ok /\ s.kind = "bind" => ahead \/ BoundBy(s.n, s.user)
          /\ s.ok /\ s.kind = "settings" => ahead \/ s.n \in changed
      BY <3>1 DEF AccessIInv, RecordLast
    <3> HIDE DEF s, ahead
    <3>3. s.kind = "bind" /\ BoundBy(s.n, s.user) => BoundThen(s.n, s.user)
      BY <3>2 DEF Grows, FitsKind
    <3>4. s.n \in changed => s.n \in changed'
      BY DEF Grows
    <3> QED BY <3>1, <3>2, <3>3, <3>4 DEF ahead
  <2> QED BY <2>1, <2>2
<1> QED BY <1>2, <1>3, <1>5, <1>6 DEF AccessIInv, Grows

\* A statement of an open call that is not its last: the next one is due.
LEMMA AdvanceStep ==
  ASSUME AccessIInv, NEW p \in Phones, NEW what \in Statements \ {"record"},
         Stage(p, what), Advance(p), Grows, UNCHANGED <<calls, logs>>,
         what = "bind" => sign[p].kind # "bind" \/ BoundThen(sign[p].n, sign[p].user),
         what = "settings" => sign[p].n \in changed'
  PROVE  AccessIInv'
<1> DEFINE s == sign[p]
           t == [s EXCEPT !.todo = Tail(s.todo)]
           ahead == \E i \in 1 .. Len(s.todo) : s.todo[i] = s.kind
<1>1. /\ s \in OpenCalls /\ s # Quiet /\ s.todo[1] = what /\ s.todo \in Seq(Statements)
      /\ s.todo # <<>> /\ calls \in Nat /\ calls >= calls
  BY DEF Stage, AccessIInv, AccessTypeOK, RecordLast, OpenCalls
<1>2. sign' = [sign EXCEPT ![p] = t]
  BY DEF Advance, AccessIInv, AccessTypeOK
<1>3. /\ \A i \in 1 .. Len(s.todo) : s.todo[i] = "record" <=> i = Len(s.todo)
      /\ FitsKind(s)
      /\ s.ok /\ s.kind = "bind" => ahead \/ BoundBy(s.n, s.user)
      /\ s.ok /\ s.kind = "settings" => ahead \/ s.n \in changed
  BY <1>1 DEF AccessIInv, RecordLast
<1>4. /\ what = "bind" => s.kind # "bind" \/ BoundThen(s.n, s.user)
      /\ what = "settings" => s.n \in changed'
      /\ s.kind = "bind" /\ BoundBy(s.n, s.user) => BoundThen(s.n, s.user)
      /\ s.n \in changed => s.n \in changed'
  BY <1>3 DEF Grows, FitsKind
<1> HIDE DEF s, ahead
<1>5. Len(s.todo) \in Nat /\ Len(s.todo) > 1
  BY <1>1, <1>3
<1>6. /\ Tail(s.todo) \in Seq(Statements) /\ Len(Tail(s.todo)) = Len(s.todo) - 1
      /\ \A i \in 1 .. Len(s.todo) - 1 : Tail(s.todo)[i] = s.todo[i + 1]
  BY <1>1, <1>5, HeadTailProperties
<1>7. t \in OpenCalls /\ t # Quiet /\ t.todo = Tail(s.todo)
      /\ t.n = s.n /\ t.kind = s.kind /\ t.ok = s.ok /\ t.user = s.user /\ t.id = s.id
  BY <1>1, <1>6, AccessAssumption DEF OpenCalls
<1> HIDE DEF t
<1>8. /\ t.todo # <<>>
      /\ \A i \in 1 .. Len(t.todo) : t.todo[i] = "record" <=> i = Len(t.todo)
  <2>1. t.todo = Tail(s.todo) /\ Len(t.todo) = Len(s.todo) - 1
    BY <1>6, <1>7
  <2>2. \A i \in 1 .. Len(t.todo) : i + 1 \in 1 .. Len(s.todo) /\ t.todo[i] = s.todo[i + 1]
    BY <1>5, <1>6, <2>1
  <2>3. \A i \in 1 .. Len(t.todo) : t.todo[i] = "record" <=> i + 1 = Len(s.todo)
    BY <1>3, <2>2
  <2>4. t.todo # <<>>
    <3>1. Len(t.todo) > 0
      BY <1>5, <2>1
    <3>2. t.todo = <<>> => Len(t.todo) = 0
      OBVIOUS
    <3> QED BY <3>1, <3>2
  <2>5. \A i \in 1 .. Len(t.todo) : i + 1 = Len(s.todo) <=> i = Len(t.todo)
    BY <1>5, <2>1
  <2> QED BY <2>3, <2>4, <2>5
<1>9. ahead => what = s.kind \/ \E i \in 1 .. Len(t.todo) : t.todo[i] = t.kind
  <2> SUFFICES ASSUME NEW i \in 1 .. Len(s.todo), s.todo[i] = s.kind, what # s.kind
               PROVE  \E j \in 1 .. Len(t.todo) : t.todo[j] = t.kind
    BY DEF ahead
  <2>1. i # 1
    BY <1>1
  <2>2. i - 1 \in 1 .. Len(s.todo) - 1
    BY <1>5, <2>1
  <2>3. t.todo[i - 1] = s.todo[i] /\ i - 1 \in 1 .. Len(t.todo)
    BY <1>6, <1>7, <2>2
  <2> QED BY <1>7, <2>3
<1>10. t.n = sign[p].n /\ sign[p] # Quiet
  BY <1>1, <1>7 DEF s
<1>11. BoundThen(t.n, t.user) <=> BoundThen(s.n, s.user)
  BY <1>7
<1>12. FitsKind(t)
  <2>1. \A i \in 1 .. Len(t.todo) : t.todo[i] \in {"bind", "unbind"} => t.todo[i] = s.kind
    <3>1. \A i \in 1 .. Len(t.todo) : i + 1 \in 1 .. Len(s.todo) /\ t.todo[i] = s.todo[i + 1]
      BY <1>5, <1>6, <1>7
    <3>2. \A i \in 1 .. Len(s.todo) : s.todo[i] \in {"bind", "unbind"} => s.todo[i] = s.kind
      BY <1>3 DEF FitsKind
    <3> QED BY <3>1, <3>2
  <2> QED BY <1>3, <1>7, <2>1 DEF FitsKind
<1> QED BY <1>1, <1>2, <1>3, <1>4, <1>7, <1>8, <1>9, <1>10, <1>11, <1>12, SignStep

\* What a call of a kind starts with.
Script(kind, todo) ==
  /\ kind \in Kinds /\ todo \in Seq(Statements) /\ todo # <<>>
  /\ \A i \in 1 .. Len(todo) : todo[i] = "record" <=> i = Len(todo)
  /\ kind \in {"bind", "settings"} => \E i \in 1 .. Len(todo) : todo[i] = kind
  /\ \A i \in 1 .. Len(todo) : todo[i] \in {"bind", "unbind"} => todo[i] = kind

\* The steps of each handler, in their order.
LEMMA Scripts ==
  /\ Script("login", <<"password", "record">>)
  /\ Script("wxlogin", <<"code", "find", "record">>)
  /\ Script("bind", <<"password", "code", "bind", "record">>)
  /\ Script("unbind", <<"account", "unbind", "record">>)
  /\ Script("settings", <<"settings", "record">>)
<1>1. Script("login", <<"password", "record">>)
  BY DEF Script, Kinds, Statements
<1>2. Script("wxlogin", <<"code", "find", "record">>)
  BY DEF Script, Kinds, Statements
<1>3. Script("bind", <<"password", "code", "bind", "record">>)
  BY DEF Script, Kinds, Statements
<1>4. Script("unbind", <<"account", "unbind", "record">>)
  BY DEF Script, Kinds, Statements
<1>5. Script("settings", <<"settings", "record">>)
  BY DEF Script, Kinds, Statements
<1> QED BY <1>1, <1>2, <1>3, <1>4, <1>5

\* A handler begins at the first step of its script.
LEMMA BeginStep ==
  ASSUME AccessIInv, NEW p \in Phones, Handlers(p)
  PROVE  AccessIInv'
<1>1. ASSUME NEW kind, NEW todo, Script(kind, todo),
             NEW u \in Members \cup {Quiet}, NEW id \in WeChatIds \cup {NoId},
             kind \in {"bind", "unbind"} => u \in Members, kind = "bind" => id \in WeChatIds,
             BeginCall(p, kind, u, id, todo)
      PROVE  AccessIInv'
  <2> DEFINE t == [n |-> calls + 1, kind |-> kind, user |-> u, id |-> id,
                   ok |-> TRUE, gone |-> FALSE, todo |-> todo]
  <2>1. calls + 1 \in Nat /\ calls + 1 >= calls
    BY DEF AccessIInv, AccessTypeOK
  <2>2. t \in OpenCalls
    BY <1>1, <2>1 DEF OpenCalls, Script
  <2>3. t.n = calls + 1 /\ t.kind = kind /\ t.todo = todo /\ t.user = u /\ t.id = id
    OBVIOUS
  <2>4. sign' = [sign EXCEPT ![p] = t] /\ sign[p] = Quiet /\ calls' = calls + 1
        /\ UNCHANGED <<logs, bindings, changed, policy, since, purge>>
    BY <1>1 DEF BeginCall
  <2> HIDE DEF t
  <2>5. Grows
    BY <2>1, <2>4, GrowsByNothing
  <2>6. FitsKind(t)
    BY <1>1, <2>3 DEF FitsKind, Script
  <2> QED BY <1>1, <2>1, <2>2, <2>3, <2>4, <2>5, <2>6, SignStep DEF Script
<1>2. ASSUME NEW u \in Members, Login(p, u) PROVE AccessIInv'
  BY <1>1, <1>2, Scripts DEF Login
<1>3. ASSUME NEW u \in Members, WxUnbind(p, u) PROVE AccessIInv'
  BY <1>1, <1>3, Scripts DEF WxUnbind
<1>4. ASSUME NEW u \in Members, NEW id \in WeChatIds, WxBind(p, u, id) PROVE AccessIInv'
  BY <1>1, <1>4, Scripts DEF WxBind
<1>5. ASSUME NEW id \in WeChatIds, WxLogin(p, id) PROVE AccessIInv'
  BY <1>1, <1>5, Scripts DEF WxLogin
<1>6. ASSUME PutSettings(p) PROVE AccessIInv'
  BY <1>1, <1>6, Scripts DEF PutSettings
<1> QED BY <1>2, <1>3, <1>4, <1>5, <1>6 DEF Handlers

\* A call ends without a row, is refused, or its client goes away.
LEMMA EndStep ==
  ASSUME AccessIInv, NEW p \in Phones, sign[p] # Quiet,
         \/ Answer(p) \/ Refuse(p) \/ sign' = [sign EXCEPT ![p].gone = TRUE],
         Grows, UNCHANGED <<calls, logs>>
  PROVE  AccessIInv'
<1>1. calls \in Nat /\ sign[p] \in OpenCalls /\ calls >= calls
  BY DEF AccessIInv, AccessTypeOK
<1>2. CASE Answer(p)
  BY <1>1, <1>2, SignStep DEF Answer
<1>3. CASE Refuse(p)
  <2> DEFINE t == [sign[p] EXCEPT !.todo = <<"record">>, !.ok = FALSE]
  <2>1. <<"record">> \in Seq(Statements) /\ FALSE \in BOOLEAN
    BY DEF Statements
  <2>2. t \in OpenCalls /\ t.n = sign[p].n /\ t.todo = <<"record">> /\ ~t.ok
        /\ t.kind = sign[p].kind /\ t.user = sign[p].user /\ t.id = sign[p].id
    BY <1>1, <2>1 DEF OpenCalls
  <2>3. sign' = [sign EXCEPT ![p] = t]
    BY <1>3 DEF Refuse, AccessIInv, AccessTypeOK
  <2>4. FitsKind(sign[p])
    BY DEF AccessIInv, RecordLast
  <2> HIDE DEF t
  <2>5. t.todo # <<>> /\ \A i \in 1 .. Len(t.todo) : t.todo[i] = "record" <=> i = Len(t.todo)
    BY <2>2
  <2>6. FitsKind(t)
    BY <2>2, <2>4 DEF FitsKind
  <2> QED BY <2>6, <1>1, <2>2, <2>3, <2>4, <2>5, SignStep
<1>4. CASE sign' = [sign EXCEPT ![p].gone = TRUE]
  <2> DEFINE s == sign[p]
             t == [s EXCEPT !.gone = TRUE]
             ahead(c) == \E i \in 1 .. Len(c.todo) : c.todo[i] = c.kind
  <2>1. t \in OpenCalls /\ t.n = s.n /\ t.todo = s.todo /\ t.ok = s.ok
        /\ t.kind = s.kind /\ t.user = s.user /\ t.id = s.id
    BY <1>1 DEF OpenCalls
  <2>2. sign' = [sign EXCEPT ![p] = t]
    BY <1>4 DEF AccessIInv, AccessTypeOK
  <2>3. /\ s.todo # <<>>
        /\ \A i \in 1 .. Len(s.todo) : s.todo[i] = "record" <=> i = Len(s.todo)
        /\ FitsKind(s)
        /\ s.ok /\ s.kind = "bind" => ahead(s) \/ BoundBy(s.n, s.user)
        /\ s.ok /\ s.kind = "settings" => ahead(s) \/ s.n \in changed
    BY DEF AccessIInv, RecordLast
  <2>4. s.kind = "bind" /\ BoundBy(s.n, s.user) => BoundThen(s.n, s.user)
    BY <2>3 DEF Grows, FitsKind
  <2>5. (ahead(s) => ahead(t)) /\ FitsKind(t)
    BY <2>1, <2>3 DEF FitsKind
  <2>6. s # Quiet
    OBVIOUS
  <2> HIDE DEF s, t
  <2>7. /\ t.todo # <<>>
        /\ \A i \in 1 .. Len(t.todo) : t.todo[i] = "record" <=> i = Len(t.todo)
        /\ FitsKind(t)
        /\ t.ok /\ t.kind = "bind" => ahead(t) \/ BoundThen(t.n, t.user)
        /\ t.ok /\ t.kind = "settings" => ahead(t) \/ t.n \in changed'
    <3> HIDE DEF ahead
    <3> QED BY <2>1, <2>3, <2>4, <2>5 DEF Grows
  <2>8. sign[p] # Quiet /\ t.n = sign[p].n
    BY <2>1 DEF s
  <2> QED BY <1>1, <2>1, <2>2, <2>7, <2>8, SignStep
<1> QED BY <1>2, <1>3, <1>4

\* The row of the audit log.
LEMMA InsertStep ==
  ASSUME AccessIInv, NEW p \in Phones, Insert(p)
  PROVE  AccessIInv'
<1> DEFINE s == sign[p]
           row == [call |-> s.n, kind |-> s.kind, user |-> s.user, ok |-> s.ok, age |-> 0]
<1>1. /\ s \in OpenCalls /\ s # Quiet /\ s.todo[1] = "record"
      /\ s.todo \in Seq(Statements) /\ s.todo # <<>>
      /\ \A i \in 1 .. Len(s.todo) : s.todo[i] = "record" <=> i = Len(s.todo)
      /\ FitsKind(s)
  BY DEF Insert, Stage, AccessIInv, AccessTypeOK, RecordLast, OpenCalls
<1>2. /\ sign'[p] = Quiet /\ \A q \in Phones \ {p} : sign'[q] = sign[q]
      /\ sign' = [sign EXCEPT ![p] = Quiet] /\ logs' = logs \cup {row}
      /\ UNCHANGED <<calls, openid, holder, ended, changed, policy, since, purge>>
  BY DEF Insert, Answer, AccessIInv, AccessTypeOK, bindings
<1>3. row \in [call : Nat, kind : Kinds, user : Members \cup {Quiet}, ok : BOOLEAN, age : Nat]
  BY <1>1 DEF OpenCalls
<1>4. row.call = s.n /\ row.kind = s.kind /\ row.ok = s.ok /\ row.user = s.user
  OBVIOUS
<1>5. Len(s.todo) = 1
  <2>1. Len(s.todo) \in Nat /\ Len(s.todo) # 0
    BY <1>1
  <2>2. 1 \in 1 .. Len(s.todo)
    BY <2>1
  <2> QED BY <1>1, <2>2
<1>6. /\ s.ok /\ s.kind = "bind" => BoundBy(s.n, s.user)
      /\ s.ok /\ s.kind = "settings" => s.n \in changed
  BY <1>1, <1>5 DEF AccessIInv, RecordLast
<1> HIDE DEF s, row
<1>7. s.n \in 1 .. calls /\ \A r \in logs : r.call # s.n
  BY <1>1 DEF AccessIInv, Numbered, s
<1>8. AccessTypeOK'
  BY <1>1, <1>2, <1>3, <1>4 DEF AccessIInv, AccessTypeOK, FitsKind
<1>9. AuditTellsTheTruth'
  BY <1>2, <1>4, <1>6, <1>7 DEF AccessIInv, AuditTellsTheTruth, BoundBy
<1>10. \A q \in Phones \ {p} : sign[q] # Quiet => sign[q].n # s.n
  BY <1>1 DEF AccessIInv, Numbered, s
<1>11. Numbered'
  BY <1>2, <1>4, <1>7, <1>10 DEF AccessIInv, Numbered
<1>12. RecordLast'
  BY <1>2 DEF AccessIInv, RecordLast, BoundBy
<1>13. HeldByCalls'
  BY <1>2 DEF AccessIInv, HeldByCalls
<1> QED BY <1>8, <1>9, <1>11, <1>12, <1>13 DEF AccessIInv

\* A day passes, a purge reads the policy, or applies it: rows keep all but
\* their age.
LEMMA LogStep ==
  ASSUME AccessIInv, UNCHANGED <<sign, calls, bindings, changed, policy>>,
         since' \subseteq Policies, policy' \in since',
         purge' \in {s \in since' : s.enabled} \cup {Quiet},
         \/ logs' \subseteq logs
         \/ logs' = {[r EXCEPT !.age = @ + 1] : r \in logs}
  PROVE  AccessIInv'
<1>1. \A x \in logs' : \E r \in logs :
        /\ x \in [call : Nat, kind : Kinds, user : Members \cup {Quiet}, ok : BOOLEAN, age : Nat]
        /\ x.call = r.call /\ x.kind = r.kind /\ x.ok = r.ok /\ x.user = r.user
  BY DEF AccessIInv, AccessTypeOK
<1>2. \A x, y \in logs' : x.call = y.call => x = y
  <2>1. CASE logs' \subseteq logs
    BY <2>1 DEF AccessIInv, AuditTellsTheTruth
  <2>2. CASE logs' = {[r EXCEPT !.age = @ + 1] : r \in logs}
    <3>1. ASSUME NEW x \in logs', NEW y \in logs', x.call = y.call PROVE x = y
      <4>1. PICK r \in logs, o \in logs :
              x = [r EXCEPT !.age = @ + 1] /\ y = [o EXCEPT !.age = @ + 1]
        BY <2>2
      <4>2. r.call = o.call
        BY <3>1, <4>1 DEF AccessIInv, AccessTypeOK
      <4> QED BY <4>1, <4>2 DEF AccessIInv, AuditTellsTheTruth
    <3> QED BY <3>1
  <2> QED BY <2>1, <2>2
<1>3. UNCHANGED <<openid, holder, ended>>
  BY DEF bindings
<1>4. AccessTypeOK'
  BY <1>1, <1>3 DEF AccessIInv, AccessTypeOK
<1>5. AuditTellsTheTruth'
  BY <1>1, <1>2, <1>3 DEF AccessIInv, AuditTellsTheTruth, BoundBy
<1>6. Numbered'
  BY <1>1 DEF AccessIInv, Numbered
<1>7. RecordLast'
  BY <1>3 DEF AccessIInv, RecordLast, BoundBy
<1>8. HeldByCalls'
  BY <1>3 DEF AccessIInv, HeldByCalls
<1> QED BY <1>4, <1>5, <1>6, <1>7, <1>8 DEF AccessIInv

\* The end of a binding by the deletion of its account.
LEMMA DeletionStep ==
  ASSUME AccessIInv, NEW u \in Members, DeleteMember(u)
  PROVE  AccessIInv'
<1>1. Release(u) /\ UNCHANGED <<sign, calls, logs, policy, purge, changed, since>>
  BY DEF DeleteMember
<1>2. Grows
  BY <1>1, GrowsByBinding
<1>3. AccessTypeOK'
  BY <1>1, <1>2 DEF AccessIInv, AccessTypeOK, Grows
<1>4. \A n : \A v \in Members : BoundBy(n, v) => BoundThen(n, v)
  BY <1>2 DEF Grows
<1>5. AuditTellsTheTruth'
  <2>1. \A r \in logs : r.ok /\ r.kind = "bind" => BoundThen(r.call, r.user)
    BY <1>4 DEF AccessIInv, AccessTypeOK, AuditTellsTheTruth
  <2> QED BY <1>1, <2>1 DEF AccessIInv, AuditTellsTheTruth, BoundBy, BoundThen
<1>6. Numbered'
  BY <1>1 DEF AccessIInv, Numbered
<1>7. RecordLast'
  <2> SUFFICES ASSUME NEW q \in Phones, sign[q] # Quiet
               PROVE  LET s == sign[q]
                          ahead == \E i \in 1 .. Len(s.todo) : s.todo[i] = s.kind IN
                      /\ s.todo # <<>>
                      /\ \A i \in 1 .. Len(s.todo) : s.todo[i] = "record" <=> i = Len(s.todo)
                      /\ FitsKind(s)
                      /\ s.ok /\ s.kind = "bind" => ahead \/ BoundThen(s.n, s.user)
                      /\ s.ok /\ s.kind = "settings" => ahead \/ s.n \in changed
    BY <1>1 DEF RecordLast, BoundBy, BoundThen
  <2> QED BY <1>1, <1>2 DEF AccessIInv, RecordLast, FitsKind, Grows
<1> QED BY <1>2, <1>3, <1>5, <1>6, <1>7 DEF AccessIInv, Grows

\* The statement that is due is the first of those the call has still to do.
LEMMA HeadDue ==
  ASSUME AccessIInv, NEW p \in Phones, NEW what, Stage(p, what)
  PROVE  /\ FitsKind(sign[p])
         /\ what \in {"bind", "unbind"} => sign[p].kind = what
<1>1. /\ sign[p] # Quiet /\ sign[p].todo \in Seq(Statements) /\ sign[p].todo # <<>>
      /\ sign[p].todo[1] = what /\ FitsKind(sign[p])
  BY DEF Stage, AccessIInv, AccessTypeOK, RecordLast, OpenCalls
<1>2. 1 \in 1 .. Len(sign[p].todo)
  BY <1>1
<1> QED BY <1>1, <1>2 DEF FitsKind

\* Every step of login and binding keeps the invariant.
LEMMA AccessNextInductive == AccessIInv /\ [AccessNext]_accessVars => AccessIInv'
<1> SUFFICES ASSUME AccessIInv, [AccessNext]_accessVars PROVE AccessIInv'
  OBVIOUS
<1>1. /\ since \subseteq Policies /\ policy \in since /\ calls \in Nat /\ calls >= calls
      /\ purge \in {s \in since : s.enabled} \cup {Quiet}
  BY DEF AccessIInv, AccessTypeOK
<1>2. ASSUME NEW p \in Phones,
             \/ Authenticate(p) \/ CodeToOpenid(p) \/ GetByOpenid(p) \/ ByUsername(p)
             \/ RefuseSettings(p)
      PROVE  AccessIInv'
  <2>1. UNCHANGED <<calls, logs, policy, purge, bindings, changed, since>>
    BY <1>2 DEF Authenticate, CodeToOpenid, GetByOpenid, ByUsername, RefuseSettings
  <2>2. Grows
    BY <1>1, <2>1, GrowsByNothing
  <2>3. sign[p] # Quiet
    BY <1>2 DEF Authenticate, CodeToOpenid, GetByOpenid, ByUsername, RefuseSettings, Stage
  <2>4. \/ Answer(p) \/ Refuse(p)
        \/ Advance(p) /\ \E what \in {"password", "code", "find", "account"} : Stage(p, what)
    BY <1>2 DEF Authenticate, CodeToOpenid, GetByOpenid, ByUsername, RefuseSettings
  <2> QED BY <2>1, <2>2, <2>3, <2>4, EndStep, AdvanceStep DEF Statements
<1>3. ASSUME NEW p \in Phones, BindOpenid(p) PROVE AccessIInv'
  <2>1. CASE Bindable(sign[p].user, sign[p].id)
    <3> DEFINE u == sign[p].user
               n == sign[p].n
    <3>1. Stage(p, "bind") /\ Advance(p) /\ changed' = changed \cup {n}
          /\ Bind(u, sign[p].id, n) /\ UNCHANGED <<calls, logs, policy, purge, since>>
      BY <1>3, <2>1 DEF BindOpenid
    <3>2. sign[p] # Quiet /\ n \in 1 .. calls /\ openid[u] = NoId
      BY <2>1, <3>1 DEF Stage, Bindable, AccessIInv, Numbered
    <3>3. u \in Members /\ sign[p].id # NoId
      BY <3>1, HeadDue, AccessAssumption DEF FitsKind
    <3>4. Grows
      BY <3>1, <3>2, <3>3, GrowsByBinding
    <3>5. BoundThen(n, u)
      BY <3>1, <3>3 DEF BoundThen, Bind, AccessIInv, AccessTypeOK
    <3> QED BY <3>1, <3>4, <3>5, AdvanceStep DEF Statements
  <2>2. CASE ~Bindable(sign[p].user, sign[p].id)
    <3>1. Answer(p) /\ UNCHANGED <<calls, logs, policy, purge, bindings, changed, since>>
          /\ sign[p] # Quiet
      BY <1>3, <2>2 DEF BindOpenid, Stage
    <3> QED BY <1>1, <3>1, GrowsByNothing, EndStep
  <2> QED BY <2>1, <2>2
<1>4. ASSUME NEW p \in Phones, UnbindOpenid(p) PROVE AccessIInv'
  <2> DEFINE u == sign[p].user
  <2>1. /\ Stage(p, "unbind") /\ Advance(p) /\ Release(u)
        /\ changed \subseteq changed' /\ UNCHANGED <<calls, logs, policy, purge, since>>
    BY <1>4 DEF UnbindOpenid
  <2>2. u \in Members
    BY <2>1, HeadDue DEF FitsKind
  <2>3. Grows
    BY <2>1, <2>2, GrowsByBinding
  <2> QED BY <2>1, <2>3, AdvanceStep DEF Statements
<1>5. ASSUME NEW p \in Phones, UpdateSettings(p) PROVE AccessIInv'
  <2>1. /\ Stage(p, "settings") /\ (Advance(p) \/ Refuse(p)) /\ sign[p] # Quiet
        /\ policy' \in Policies /\ since' = since \cup {policy'}
        /\ changed' = changed \cup {sign[p].n} /\ UNCHANGED <<bindings, calls, logs, purge>>
    BY <1>5 DEF UpdateSettings, WritePolicy, Stage
  <2>2. UNCHANGED <<openid, holder, ended>>
    BY <2>1 DEF bindings
  <2>3. HeldByCalls' /\ \A v \in Members : \A n : BoundBy(n, v) => BoundThen(n, v)
    BY <2>1, <2>2 DEF AccessIInv, HeldByCalls, BoundBy, BoundThen
  <2>4. Grows
    BY <1>1, <2>1, <2>2, <2>3 DEF Grows, AccessIInv, AccessTypeOK
  <2>5. sign[p].n \in changed'
    BY <2>1
  <2> QED BY <2>1, <2>4, <2>5, EndStep, AdvanceStep DEF Statements
<1>6. ASSUME NEW p \in Phones, HangUp(p) PROVE AccessIInv'
  <2>1. /\ sign[p] # Quiet /\ (Answer(p) \/ sign' = [sign EXCEPT ![p].gone = TRUE])
        /\ UNCHANGED <<calls, logs, policy, purge, bindings, changed, since>>
    BY <1>6 DEF HangUp
  <2> QED BY <1>1, <1>6, <2>1, GrowsByNothing, EndStep DEF HangUp
<1>7. CASE RunRetentionLoop
  <2>1. CASE ReadPolicy
    BY <1>1, <2>1, LogStep DEF ReadPolicy
  <2>2. CASE PurgeExpired
    BY <1>1, <2>2, LogStep DEF PurgeExpired
  <2> QED BY <1>7, <2>1, <2>2 DEF RunRetentionLoop
<1>8. CASE NextDay \/ UNCHANGED accessVars
  <2>1. /\ UNCHANGED <<sign, calls, policy, purge, bindings, changed, since>>
        /\ logs' = logs \/ logs' = {[r EXCEPT !.age = @ + 1] : r \in logs}
    BY <1>8 DEF NextDay, accessVars
  <2> QED BY <1>1, <2>1, LogStep
<1> QED BY <1>2, <1>3, <1>4, <1>5, <1>6, <1>7, <1>8, BeginStep, InsertStep, DeletionStep
        DEF AccessNext

\* The invariant of login and binding holds for any accounts, codes and phones: what the log
\* says was done was done, and every call writes at most one row of it.
THEOREM AccessInvariance == AccessSpec => []AccessIInv
BY AccessInitInductive, AccessNextInductive, PTL DEF AccessSpec

\* The audit log tells the truth about bindings and settings: the call that it
\* says bound an account did, and the account has the id by it until an unbinding
\* or a deletion; the call that it says changed the settings did (auth/handler.go,
\* systemlog/store.go Insert): AuditTellsTheTruth.
THEOREM AuditIsTrue == AccessSpec => []AuditTellsTheTruth
<1>1. AccessIInv => AuditTellsTheTruth
  BY DEF AccessIInv
<1> QED BY <1>1, AccessInvariance, PTL

\* A purge deletes only what a policy let go of that was in force when it read
\* the settings, or came into force since (systemlog/store.go
\* PurgeExpired): OnlyExpiredRowsGo.
THEOREM RowsExpire == AccessSpec => OnlyExpiredRowsGo
<1>1. ASSUME AccessIInv, [AccessNext]_accessVars, NEW r \in logs, \A o \in logs' : o.call # r.call
      PROVE  \E s \in since : s.enabled /\ r.age > s.days
  <2>1. ~(logs \subseteq logs')
    BY <1>1
  <2>2. ~NextDay
    <3> SUFFICES ASSUME logs' = {[o EXCEPT !.age = @ + 1] : o \in logs} PROVE FALSE
      BY DEF NextDay
    <3>1. [r EXCEPT !.age = @ + 1] \in logs' /\ [r EXCEPT !.age = @ + 1].call = r.call
      BY <1>1 DEF AccessIInv, AccessTypeOK
    <3> QED BY <1>1, <3>1
  <2>3. \A p \in Phones : ~Insert(p)
    BY <2>1 DEF Insert
  <2>4. PurgeExpired
    BY <1>1, <2>1, <2>2, <2>3
       DEF AccessNext, accessVars, Handlers, Login, WxUnbind, WxBind, WxLogin, PutSettings, BeginCall,
           Authenticate, CodeToOpenid, GetByOpenid, BindOpenid, ByUsername, UnbindOpenid,
           UpdateSettings, RefuseSettings, WritePolicy, HangUp, DeleteMember, RunRetentionLoop, ReadPolicy
  <2>5. purge # Quiet /\ logs' = {o \in logs : o.age <= purge.days}
    BY <2>1, <2>4 DEF PurgeExpired
  <2>6. purge \in since /\ purge.enabled
    BY <1>1, <2>5 DEF AccessIInv, AccessTypeOK
  <2>7. r.age \in Nat /\ purge.days \in Nat
    BY <1>1, <2>6, AccessAssumption DEF AccessIInv, AccessTypeOK, Policies
  <2>8. ~(r.age <= purge.days)
    BY <1>1, <2>5
  <2> QED BY <2>6, <2>7, <2>8
<1>2. AccessIInv /\ [AccessNext]_accessVars =>
        [\A r \in logs : (\A o \in logs' : o.call # r.call) =>
          \E s \in since : s.enabled /\ r.age > s.days]_accessVars
  BY <1>1
<1> QED BY <1>2, AccessInvariance, PTL DEF AccessSpec, OnlyExpiredRowsGo

----------------------------------------------------------------------------
(* Bell times.                                                             *)

\* The rows of one set are whole.
LEMMA OneSetIsWhole ==
  ASSUME NEW r \in Nat, NEW s \in SUBSET Nat, NEW n \in Nat
  PROVE  PeriodRows(r, s, n) \subseteq PeriodRowSet /\ Whole(PeriodRows(r, s, n))
BY DEF PeriodRows, PeriodRowSet, Whole

\* So are two tables of whole sets together.
LEMMA WholeUnion ==
  ASSUME NEW P, NEW Q, Whole(P), Whole(Q)
  PROVE  Whole(P \cup Q)
BY DEF Whole

\* And what is left of whole sets when whole sets go.
LEMMA WholeDifference ==
  ASSUME NEW P \in SUBSET PeriodRowSet, NEW Q \in SUBSET PeriodRowSet, Whole(P), Whole(Q)
  PROVE  Whole(P \ Q)
<1> SUFFICES ASSUME NEW p \in P, p \notin Q, NEW i \in p.asked
             PROVE  [p EXCEPT !.index = i] \in P /\ [p EXCEPT !.index = i] \notin Q
  BY DEF Whole
<1> DEFINE q == [p EXCEPT !.index = i]
<1>1. q \in P
  BY DEF Whole
<1>2. q.asked = p.asked /\ p = [q EXCEPT !.index = p.index] /\ p.index \in p.asked
  BY DEF PeriodRowSet
<1>3. q \notin Q
  <2> HIDE DEF q
  <2> QED BY <1>2 DEF Whole
<1> QED BY <1>1, <1>3

\* The seeded tables satisfy the invariant.
LEMMA RegimesInitInductive == RegimesInit => RegimesIInv
<1> SUFFICES ASSUME RegimesInit PROVE RegimesIInv
  OBVIOUS
<1>1. PICK n \in 0 .. 2 * Len(Seeds) :
       /\ regime = [r \in Ids |-> IF 2 * r - 1 <= n
                      THEN [name |-> Seeds[r][1], start |-> Seeds[r][2]] ELSE NoRegime]
       /\ periods = UNION {PeriodRows(r, {1, 2}, 0) : r \in {x \in Ids : 2 * x <= n}}
       /\ nextRegime = (n + 1) \div 2 + 1
  BY DEF RegimesInit
<1>2. /\ Len(Seeds) \in Nat /\ n \in Nat /\ nextRegime \in Nat \ {0}
      /\ Ids \subseteq Nat /\ {1, 2} \in SUBSET Nat
  BY <1>1, RegimesAssumption DEF Ids
<1>3. \A r \in Ids : 2 * r - 1 <= n => [name |-> Seeds[r][1], start |-> Seeds[r][2]] \in RegimeRows
  <2> SUFFICES ASSUME NEW r \in Ids, 2 * r - 1 <= n
               PROVE  [name |-> Seeds[r][1], start |-> Seeds[r][2]] \in RegimeRows
    OBVIOUS
  <2>1. r \in 1 .. Len(Seeds)
    BY <1>1, <1>2, RegimesAssumption DEF Ids
  <2>2. Seeds[r] \in RegimeNames \X Starts
    BY <2>1, RegimesAssumption
  <2> QED BY <2>2 DEF RegimeRows
<1>4. periods \subseteq PeriodRowSet
  <2> SUFFICES ASSUME NEW p \in periods PROVE p \in PeriodRowSet
    OBVIOUS
  <2>1. PICK r \in Ids : 2 * r <= n /\ p \in PeriodRows(r, {1, 2}, 0)
    BY <1>1
  <2> QED BY <1>2, <2>1, OneSetIsWhole
<1>5. Whole(periods)
  <2> SUFFICES ASSUME NEW p \in periods, NEW i \in p.asked PROVE [p EXCEPT !.index = i] \in periods
    BY DEF Whole
  <2>1. PICK r \in Ids : 2 * r <= n /\ p \in PeriodRows(r, {1, 2}, 0)
    BY <1>1
  <2>2. [p EXCEPT !.index = i] \in PeriodRows(r, {1, 2}, 0)
    BY <1>2, <2>1, OneSetIsWhole DEF Whole
  <2> QED BY <1>1, <2>1, <2>2
<1>6. RegimesTypeOK
  BY <1>1, <1>2, <1>3, <1>4 DEF RegimesInit, RegimesTypeOK
<1>7. \A p \in periods : \E r \in Ids : 2 * r <= n /\ p.regime = r /\ p.edit = 0
  BY <1>1 DEF PeriodRows
<1>8. \A r \in Ids : 2 * r <= n => Stands(r)
  <2> SUFFICES ASSUME NEW r \in Ids, 2 * r <= n PROVE Stands(r)
    OBVIOUS
  <2>1. 2 * r - 1 <= n
    BY <1>2, RegimesAssumption DEF Ids
  <2> QED BY <1>1, <1>3, <2>1, RegimesAssumption DEF Stands
<1>9. PeriodsAreOneEdit
  BY <1>5, <1>7, <1>8 DEF PeriodsAreOneEdit, PeriodsOf
<1> QED BY <1>6, <1>9 DEF RegimesIInv, RegimesInit

\* A row of its own is written: who stands keeps standing.
LEMMA RegimeRowStep ==
  ASSUME RegimesIInv, NEW r \in Ids, NEW n \in RegimeNames, NEW d \in Starts,
         regime' = [regime EXCEPT ![r] = [name |-> n, start |-> d]],
         nextRegime' \in Nat \ {0}, UNCHANGED aside
  PROVE  RegimesIInv'
<1>1. [name |-> n, start |-> d] \in RegimeRows /\ [name |-> n, start |-> d] # NoRegime
  BY RegimesAssumption DEF RegimeRows
<1>2. regime' \in [Ids -> RegimeRows \cup {NoRegime}] /\ \A x \in Ids : Stands(x) => Stands(x)'
  BY <1>1 DEF RegimesIInv, RegimesTypeOK, Stands
<1>3. RegimesTypeOK'
  BY <1>2 DEF RegimesIInv, RegimesTypeOK, EditShape, aside
<1>4. PeriodsAreOneEdit'
  BY <1>2 DEF RegimesIInv, PeriodsAreOneEdit, PeriodsOf, aside
<1>5. \A e \in Editors : edit'[e] # Idle => OwnSet(e)' /\ SeenSet(e)'
  BY DEF RegimesIInv, OwnSet, SeenSet, PeriodsOf, aside
<1> QED BY <1>3, <1>4, <1>5 DEF RegimesIInv

\* One editor's transaction goes on, with nothing committed: the invariant is
\* kept if she has whole sets at hand.
LEMMA EditStep ==
  ASSUME RegimesIInv, NEW e \in Editors,
         edit' = [edit EXCEPT ![e] = edit'[e]],
         UNCHANGED <<regime, periods, unseen, mixed, early>>,
         nextRegime' \in Nat \ {0}, edits' \in Nat,
         edit'[e] # Idle => EditShape(e)' /\ OwnSet(e)' /\ SeenSet(e)'
  PROVE  RegimesIInv'
<1>1. /\ \A d \in Editors \ {e} : edit'[d] = edit[d]
      /\ edit' = [d \in Editors |-> edit'[d]]
  BY DEF RegimesIInv, RegimesTypeOK
<1>2. RegimesTypeOK'
  <2>1. \A d \in Editors \ {e} : edit'[d] # Idle => EditShape(d)'
    BY <1>1 DEF RegimesIInv, RegimesTypeOK, EditShape
  <2> QED BY <1>1, <2>1 DEF RegimesIInv, RegimesTypeOK
<1>3. PeriodsAreOneEdit'
  BY DEF RegimesIInv, PeriodsAreOneEdit, PeriodsOf, Stands
<1>4. \A d \in Editors \ {e} : edit'[d] # Idle => OwnSet(d)' /\ SeenSet(d)'
  BY <1>1 DEF RegimesIInv, OwnSet, SeenSet, PeriodsOf
<1> QED BY <1>2, <1>3, <1>4 DEF RegimesIInv

\* An edit that begins holds a fresh number and no row.
LEMMA BeginEditStep ==
  ASSUME RegimesIInv, NEW e \in Editors, NEW kind, NEW file, Begin(e, kind, file), edits' \in Nat,
         kind \in {"replace", "delete"} =>
           file[1].regime \in Nat /\ file[1].periods \subseteq Nat /\ file[1].edit \in Nat,
         kind = "delete" => file[1].periods = {},
         kind = "import" => file \in Seq([name : RegimeNames, start : Starts,
                                         periods : SUBSET Nat, edit : Nat])
  PROVE  RegimesIInv'
<1> DEFINE t == [kind |-> kind, file |-> file, at |-> <<>>, seen |-> {}, own |-> {}]
<1>1. /\ edit'[e] = t /\ edit' = [edit EXCEPT ![e] = edit'[e]]
      /\ UNCHANGED <<regime, periods, nextRegime, unseen, mixed, early>>
  BY DEF Begin, RegimesIInv, RegimesTypeOK
<1>2. /\ t = [kind |-> t.kind, file |-> t.file, at |-> t.at, seen |-> t.seen, own |-> t.own]
      /\ t.at = <<>> /\ t.at \in Seq(Nat) /\ t.kind = kind /\ t.file = file
      /\ Len(t.at) = 0 /\ Range(t.at) = {} /\ t.seen = {} /\ t.own = {}
  BY DEF Range
<1> HIDE DEF t
<1>3. EditShape(e)'
  BY <1>1, <1>2 DEF EditShape
<1>4. OwnSet(e)' /\ SeenSet(e)'
  BY <1>1, <1>2 DEF OwnSet, SeenSet, Whole
<1> QED BY <1>1, <1>3, <1>4, EditStep DEF RegimesIInv, RegimesTypeOK

\* The DELETE of a replacement and its INSERTs.
LEMMA PeriodsStep ==
  ASSUME RegimesIInv, NEW e \in Editors, NEW r \in Nat, NEW g, edit[e] # Idle, Replace(e, r, g),
         g.periods \subseteq Nat, g.edit \in Nat, edit[e].kind = "delete" => g.periods = {},
         edit[e].kind \in {"replace", "delete"} => edit[e].at = <<>>,
         nextRegime' \in Nat \ {0}
  PROVE  RegimesIInv'
<1> DEFINE o == edit[e]
           t == edit'[e]
           own == {p \in o.own : p.regime # r}
<1>1. EditShape(e) /\ o.at \in Seq(Nat) /\ OwnSet(e) /\ SeenSet(e) /\ periods \subseteq PeriodRowSet
  BY DEF RegimesIInv, RegimesTypeOK, EditShape
<1>2. /\ t = [o EXCEPT !.at = Append(o.at, r), !.seen = o.seen \cup PeriodsOf(r),
                       !.own = own \cup PeriodRows(r, g.periods, g.edit)]
      /\ edit' = [edit EXCEPT ![e] = t]
      /\ UNCHANGED <<regime, periods, edits, unseen, mixed, early>>
  BY DEF Replace, RegimesIInv, RegimesTypeOK
<1>3. o = [kind |-> o.kind, file |-> o.file, at |-> o.at, seen |-> o.seen, own |-> o.own]
  BY <1>1 DEF EditShape
<1> HIDE DEF own
<1>4. /\ t = [kind |-> t.kind, file |-> t.file, at |-> t.at, seen |-> t.seen, own |-> t.own]
      /\ t.kind = o.kind /\ t.file = o.file /\ t.at = Append(o.at, r)
      /\ t.seen = o.seen \cup PeriodsOf(r) /\ t.own = own \cup PeriodRows(r, g.periods, g.edit)
  <2> HIDE DEF o
  <2> QED BY <1>2, <1>3
<1>5. /\ t.at \in Seq(Nat) /\ Range(t.at) = Range(o.at) \cup {r}
      /\ o.at = <<>> => Len(t.at) = 1
  <2> HIDE DEF o, t
  <2>1. t.at = Append(o.at, r) /\ o.at \in Seq(Nat) /\ r \in Nat
    BY <1>1, <1>4
  <2>2. t.at \in Seq(Nat) /\ Len(t.at) = Len(o.at) + 1 /\ t.at[Len(o.at) + 1] = r
    BY <2>1
  <2>3. /\ Len(o.at) \in Nat /\ DOMAIN o.at = 1 .. Len(o.at) /\ DOMAIN t.at = 1 .. Len(t.at)
        /\ o.at = <<>> => Len(o.at) = 0
    BY <2>1, <2>2
  <2>4. \A i \in DOMAIN o.at : t.at[i] = o.at[i]
    BY <2>1
  <2>5. DOMAIN t.at = DOMAIN o.at \cup {Len(o.at) + 1}
    BY <2>2, <2>3
  <2>6. Range(t.at) = Range(o.at) \cup {r}
    <3>1. Range(t.at) = {t.at[i] : i \in DOMAIN o.at \cup {Len(o.at) + 1}}
      BY <2>5 DEF Range
    <3>2. Range(o.at) = {t.at[i] : i \in DOMAIN o.at}
      BY <2>4 DEF Range
    <3> QED BY <2>2, <3>1, <3>2
  <2> QED BY <2>2, <2>3, <2>6
<1>6. EditShape(e)'
  BY <1>1, <1>4, <1>5 DEF EditShape
<1>7. OwnSet(e)'
  <2> DEFINE rows == PeriodRows(r, g.periods, g.edit)
  <2>1. rows \subseteq PeriodRowSet /\ Whole(rows) /\ \A p \in rows : p.regime = r /\ p.edit = g.edit
    <3>1. rows \subseteq PeriodRowSet /\ Whole(rows)
      BY OneSetIsWhole
    <3>2. \A p \in rows : p.regime = r /\ p.edit = g.edit
      BY DEF PeriodRows
    <3> QED BY <3>1, <3>2
  <2>2. /\ o.own \subseteq PeriodRowSet /\ Whole(o.own)
        /\ \A p \in o.own : p.regime \in Range(o.at)
        /\ \A p, q \in o.own : p.regime = q.regime => p.edit = q.edit
        /\ o.kind = "delete" => o.own = {}
    BY <1>1 DEF OwnSet
  <2>3. /\ own \subseteq PeriodRowSet
        /\ \A p \in own : p \in o.own /\ p.regime # r
    BY <2>2 DEF own
  <2>4. Whole(own)
    BY <2>2 DEF own, Whole, PeriodRowSet
  <2>5. o.kind = "delete" => rows = {} /\ own = {}
    BY <2>2, <2>3 DEF PeriodRows
  <2> HIDE DEF o, t, rows
  <2>6. t.own = own \cup rows
    BY <1>4 DEF rows
  <2>7. \A p, q \in t.own : p.regime = q.regime => p.edit = q.edit
    BY <2>1, <2>2, <2>3, <2>6
  <2>8. t.own \subseteq PeriodRowSet /\ Whole(t.own) /\ (\A p \in t.own : p.regime \in Range(t.at))
    BY <1>5, <2>1, <2>2, <2>3, <2>4, <2>6, WholeUnion
  <2>9. t.kind = "delete" => t.own = {}
    BY <1>4, <2>5, <2>6
  <2> QED BY <2>7, <2>8, <2>9 DEF OwnSet, t
<1>8. SeenSet(e)'
  <2>1. /\ o.seen \subseteq PeriodRowSet /\ Whole(o.seen)
        /\ \A p \in o.seen : p.regime \in Range(o.at)
        /\ \A x \in Range(o.at) : <<e, x>> \notin unseen => PeriodsOf(x) \subseteq o.seen
    BY <1>1 DEF SeenSet
  <2>2. /\ PeriodsOf(r) \subseteq PeriodRowSet
        /\ \A p \in PeriodsOf(r) : p.regime = r
    BY <1>1 DEF PeriodsOf
  <2>3. Whole(PeriodsOf(r))
    BY <1>1 DEF PeriodsOf, Whole, PeriodRowSet, RegimesIInv, PeriodsAreOneEdit
  <2> HIDE DEF o, t
  <2>4. /\ t.seen \subseteq PeriodRowSet /\ Whole(t.seen)
        /\ \A p \in t.seen : p.regime \in Range(t.at)
        /\ \A x \in Range(t.at) : <<e, x>> \notin unseen => PeriodsOf(x) \subseteq t.seen
    BY <1>4, <1>5, <2>1, <2>2, <2>3, WholeUnion
  <2>5. \A x : PeriodsOf(x)' = PeriodsOf(x)
    BY <1>2 DEF PeriodsOf
  <2> QED BY <1>2, <2>4, <2>5 DEF SeenSet, t
<1> QED BY <1>2, <1>6, <1>7, <1>8, EditStep DEF RegimesIInv, RegimesTypeOK

\* A transaction commits: its own whole sets for those that it has seen.
LEMMA CommitStep ==
  ASSUME RegimesIInv, NEW e \in Editors, edit[e] # Idle, Committed(e), periods' = Replaced(e),
         regime' \in [Ids -> RegimeRows \cup {NoRegime}], early \subseteq early',
         \A r \in Ids : Stands(r) => Stands(r)' \/ r \in Range(edit[e].at),
         \A r \in Ids : r \in Range(edit[e].at) =>
           Stands(r)' \/ r \in early' \/ edit[e].own = {}
  PROVE  RegimesIInv'
<1> DEFINE own == edit[e].own
           gone == edit[e].seen
           at == Range(edit[e].at)
<1>1. /\ edit' = [edit EXCEPT ![e] = Idle] /\ UNCHANGED <<nextRegime, edits>>
      /\ edit'[e] = Idle /\ \A d \in Editors \ {e} : edit'[d] = edit[d]
      /\ edit' = [d \in Editors |-> edit'[d]]
      /\ unseen' = (unseen \ Forgotten(e)) \cup Overtaken(e)
      /\ mixed' = (mixed \ at) \cup Missed(e)
  BY DEF Committed, Done, RegimesIInv, RegimesTypeOK
<1>2. /\ own \subseteq PeriodRowSet /\ Whole(own)
      /\ \A p \in own : p.regime \in at
      /\ \A p, q \in own : p.regime = q.regime => p.edit = q.edit
      /\ gone \subseteq PeriodRowSet /\ Whole(gone)
      /\ \A p \in gone : p.regime \in at
      /\ \A r \in at : <<e, r>> \notin unseen => PeriodsOf(r) \subseteq gone
  BY DEF RegimesIInv, OwnSet, SeenSet
<1>3. periods \subseteq PeriodRowSet /\ Whole(periods) /\ unseen \subseteq Editors \X Nat
  BY DEF RegimesIInv, RegimesTypeOK, PeriodsAreOneEdit
<1>4. periods' = (periods \ gone) \cup own
  BY DEF Replaced
<1> HIDE DEF own, gone, at
<1>5. periods' \subseteq PeriodRowSet /\ Whole(periods')
  <2>1. Whole(periods \ gone)
    BY <1>2, <1>3, WholeDifference
  <2>2. Whole((periods \ gone) \cup own)
    BY <1>2, <2>1, WholeUnion
  <2> QED BY <1>2, <1>3, <1>4, <2>2
<1>6. RegimesTypeOK'
  <2>1. Overtaken(e) \subseteq Editors \X Nat
    BY <1>2 DEF Overtaken, PeriodRowSet, own
  <2>2. unseen' \subseteq Editors \X Nat
    BY <1>1, <1>3, <2>1
  <2>3. \A d \in Editors : edit'[d] # Idle => EditShape(d)'
    BY <1>1 DEF RegimesIInv, RegimesTypeOK, EditShape
  <2> QED BY <1>1, <1>5, <2>2, <2>3 DEF RegimesIInv, RegimesTypeOK
<1>7. ASSUME NEW r \in Ids \ mixed'
      PROVE  /\ \A p, q \in PeriodsOf(r)' : p.edit = q.edit
             /\ PeriodsOf(r)' # {} => Stands(r)' \/ r \in early'
  <2>1. CASE r \in at
    <3>1. <<e, r>> \notin unseen
      BY <1>1, <1>7, <2>1 DEF Missed, at
    <3>2. PeriodsOf(r) \subseteq gone
      BY <1>2, <2>1, <3>1
    <3>3. \A p \in PeriodsOf(r)' : p \in own /\ p.regime = r
      BY <1>4, <3>2 DEF PeriodsOf
    <3> QED BY <1>2, <2>1, <3>3 DEF at, own
  <2>2. CASE r \notin at
    <3>1. r \notin mixed /\ (Stands(r) => Stands(r)')
      BY <1>1, <1>7, <2>2 DEF at
    <3>2. PeriodsOf(r)' = PeriodsOf(r)
      BY <1>2, <1>4, <2>2 DEF PeriodsOf
    <3> QED BY <3>1, <3>2 DEF RegimesIInv, PeriodsAreOneEdit
  <2> QED BY <2>1, <2>2
<1>8. PeriodsAreOneEdit'
  BY <1>5, <1>7 DEF PeriodsAreOneEdit, Ids
<1>9. ASSUME NEW d \in Editors \ {e}, edit[d] # Idle
      PROVE  OwnSet(d)' /\ SeenSet(d)'
  <2>1. OwnSet(d) /\ SeenSet(d) /\ edit'[d] = edit[d]
    BY <1>1, <1>9 DEF RegimesIInv
  <2>2. ASSUME NEW r \in Range(edit[d].at), <<d, r>> \notin unseen'
        PROVE  PeriodsOf(r)' \subseteq edit[d].seen
    <3>1. <<d, r>> \notin unseen
      BY <1>1, <2>2 DEF Forgotten
    <3>2. r \notin {p.regime : p \in own}
      BY <1>1, <1>9, <2>2 DEF Overtaken, own
    <3>3. PeriodsOf(r)' \subseteq PeriodsOf(r)
      BY <1>4, <3>2 DEF PeriodsOf
    <3> QED BY <2>1, <2>2, <3>1, <3>3 DEF SeenSet
  <2>3. SeenSet(d)'
    BY <2>1, <2>2 DEF SeenSet
  <2> QED BY <2>1, <2>3 DEF OwnSet
<1> QED BY <1>1, <1>6, <1>8, <1>9 DEF RegimesIInv

\* A transaction that rolls back leaves the tables as they were.
LEMMA RollBackStep ==
  ASSUME RegimesIInv, NEW e \in Editors, RollBack(e)
  PROVE  RegimesIInv'
<1>1. /\ edit' = [edit EXCEPT ![e] = Idle]
      /\ UNCHANGED <<regime, periods, nextRegime, edits, mixed, early>>
      /\ edit'[e] = Idle /\ \A d \in Editors \ {e} : edit'[d] = edit[d]
      /\ edit' = [d \in Editors |-> edit'[d]]
      /\ unseen' = unseen \ Forgotten(e)
  BY DEF RollBack, Done, RegimesIInv, RegimesTypeOK
<1>2. RegimesTypeOK'
  BY <1>1 DEF RegimesIInv, RegimesTypeOK, EditShape
<1>3. PeriodsAreOneEdit'
  BY <1>1 DEF RegimesIInv, PeriodsAreOneEdit, PeriodsOf, Stands
<1>4. ASSUME NEW d \in Editors \ {e}, edit[d] # Idle
      PROVE  OwnSet(d)' /\ SeenSet(d)'
  <2>1. OwnSet(d) /\ SeenSet(d) /\ edit'[d] = edit[d]
    BY <1>1, <1>4 DEF RegimesIInv
  <2>2. \A r : <<d, r>> \in unseen => <<d, r>> \in unseen'
    BY <1>1 DEF Forgotten
  <2> QED BY <1>1, <2>1, <2>2 DEF OwnSet, SeenSet, PeriodsOf
<1> QED BY <1>1, <1>2, <1>3, <1>4 DEF RegimesIInv

\* Opening a deletion, a replacement or an import is such a beginning.
LEMMA OpenStepOfEditor ==
  ASSUME RegimesIInv, NEW e \in Editors,
         \/ \E r \in Ids : OpenDelete(e, r) \/ \E q \in PeriodLists : OpenReplace(e, r, q)
         \/ \E f \in Files : OpenImport(e, f)
  PROVE  RegimesIInv'
<1>1. edits \in Nat /\ Ids \subseteq Nat
  BY RegimesAssumption DEF RegimesIInv, RegimesTypeOK, Ids
<1>2. ASSUME NEW r \in Ids, OpenDelete(e, r) PROVE RegimesIInv'
  <2> DEFINE file == <<[regime |-> r, periods |-> {}, edit |-> 0]>>
  <2>1. file[1].regime = r /\ file[1].periods = {} /\ file[1].edit = 0
    OBVIOUS
  <2>2. Begin(e, "delete", file) /\ UNCHANGED edits
    BY <1>2 DEF OpenDelete
  <2> HIDE DEF file
  <2> QED BY <1>1, <2>1, <2>2, BeginEditStep
<1>3. ASSUME NEW r \in Ids, NEW q \in PeriodLists, OpenReplace(e, r, q) PROVE RegimesIInv'
  <2> DEFINE file == <<[regime |-> r, periods |-> Range(q), edit |-> edits + 1]>>
  <2>1. file[1].regime = r /\ file[1].periods = Range(q) /\ file[1].edit = edits + 1
    OBVIOUS
  <2>2. Begin(e, "replace", file) /\ edits' = edits + 1 /\ Range(q) \subseteq Nat
    BY <1>3 DEF OpenReplace, NormalizePeriods
  <2> HIDE DEF file
  <2> QED BY <1>1, <2>1, <2>2, BeginEditStep
<1>4. ASSUME NEW f \in Files, OpenImport(e, f) PROVE RegimesIInv'
  <2> DEFINE file == [i \in DOMAIN f |-> [name |-> f[i].name, start |-> f[i].start,
                           periods |-> f[i].periods, edit |-> edits + i]]
  <2> DEFINE S == [name : RegimeNames, start : Starts, periods : SUBSET Nat]
  <2>1. f \in Seq(S)
    BY RegimesAssumption
  <2> HIDE DEF S
  <2>2. DOMAIN f = 1 .. Len(f) /\ Len(f) \in Nat
    BY <2>1
  <2>3. \A i \in 1 .. Len(f) : f[i] \in [name : RegimeNames, start : Starts, periods : SUBSET Nat]
    <3>1. \A i \in 1 .. Len(f) : f[i] \in S
      BY <2>1, <2>2
    <3> QED BY <3>1 DEF S
  <2> DEFINE T == [name : RegimeNames, start : Starts, periods : SUBSET Nat, edit : Nat]
  <2>4. file \in [1 .. Len(f) -> T]
    BY <1>1, <2>2, <2>3
  <2>5. Begin(e, "import", file) /\ edits' = edits + Len(f)
    BY <1>4 DEF OpenImport
  <2> HIDE DEF file, T
  <2>6. file \in Seq(T)
    BY <2>2, <2>4
  <2>7. file \in Seq([name : RegimeNames, start : Starts, periods : SUBSET Nat, edit : Nat])
    BY <2>6 DEF T
  <2>8. edits' \in Nat
    BY <1>1, <2>2, <2>5
  <2> QED BY <2>5, <2>7, <2>8, BeginEditStep
<1> QED BY <1>2, <1>3, <1>4

\* A first statement, or one group of a file, sees committed rows and its own.
LEMMA SeeStep ==
  ASSUME RegimesIInv, NEW e \in Editors, LookById(e) \/ Upsert(e)
  PROVE  RegimesIInv'
<1>1. EditShape(e) /\ nextRegime \in Nat \ {0} /\ Ids \subseteq Nat
  BY RegimesAssumption DEF RegimesIInv, RegimesTypeOK, LookById, Upsert, Ids
<1>2. CASE LookById(e)
  <2> DEFINE g == edit[e].file[1]
  <2>1. /\ edit[e] # Idle /\ edit[e].kind \in {"replace", "delete"} /\ edit[e].at = <<>>
        /\ Replace(e, g.regime, g) /\ UNCHANGED nextRegime
    BY <1>2 DEF LookById
  <2>2. /\ g.regime \in Nat /\ g.periods \subseteq Nat /\ g.edit \in Nat
        /\ edit[e].kind = "delete" => g.periods = {}
    BY <1>1, <2>1 DEF EditShape
  <2> HIDE DEF g
  <2> QED BY <1>1, <2>1, <2>2, PeriodsStep
<1>3. CASE Upsert(e)
  <2> DEFINE i == Len(edit[e].at) + 1
             g == edit[e].file[i]
             T == [name : RegimeNames, start : Starts, periods : SUBSET Nat, edit : Nat]
  <2>1. /\ edit[e] # Idle /\ edit[e].kind = "import" /\ i <= Len(edit[e].file)
        /\ \/ \E r \in Ids : Replace(e, r, g) /\ UNCHANGED nextRegime
           \/ Replace(e, nextRegime, g) /\ nextRegime' = nextRegime + 1
    BY <1>3 DEF Upsert
  <2>2. edit[e].file \in Seq(T) /\ edit[e].at \in Seq(Nat)
    BY <1>1, <2>1 DEF EditShape
  <2> HIDE DEF T
  <2>3. i \in 1 .. Len(edit[e].file)
    BY <2>1, <2>2
  <2>4. g \in T
    BY <2>2, <2>3
  <2>5. g.periods \subseteq Nat /\ g.edit \in Nat
    BY <2>4 DEF T
  <2> HIDE DEF g, i
  <2>6. ASSUME NEW r \in Ids, Replace(e, r, g), UNCHANGED nextRegime PROVE RegimesIInv'
    BY <1>1, <2>1, <2>5, <2>6, PeriodsStep
  <2>7. ASSUME Replace(e, nextRegime, g), nextRegime' = nextRegime + 1 PROVE RegimesIInv'
    BY <1>1, <2>1, <2>5, <2>7, PeriodsStep
  <2> QED BY <2>1, <2>6, <2>7
<1> QED BY <1>2, <1>3

\* A commit or a rollback leaves every regime with the periods of one edit.
LEMMA EndOfEdit ==
  ASSUME RegimesIInv, NEW e \in Editors,
         CommitReplace(e) \/ CommitImport(e) \/ CommitDelete(e) \/ RollBack(e)
  PROVE  RegimesIInv'
<1>1. /\ edit[e] # Idle /\ EditShape(e) /\ OwnSet(e)
      /\ regime \in [Ids -> RegimeRows \cup {NoRegime}]
  BY DEF RegimesIInv, RegimesTypeOK, CommitReplace, CommitImport, CommitDelete, RollBack
<1>2. edit[e].at \in Seq(Nat)
  BY <1>1 DEF EditShape
<1>3. CASE CommitReplace(e)
  <2>1. Len(edit[e].at) <= 1
    BY <1>1, <1>3 DEF EditShape, CommitReplace
  <2>2. \A i \in DOMAIN edit[e].at : i = 1
    BY <1>2, <2>1
  <2>3. UNCHANGED regime /\ periods' = Replaced(e) /\ Committed(e)
        /\ early' = IF Stands(edit[e].at[1]) THEN early ELSE early \cup {edit[e].at[1]}
    BY <1>3 DEF CommitReplace
  <2>4. \A r \in Ids : r \in Range(edit[e].at) => Stands(r)' \/ r \in early'
    BY <2>2, <2>3 DEF Range, Stands
  <2>5. (\A r \in Ids : Stands(r) => Stands(r)') /\ early \subseteq early'
    BY <2>3 DEF Stands
  <2> QED BY <1>1, <2>3, <2>4, <2>5, CommitStep
<1>4. CASE CommitImport(e)
  <2>1. /\ Len(edit[e].at) = Len(edit[e].file) /\ edit[e].kind = "import"
        /\ periods' = Replaced(e) /\ UNCHANGED early /\ Committed(e)
        /\ regime' = [r \in Ids |->
             IF r \in Range(edit[e].at)
             THEN LET g == edit[e].file[CHOOSE i \in DOMAIN edit[e].at : edit[e].at[i] = r]
                  IN [name |-> g.name, start |-> g.start]
             ELSE regime[r]]
    BY <1>4 DEF CommitImport
  <2> DEFINE T == [name : RegimeNames, start : Starts, periods : SUBSET Nat, edit : Nat]
  <2>8. edit[e].file \in Seq(T)
    BY <1>1, <2>1 DEF EditShape
  <2> HIDE DEF T
  <2>9. \A i \in DOMAIN edit[e].at : edit[e].file[i] \in T
    BY <1>2, <2>1, <2>8
  <2>2. \A i \in DOMAIN edit[e].at : edit[e].file[i] \in
          [name : RegimeNames, start : Starts, periods : SUBSET Nat, edit : Nat]
    BY <2>9 DEF T
  <2>3. ASSUME NEW r \in Ids, r \in Range(edit[e].at)
        PROVE  regime'[r] \in RegimeRows
    <3> DEFINE k == CHOOSE i \in DOMAIN edit[e].at : edit[e].at[i] = r
    <3>1. k \in DOMAIN edit[e].at
      BY <2>3 DEF Range
    <3>2. regime'[r] = [name |-> edit[e].file[k].name, start |-> edit[e].file[k].start]
      BY <2>1, <2>3
    <3> HIDE DEF k
    <3> QED BY <2>2, <3>1, <3>2 DEF RegimeRows
  <2>4. \A r \in Ids : r \notin Range(edit[e].at) => regime'[r] = regime[r]
    BY <2>1
  <2>5. regime' \in [Ids -> RegimeRows \cup {NoRegime}]
    <3>1. \A r \in Ids : regime'[r] \in RegimeRows \cup {NoRegime}
      BY <1>1, <2>3, <2>4
    <3> QED BY <2>1, <3>1
  <2>6. \A r \in Ids : Stands(r) \/ r \in Range(edit[e].at) => Stands(r)'
    BY <2>3, <2>4, RegimesAssumption DEF Stands
  <2>7. (\A r \in Ids : Stands(r) => Stands(r)') /\ early \subseteq early'
    BY <2>1, <2>6
  <2> QED BY <1>1, <2>1, <2>5, <2>6, <2>7, CommitStep
<1>5. CASE CommitDelete(e)
  <2>1. PICK r \in Ids :
          /\ r = edit[e].at[1] /\ periods' = periods \ edit[e].seen /\ edit[e].at # <<>>
          /\ regime' = [regime EXCEPT ![r] = NoRegime] /\ UNCHANGED early
    BY <1>5 DEF CommitDelete, Stands
  <2>2. 1 \in DOMAIN edit[e].at
    BY <1>2, <2>1
  <2>3. edit[e].own = {} /\ Committed(e)
    BY <1>1, <1>5 DEF OwnSet, CommitDelete
  <2>4. periods' = Replaced(e) /\ r \in Range(edit[e].at)
    BY <2>1, <2>2, <2>3 DEF Replaced, Range
  <2>5. \A x \in Ids \ {r} : Stands(x) => Stands(x)'
    BY <1>1, <2>1 DEF Stands
  <2>6. regime' \in [Ids -> RegimeRows \cup {NoRegime}] /\ early \subseteq early'
    BY <1>1, <2>1
  <2> QED BY <1>1, <2>3, <2>4, <2>5, <2>6, CommitStep
<1>6. CASE RollBack(e)
  BY <1>6, RollBackStep
<1> QED BY <1>3, <1>4, <1>5, <1>6

\* Every step of the regimes keeps the invariant.
LEMMA RegimesNextInductive == RegimesIInv /\ [RegimesNext]_regimeVars => RegimesIInv'
<1> SUFFICES ASSUME RegimesIInv, [RegimesNext]_regimeVars PROVE RegimesIInv'
  OBVIOUS
<1>1. nextRegime \in Nat \ {0}
  BY DEF RegimesIInv, RegimesTypeOK
<1>2. ASSUME NEW n \in RegimeNames, NEW d \in Starts, CreateRegime(n, d) PROVE RegimesIInv'
  <2>1. nextRegime \in Ids /\ nextRegime' \in Nat \ {0}
    BY <1>1, <1>2, RegimesAssumption DEF CreateRegime, InsertRegime, Ids
  <2> QED BY <1>2, <2>1, RegimeRowStep DEF CreateRegime, InsertRegime
<1>3. ASSUME NEW n \in RegimeNames, NEW d \in Starts, NEW r \in Ids, UpdateRegime(r, n, d)
      PROVE  RegimesIInv'
  BY <1>1, <1>3, RegimeRowStep DEF UpdateRegime, RenameRegime
<1>4. CASE UNCHANGED regimeVars
  <2>1. RegimesTypeOK'
    BY <1>4 DEF regimeVars, RegimesIInv, RegimesTypeOK, EditShape
  <2>2. PeriodsAreOneEdit'
    BY <1>4 DEF regimeVars, RegimesIInv, PeriodsAreOneEdit, PeriodsOf, Stands
  <2>3. \A e \in Editors : edit'[e] # Idle => OwnSet(e)' /\ SeenSet(e)'
    BY <1>4 DEF regimeVars, RegimesIInv, OwnSet, SeenSet, PeriodsOf
  <2> QED BY <2>1, <2>2, <2>3 DEF RegimesIInv
<1> QED BY <1>2, <1>3, <1>4, OpenStepOfEditor, SeeStep, EndOfEdit DEF RegimesNext

\* No period set is ever left in part; and a regime has one edit's periods, and
\* none once it is gone, but for two cases that do happen: the last transaction
\* to replace them had missed another's commit, or they were saved for an id
\* that had no regime (schedule/store.go ReplacePeriods, DeleteRegime;
\* importer/regimes.go): PeriodsAreOneEdit.
THEOREM PeriodsComeTogether == RegimesSpec => []PeriodsAreOneEdit
<1>1. RegimesIInv => PeriodsAreOneEdit
  BY DEF RegimesIInv
<1> QED BY <1>1, RegimesInitInductive, RegimesNextInductive, PTL DEF RegimesSpec

----------------------------------------------------------------------------
(* Accounts, roles and groups.                                             *)

\* Grant sets of different tables are different.
LEMMA SetNames ==
  ASSUME NEW u, NEW g
  PROVE  /\ RolesOf(u)[1] = "user_roles" /\ PermsOf(u)[1] = "user_permissions"
         /\ MembersOf(g)[1] = "user_group_members" /\ RolesOfGroup(g)[1] = "group_roles"
         /\ PermsOfRole(u)[1] = "role_permissions"
BY DEF RolesOf, PermsOf, MembersOf, RolesOfGroup, PermsOfRole

\* Grant sets of different groups are different.
LEMMA SetsApart ==
  ASSUME NEW g, NEW h, g # h
  PROVE  MembersOf(g) # MembersOf(h) /\ RolesOfGroup(g) # RolesOfGroup(h)
BY DEF MembersOf, RolesOfGroup

\* The seeded roles and groups satisfy the invariant.
LEMMA GrantsInitInductive == GInit => GrantsIInv
<1> SUFFICES ASSUME GInit PROVE GrantsIInv
  OBVIOUS
<1>1. \A x \in grants : x.batch = 0 /\ x.of[1] \in {"user_roles", "user_permissions"}
        /\ x = [of |-> x.of, item |-> x.item, batch |-> x.batch, live |-> x.live]
  BY SetNames DEF GInit, Row
<1>2. \A g \in Groups : GroupRows(g) = {}
  BY <1>1, SetNames DEF GroupRows, RowsOf
<1>3. GrantsTypeOK
  BY <1>1 DEF GInit, GrantsTypeOK
<1>4. AdminFromAdmins
  <2>1. 0 \in trusted
    BY DEF GInit
  <2> QED BY <1>1, <1>2, <2>1 DEF AdminFromAdmins, GroupRows, RowsOf
<1>5. OneUpdate
  BY <1>2 DEF OneUpdate
<1>6. LockHeld
  BY DEF GInit, LockHeld, Updating
<1> QED BY <1>3, <1>4, <1>5, <1>6 DEF GrantsIInv

\* Rows go, or come that are no rows of a group.
LEMMA RowsStep ==
  ASSUME GrantsIInv, trusted \subseteq trusted',
         \A x \in grants' :
           \/ \E y \in grants : x.of = y.of /\ x.item = y.item /\ x.batch = y.batch
           \/ /\ x.of[1] \notin {"user_group_members", "group_roles"}
              /\ x.of[1] = "user_roles" /\ x.item = Admin => x.batch \in trusted',
         \A g \in Groups : groups'[g] = "none" => groups[g] = "none"
  PROVE  AdminFromAdmins' /\ OneUpdate'
<1>1. ASSUME NEW g \in Groups, NEW x \in GroupRows(g)'
      PROVE  \E y \in GroupRows(g) : x.of = y.of /\ x.item = y.item /\ x.batch = y.batch
  BY <1>1, SetNames DEF GroupRows, RowsOf
<1>2. OneUpdate'
  BY <1>1 DEF GrantsIInv, OneUpdate
<1>3. ASSUME NEW u \in Accounts, NEW x \in RowsOf(RolesOf(u))', x.item = Admin
      PROVE  x.batch \in trusted'
  BY <1>3, SetNames DEF GrantsIInv, AdminFromAdmins, RowsOf
<1>4. ASSUME NEW g \in Groups, Admin \in Items(RolesOfGroup(g))', NEW x \in GroupRows(g)'
      PROVE  x.batch \in trusted'
  <2>1. PICK z \in GroupRows(g)' : z.of = RolesOfGroup(g) /\ z.item = Admin
    BY <1>4 DEF Items, GroupRows, RowsOf
  <2>2. PICK y \in GroupRows(g) : z.of = y.of /\ z.item = y.item
    BY <1>1, <2>1
  <2>3. Admin \in Items(RolesOfGroup(g))
    BY <2>1, <2>2 DEF Items, GroupRows, RowsOf
  <2>4. PICK w \in GroupRows(g) : w.batch = x.batch
    BY <1>1, <1>4
  <2> QED BY <2>3, <2>4 DEF GrantsIInv, AdminFromAdmins, GroupRows
<1>5. AdminFromAdmins'
  BY <1>3, <1>4 DEF AdminFromAdmins, GroupRows
<1> QED BY <1>2, <1>5

\* One update writes the rows of a group anew; other rows at most go.
LEMMA GroupStep ==
  ASSUME GrantsIInv, NEW g \in Groups, NEW b, trusted' = trusted,
         \A x \in grants' : x \in grants \/ x.of \in {MembersOf(g), RolesOfGroup(g)},
         \A x \in GroupRows(g)' : x.batch = b /\ (x.of = RolesOfGroup(g) /\ x.item = Admin => b \in trusted),
         groups'[g] # "none", \A h \in Groups \ {g} : groups'[h] = groups[h]
  PROVE  AdminFromAdmins' /\ OneUpdate'
<1>1. ASSUME NEW h \in Groups \ {g} PROVE GroupRows(h)' \subseteq GroupRows(h)
  BY SetNames, SetsApart DEF GroupRows, RowsOf
<1>2. ASSUME NEW h \in Groups \ {g}, NEW x \in RowsOf(RolesOfGroup(h))'
      PROVE  x \in RowsOf(RolesOfGroup(h))
  BY <1>1, <1>2 DEF GroupRows, RowsOf
<1>3. OneUpdate'
  BY <1>1 DEF GrantsIInv, OneUpdate
<1>4. ASSUME NEW u \in Accounts, NEW x \in RowsOf(RolesOf(u))', x.item = Admin
      PROVE  x.batch \in trusted'
  BY <1>4, SetNames DEF GrantsIInv, AdminFromAdmins, RowsOf
<1>5. ASSUME NEW h \in Groups, Admin \in Items(RolesOfGroup(h))', NEW x \in GroupRows(h)'
      PROVE  x.batch \in trusted'
  <2>1. PICK z \in RowsOf(RolesOfGroup(h))' : z.item = Admin
    BY <1>5 DEF Items
  <2>2. CASE h = g
    <3>1. z \in GroupRows(g)' /\ z.of = RolesOfGroup(g)
      BY <2>1, <2>2 DEF GroupRows, RowsOf
    <3> QED BY <1>5, <2>1, <2>2, <3>1
  <2>3. CASE h # g
    <3>1. Admin \in Items(RolesOfGroup(h))
      BY <1>2, <2>1, <2>3 DEF Items
    <3>2. x \in GroupRows(h)
      BY <1>1, <1>5, <2>3
    <3> QED BY <3>1, <3>2 DEF GrantsIInv, AdminFromAdmins, GroupRows
  <2> QED BY <2>2, <2>3
<1>6. AdminFromAdmins'
  BY <1>4, <1>5 DEF AdminFromAdmins, GroupRows
<1> QED BY <1>3, <1>6

\* What a group's request is about.
LEMMA GroupSetsAre ==
  ASSUME GrantsTypeOK, NEW g \in Groups, NEW c \in Updating(g)
  PROVE  /\ c \in Consoles /\ turn[c] # "idle" /\ CallShape(c) /\ call[c].key = g
         /\ call[c].kind = "group" /\ call[c].at \in {1, 2} /\ Len(call[c].sets) = 2
         /\ call[c].sets[1][1] = MembersOf(g) /\ call[c].sets[2][1] = RolesOfGroup(g)
<1>1. c \in Consoles /\ turn[c] # "idle" /\ call[c].kind = "group" /\ call[c].key = g
  BY DEF Updating
<1>2. CallShape(c)
  BY <1>1 DEF GrantsTypeOK
<1>3. call[c].sets = GroupSets(g, call[c].sets[1][2], call[c].sets[2][2]) /\ call[c].at \in {1, 2}
  BY <1>1, <1>2 DEF CallShape
<1>4. \A M, R : /\ Len(GroupSets(g, M, R)) = 2 /\ GroupSets(g, M, R)[1][1] = MembersOf(g)
                /\ GroupSets(g, M, R)[2][1] = RolesOfGroup(g)
  BY DEF GroupSets
<1> QED BY <1>1, <1>2, <1>3, <1>4

\* After a step to turn t with call k, snapshot s and deleted rows w, a console that
\* has updated a group's row is alone, and has the group's rows at hand.
LocksWell(c, t, k, s, w) ==
  \A g \in Groups : c \in Updating(g)' =>
    /\ groups'[g] = "row" /\ Updating(g) \subseteq {c}
    /\ k.at = 2 => {x \in grants' : x.of = MembersOf(g)} \subseteq w
    /\ t = "delete" => {x \in grants' : x.of = k.sets[k.at][1]} \subseteq s
    /\ t = "commit" => k.at = 2 /\ {x \in grants' : x.of = RolesOfGroup(g)} \subseteq w

\* A step of one console: the others keep what they hold.
LEMMA ConsoleStep ==
  ASSUME GrantsTypeOK, LockHeld, NEW c \in Consoles, NEW t, NEW k, NEW s, NEW w,
         turn' = [turn EXCEPT ![c] = t], call' = [call EXCEPT ![c] = k],
         seen' = [seen EXCEPT ![c] = s], taken' = [taken EXCEPT ![c] = w],
         trusted \subseteq trusted',
         t # "idle" => \A d \in {c} : CallShape(d)',
         \A x \in grants' : x = [of |-> x.of, item |-> x.item, batch |-> x.batch, live |-> x.live],
         groups' \in [Groups -> {"none", "row", "deleted"}],
         \A g \in Groups : Updating(g) \ {c} # {} =>
           groups'[g] = groups[g] /\ GroupRows(g)' \subseteq GroupRows(g),
         LocksWell(c, t, k, s, w)
  PROVE  GrantsTypeOK' /\ LockHeld'
<1>1. /\ turn'[c] = t /\ call'[c] = k /\ seen'[c] = s /\ taken'[c] = w
      /\ \A d \in Consoles \ {c} : /\ turn'[d] = turn[d] /\ call'[d] = call[d]
                                  /\ seen'[d] = seen[d] /\ taken'[d] = taken[d]
      /\ turn' = [d \in Consoles |-> turn'[d]] /\ call' = [d \in Consoles |-> call'[d]]
      /\ seen' = [d \in Consoles |-> seen'[d]] /\ taken' = [d \in Consoles |-> taken'[d]]
  BY DEF GrantsTypeOK
<1>2. ASSUME NEW d \in Consoles \ {c}, turn'[d] # "idle" PROVE CallShape(d)'
  <2>1. turn'[d] = turn[d] /\ call'[d] = call[d] /\ CallShape(d)
    BY <1>1, <1>2 DEF GrantsTypeOK
  <2> QED BY <2>1 DEF CallShape
<1>3. GrantsTypeOK'
  BY <1>1, <1>2 DEF GrantsTypeOK
<1>4. ASSUME NEW g \in Groups, NEW d \in Updating(g)', d # c
      PROVE  /\ groups'[g] = "row" /\ Updating(g)' = {d}
             /\ call'[d].at = 2 => RowsOf(MembersOf(g))' \subseteq taken'[d]
             /\ turn'[d] = "delete" => RowsOf(call[d].sets[call[d].at][1])' \subseteq seen'[d]
             /\ turn'[d] = "commit" => call'[d].at = 2 /\ RowsOf(RolesOfGroup(g))' \subseteq taken'[d]
  <2>1. d \in Consoles \ {c} /\ d \in Updating(g)
    BY <1>1, <1>4 DEF Updating
  <2>2. /\ groups[g] = "row" /\ Updating(g) = {d}
        /\ call[d].at = 2 => RowsOf(MembersOf(g)) \subseteq taken[d]
        /\ turn[d] = "delete" => RowsOf(call[d].sets[call[d].at][1]) \subseteq seen[d]
        /\ turn[d] = "commit" => call[d].at = 2 /\ RowsOf(RolesOfGroup(g)) \subseteq taken[d]
    BY <2>1 DEF LockHeld
  <2>3. groups'[g] = groups[g] /\ GroupRows(g)' \subseteq GroupRows(g)
    BY <2>1
  <2>4. /\ RowsOf(MembersOf(g))' \subseteq RowsOf(MembersOf(g))
        /\ RowsOf(RolesOfGroup(g))' \subseteq RowsOf(RolesOfGroup(g))
    BY <2>3 DEF GroupRows, RowsOf
  <2>5. Updating(g)' = {d}
    <3>1. c \notin Updating(g)'
      BY <1>4, <2>1 DEF LocksWell
    <3> QED BY <1>1, <1>4, <2>2, <3>1 DEF Updating
  <2>6. call[d].sets[call[d].at][1] \in {MembersOf(g), RolesOfGroup(g)}
    BY <2>1, GroupSetsAre
  <2>7. call'[d] = call[d] /\ turn'[d] = turn[d] /\ seen'[d] = seen[d] /\ taken'[d] = taken[d]
    BY <1>1, <2>1
  <2>8. turn'[d] = "delete" => RowsOf(call[d].sets[call[d].at][1])' \subseteq seen'[d]
    BY <2>2, <2>4, <2>6, <2>7
  <2> QED BY <2>2, <2>3, <2>4, <2>5, <2>7, <2>8
<1>5. ASSUME NEW g \in Groups, c \in Updating(g)'
      PROVE  Updating(g)' = {c} /\ groups'[g] = "row"
  BY <1>1, <1>5 DEF Updating, LocksWell
<1>6. ASSUME NEW g \in Groups, c \in Updating(g)'
      PROVE  /\ turn'[c] = "delete" => RowsOf(call[c].sets[call[c].at][1])' \subseteq seen'[c]
             /\ call'[c].at = 2 => RowsOf(MembersOf(g))' \subseteq taken'[c]
             /\ turn'[c] = "commit" => call'[c].at = 2 /\ RowsOf(RolesOfGroup(g))' \subseteq taken'[c]
  BY <1>1, <1>6 DEF RowsOf, LocksWell
<1>7. LockHeld'
  BY <1>1, <1>4, <1>5, <1>6 DEF LockHeld
<1> QED BY <1>3, <1>7

\* A request ends, leaving rows as they are or fewer.
LEMMA EndOfRequest ==
  ASSUME GrantsIInv, NEW c \in Consoles, End(c), trusted' = trusted,
         \A x \in grants' :
           \/ x \in grants
           \/ /\ x = [of |-> x.of, item |-> x.item, batch |-> x.batch, live |-> x.live]
              /\ x.of[1] \notin {"user_group_members", "group_roles"}
              /\ x.of[1] = "user_roles" /\ x.item = Admin => x.batch \in trusted,
         groups' \in [Groups -> {"none", "row", "deleted"}],
         \A g \in Groups : groups'[g] = groups[g] \/ (groups'[g] = "deleted" /\ Updating(g) = {})
  PROVE  GrantsIInv'
<1>1. AdminFromAdmins' /\ OneUpdate'
  BY RowsStep
<1>2. /\ turn' = [turn EXCEPT ![c] = "idle"] /\ call' = [call EXCEPT ![c] = NoCall]
      /\ seen' = [seen EXCEPT ![c] = {}] /\ taken' = [taken EXCEPT ![c] = {}]
  BY DEF End, Goto
<1>3. \A g \in Groups : GroupRows(g)' \subseteq GroupRows(g)
  BY SetNames DEF GroupRows, RowsOf
<1>4. \A x \in grants' : x = [of |-> x.of, item |-> x.item, batch |-> x.batch, live |-> x.live]
  BY DEF GrantsIInv, GrantsTypeOK
<1>5. \A g \in Groups : c \notin Updating(g)'
  BY <1>2 DEF Updating, GrantsIInv, GrantsTypeOK
<1>6. \A g \in Groups : Updating(g) \ {c} # {} =>
        groups'[g] = groups[g] /\ GroupRows(g)' \subseteq GroupRows(g)
  BY <1>3
<1>7. GrantsTypeOK /\ LockHeld /\ trusted \subseteq trusted'
  BY DEF GrantsIInv
<1>8. \A t, k, s, w : LocksWell(c, t, k, s, w)
  BY <1>5 DEF LocksWell
<1>9. GrantsTypeOK' /\ LockHeld'
  BY <1>2, <1>4, <1>6, <1>7, <1>8, ConsoleStep
<1> QED BY <1>1, <1>9 DEF GrantsIInv

\* A statement that fails rolls its transaction back and frees its locks.
LEMMA FailStep ==
  ASSUME GrantsIInv, NEW c \in Consoles, Fail(c)
  PROVE  GrantsIInv'
BY EndOfRequest DEF Fail, tables, history, GrantsIInv, GrantsTypeOK

\* A statement that writes no row of a set, nor of a group.
LEMMA QuietStep ==
  ASSUME GrantsIInv, NEW c \in Consoles, NEW t, NEW k, NEW s, NEW w,
         turn' = [turn EXCEPT ![c] = t], call' = [call EXCEPT ![c] = k],
         seen' = [seen EXCEPT ![c] = s], taken' = [taken EXCEPT ![c] = w],
         trusted \subseteq trusted', UNCHANGED <<groups, grants>>,
         t # "idle" => \A d \in {c} : CallShape(d)',
         t \in {"look", "delete", "commit"} /\ k.kind = "group" =>
           /\ groups[k.key] = "row" /\ Updating(k.key) \subseteq {c}
           /\ k.at = 2 => RowsOf(MembersOf(k.key)) \subseteq w
           /\ t = "delete" => RowsOf(k.sets[k.at][1]) \subseteq s
           /\ t = "commit" => k.at = 2 /\ RowsOf(RolesOfGroup(k.key)) \subseteq w
  PROVE  GrantsIInv'
<1>1. AdminFromAdmins' /\ OneUpdate'
  BY RowsStep
<1>2. \A o : RowsOf(o)' = RowsOf(o)
  BY DEF RowsOf
<1>3. \A g \in Groups : GroupRows(g)' \subseteq GroupRows(g)
  BY DEF GroupRows, RowsOf
<1>4. turn'[c] = t /\ call'[c] = k
  BY DEF GrantsIInv, GrantsTypeOK
<1>5. \A g \in Groups : c \in Updating(g)' =>
        t \in {"look", "delete", "commit"} /\ k.kind = "group" /\ k.key = g
  BY <1>4 DEF Updating
<1>6. \A g \in Groups : Updating(g) \ {c} # {} =>
        groups'[g] = groups[g] /\ GroupRows(g)' \subseteq GroupRows(g)
  BY <1>3
<1>7. LocksWell(c, t, k, s, w)
  BY <1>2, <1>5 DEF RowsOf, LocksWell
<1>8. /\ GrantsTypeOK /\ LockHeld /\ groups' \in [Groups -> {"none", "row", "deleted"}]
      /\ \A x \in grants' : x = [of |-> x.of, item |-> x.item, batch |-> x.batch, live |-> x.live]
  BY DEF GrantsIInv, GrantsTypeOK
<1>9. GrantsTypeOK' /\ LockHeld'
  BY <1>6, <1>7, <1>8, ConsoleStep
<1> QED BY <1>1, <1>9 DEF GrantsIInv

\* A request begins: whoever grants the admin role holds the wildcard.
LEMMA RequestStep ==
  ASSUME GrantsIInv, NEW c \in Consoles, NEW a, NEW kind, NEW key, NEW sets, NEW first,
         Request(c, a, kind, key, sets, first),
         first \in {"look", "insert", "row", "erase"},
         kind = "group" => first = "row", kind = "createGroup" => first = "insert",
         \A n \in 1 .. Len(sets) :
           /\ sets[n][1][1] \in {"user_roles", "group_roles"} /\ Admin \in sets[n][2] => Has(a, Wildcard)
           /\ sets[n][1][1] \in {"user_group_members", "group_roles"} =>
                kind \in {"group", "createGroup", "dropGroup"},
         kind \in {"group", "createGroup", "dropGroup"} =>
           key \in Groups /\ sets = GroupSets(key, sets[1][2], sets[2][2])
  PROVE  GrantsIInv'
<1> DEFINE k == [kind |-> kind, key |-> key, sets |-> sets, at |-> 1, batch |-> requests + 1]
<1>1. /\ turn' = [turn EXCEPT ![c] = first] /\ call' = [call EXCEPT ![c] = k]
      /\ seen' = [seen EXCEPT ![c] = seen[c]] /\ taken' = [taken EXCEPT ![c] = taken[c]]
      /\ UNCHANGED <<groups, grants>>
      /\ trusted' = IF Has(a, Wildcard) THEN trusted \cup {requests + 1} ELSE trusted
  BY DEF Request, tables, GrantsIInv, GrantsTypeOK
<1>2. turn'[c] = first /\ call'[c] = k
  BY <1>1 DEF GrantsIInv, GrantsTypeOK
<1>3. /\ k = [kind |-> k.kind, key |-> k.key, sets |-> k.sets, at |-> k.at, batch |-> k.batch]
      /\ k.kind = kind /\ k.key = key /\ k.sets = sets /\ k.at = 1 /\ k.batch = requests + 1
  OBVIOUS
<1> HIDE DEF k
<1>4. \A d \in {c} : CallShape(d)'
  BY <1>1, <1>2, <1>3 DEF CallShape
<1> QED BY <1>1, <1>3, <1>4, QuietStep

\* A request that starts has written nothing.
LEMMA StartStep ==
  ASSUME GrantsIInv, NEW c \in Consoles, NEW a \in Accounts, Start(c, a)
  PROVE  GrantsIInv'
<1>1. ASSUME NEW kind, NEW key, NEW o, NEW I, NEW first, Request(c, a, kind, key, <<<<o, I>>>>, first),
             kind \notin {"group", "createGroup", "dropGroup"},
             first \in {"look", "insert", "row", "erase"},
             o[1] \notin {"user_group_members", "group_roles"},
             o[1] = "user_roles" /\ Admin \in I => Has(a, Wildcard)
      PROVE  GrantsIInv'
  <2> DEFINE sets == <<<<o, I>>>>
  <2>1. Len(sets) = 1 /\ sets[1][1] = o /\ sets[1][2] = I
    OBVIOUS
  <2> HIDE DEF sets
  <2>2. \A n \in 1 .. Len(sets) : sets[n][1] = o /\ sets[n][2] = I
    BY <2>1
  <2> QED BY <1>1, <2>2, RequestStep DEF sets
<1>2. ASSUME NEW kind, NEW g \in Groups, NEW M, NEW R, NEW first,
             Request(c, a, kind, g, GroupSets(g, M, R), first),
             kind \in {"group", "createGroup", "dropGroup"},
             first \in {"look", "insert", "row"},
             kind = "group" => first = "row", kind = "createGroup" => first = "insert",
             Admin \in R => Has(a, Wildcard)
      PROVE  GrantsIInv'
  <2> DEFINE sets == GroupSets(g, M, R)
  <2>1. Len(sets) = 2 /\ sets[1][1] = MembersOf(g) /\ sets[2][1] = RolesOfGroup(g)
        /\ sets[1][2] = M /\ sets[2][2] = R
    BY DEF GroupSets
  <2>2. sets = GroupSets(g, sets[1][2], sets[2][2])
    BY <2>1
  <2> HIDE DEF sets
  <2>3. \A n \in 1 .. Len(sets) :
          sets[n][1][1] \in {"user_roles", "group_roles"} /\ Admin \in sets[n][2] => Has(a, Wildcard)
    BY <1>2, <2>1, SetNames
  <2> QED BY <1>2, <2>2, <2>3, RequestStep DEF sets
<1>3. ASSUME NEW kind \in {"dropUser", "createUser"}, NEW key, NEW first \in {"erase", "insert"},
             Request(c, a, kind, key, <<>>, first)
      PROVE  GrantsIInv'
  <2>1. \A n \in 1 .. Len(<<>>) : FALSE
    OBVIOUS
  <2> QED BY <1>3, <2>1, RequestStep
<1>4. ASSUME NEW u \in Accounts, \E R \in Small(CustomRoles \cup {Admin}) : PutRoles(c, a, u, R)
      PROVE  GrantsIInv'
  BY <1>1, <1>4, SetNames DEF PutRoles, MayGrant
<1>5. ASSUME NEW u \in Accounts, \E P \in Small(Perms) : PutPermissions(c, a, u, P)
      PROVE  GrantsIInv'
  BY <1>1, <1>5, SetNames DEF PutPermissions
<1>6. ASSUME NEW u \in Accounts, DeleteUser(c, a, u) \/ CreateUser(c, a, u)
      PROVE  GrantsIInv'
  BY <1>3, <1>6 DEF DeleteUser, CreateUser
<1>7. ASSUME NEW r \in CustomRoles,
             \/ DeleteRole(c, a, r)
             \/ \E P \in Small(Perms) : CreateRole(c, a, r, P) \/ UpdateRole(c, a, r, P)
      PROVE  GrantsIInv'
  <2>1. PermsOfRole(r)[1] = "role_permissions"
    BY SetNames
  <2>2. \/ Request(c, a, "dropRole", r, <<<<PermsOfRole(r), {}>>>>, "look")
        \/ \E P : \/ Request(c, a, "create", r, <<<<PermsOfRole(r), P>>>>, "insert")
                 \/ Request(c, a, "role", r, <<<<PermsOfRole(r), P>>>>, "row")
    BY <1>7 DEF DeleteRole, CreateRole, UpdateRole
  <2>3. ASSUME Request(c, a, "dropRole", r, <<<<PermsOfRole(r), {}>>>>, "look") PROVE GrantsIInv'
    BY <1>1, <2>1, <2>3
  <2>4. ASSUME NEW P, Request(c, a, "create", r, <<<<PermsOfRole(r), P>>>>, "insert")
        PROVE  GrantsIInv'
    BY <1>1, <2>1, <2>4
  <2>5. ASSUME NEW P, Request(c, a, "role", r, <<<<PermsOfRole(r), P>>>>, "row")
        PROVE  GrantsIInv'
    BY <1>1, <2>1, <2>5
  <2> QED BY <2>2, <2>3, <2>4, <2>5
<1>8. ASSUME NEW g \in Groups, DeleteGroup(c, a, g) PROVE GrantsIInv'
  BY <1>2, <1>8 DEF DeleteGroup
<1>9. ASSUME NEW g \in Groups, NEW M, NEW R, CreateGroup(c, a, g, M, R) \/ UpdateGroup(c, a, g, M, R)
      PROVE  GrantsIInv'
  BY <1>2, <1>9 DEF CreateGroup, UpdateGroup, MayGrant
<1> QED BY <1>4, <1>5, <1>6, <1>7, <1>8, <1>9 DEF Start

\* The rows a request inserts.
LEMMA InsertedRows ==
  ASSUME NEW c, NEW x \in Inserted(c)
  PROVE  /\ x = [of |-> x.of, item |-> x.item, batch |-> x.batch, live |-> x.live]
         /\ x.batch = call[c].batch
         /\ \E n \in 1 .. Len(call[c].sets) :
              x.of = call[c].sets[n][1] /\ x.item \in call[c].sets[n][2]
<1>1. PICK n \in 1 .. Len(call[c].sets) :
        \E i \in call[c].sets[n][2] : x = Row(call[c].sets[n][1], i, call[c].batch)
  BY DEF Inserted
<1> QED BY <1>1 DEF Row

\* What is inserted grants the admin role only at an administrator's hands, and
\* only a request about a group inserts rows of one, of its own.
LEMMA InsertedShape ==
  ASSUME NEW c, CallShape(c), NEW x \in Inserted(c)
  PROVE  /\ x.of[1] \in {"user_roles", "group_roles"} /\ x.item = Admin => x.batch \in trusted
         /\ call[c].kind \notin {"group", "createGroup", "dropGroup"}
              => x.of[1] \notin {"user_group_members", "group_roles"}
         /\ call[c].kind \in {"group", "createGroup", "dropGroup"}
              => x.of \in {MembersOf(call[c].key), RolesOfGroup(call[c].key)}
<1>1. /\ x.batch = call[c].batch
      /\ \E n \in 1 .. Len(call[c].sets) :
           x.of = call[c].sets[n][1] /\ x.item \in call[c].sets[n][2]
  BY InsertedRows
<1>2. /\ \A n \in 1 .. Len(call[c].sets) :
           /\ call[c].sets[n][1][1] \in {"user_roles", "group_roles"} /\ Admin \in call[c].sets[n][2]
                => call[c].batch \in trusted
           /\ call[c].sets[n][1][1] \in {"user_group_members", "group_roles"}
                => call[c].kind \in {"group", "createGroup", "dropGroup"}
      /\ call[c].kind \in {"group", "createGroup", "dropGroup"} =>
           call[c].sets = GroupSets(call[c].key, call[c].sets[1][2], call[c].sets[2][2])
  BY DEF CallShape
<1>3. \A g, M, R : /\ Len(GroupSets(g, M, R)) = 2 /\ GroupSets(g, M, R)[1][1] = MembersOf(g)
                   /\ GroupSets(g, M, R)[2][1] = RolesOfGroup(g)
  BY DEF GroupSets
<1>4. call[c].kind \in {"group", "createGroup", "dropGroup"} =>
        /\ Len(call[c].sets) = 2 /\ call[c].sets[1][1] = MembersOf(call[c].key)
        /\ call[c].sets[2][1] = RolesOfGroup(call[c].key)
  BY <1>2, <1>3
<1> QED BY <1>1, <1>2, <1>4

\* A group's creation or update commits: its rows are the ones inserted.
LEMMA GroupCommit ==
  ASSUME GrantsIInv, NEW c \in Consoles, turn[c] # "idle", NEW g \in Groups, call[c].key = g,
         call[c].kind \in {"group", "createGroup"}, End(c), trusted' = trusted,
         \A x \in grants' : x \in grants \/ x \in Inserted(c),
         \A x \in grants' : x.of \in {MembersOf(g), RolesOfGroup(g)} => x \in Inserted(c),
         Updating(g) \subseteq {c},
         groups' \in [Groups -> {"none", "row", "deleted"}], groups'[g] # "none",
         \A h \in Groups \ {g} : groups'[h] = groups[h]
  PROVE  GrantsIInv'
<1>1. CallShape(c)
  BY DEF GrantsIInv, GrantsTypeOK
<1>2. \A x \in Inserted(c) :
        /\ x = [of |-> x.of, item |-> x.item, batch |-> x.batch, live |-> x.live]
        /\ x.batch = call[c].batch /\ x.of \in {MembersOf(g), RolesOfGroup(g)}
        /\ x.of[1] \in {"user_roles", "group_roles"} /\ x.item = Admin => x.batch \in trusted
  BY <1>1, InsertedRows, InsertedShape
<1>3. \A x \in grants' : x \in grants \/ x.of \in {MembersOf(g), RolesOfGroup(g)}
  BY <1>2
<1>4. \A x \in GroupRows(g)' :
        x.batch = call[c].batch /\ (x.of = RolesOfGroup(g) /\ x.item = Admin => call[c].batch \in trusted)
  BY <1>2, SetNames DEF GroupRows, RowsOf
<1>5. AdminFromAdmins' /\ OneUpdate'
  BY <1>3, <1>4, GroupStep
<1>6. \A x \in grants' : x = [of |-> x.of, item |-> x.item, batch |-> x.batch, live |-> x.live]
  BY <1>2 DEF GrantsIInv, GrantsTypeOK
<1>7. ASSUME NEW h \in Groups, Updating(h) \ {c} # {}
      PROVE  groups'[h] = groups[h] /\ GroupRows(h)' \subseteq GroupRows(h)
  <2>1. h # g
    BY <1>7
  <2> QED BY <1>3, <2>1, SetNames, SetsApart DEF GroupRows, RowsOf
<1>8. /\ turn' = [turn EXCEPT ![c] = "idle"] /\ call' = [call EXCEPT ![c] = NoCall]
      /\ seen' = [seen EXCEPT ![c] = {}] /\ taken' = [taken EXCEPT ![c] = {}]
  BY DEF End, Goto
<1>9. \A h \in Groups : c \notin Updating(h)'
  BY <1>8 DEF Updating, GrantsIInv, GrantsTypeOK
<1>10. \A t, k, s, w : LocksWell(c, t, k, s, w)
  BY <1>9 DEF LocksWell
<1>11. GrantsTypeOK' /\ LockHeld'
  BY <1>6, <1>7, <1>8, <1>10, ConsoleStep DEF GrantsIInv
<1> QED BY <1>5, <1>11 DEF GrantsIInv

\* A transaction that replaced whole sets commits them all.
LEMMA CommitOfSets ==
  ASSUME GrantsIInv, NEW c \in Consoles, Commit(c)
  PROVE  GrantsIInv'
<1>1. CallShape(c) /\ turn[c] = "commit"
  BY DEF GrantsIInv, GrantsTypeOK, Commit
<1>2. CASE Fail(c)
  BY <1>2, FailStep
<1>3. CASE ~Fail(c)
  <2>1. /\ grants' = (grants \ taken[c]) \cup Inserted(c) /\ End(c)
        /\ UNCHANGED <<groups, trusted>> /\ call[c].kind \notin {"dropRole", "dropGroup"}
    BY <1>3 DEF Commit, history
  <2>2. \A x \in Inserted(c) :
          x = [of |-> x.of, item |-> x.item, batch |-> x.batch, live |-> x.live]
    BY InsertedRows
  <2>3. CASE call[c].kind = "group"
    <3>1. PICK g \in Groups : call[c].key = g
      BY <1>1, <2>3 DEF CallShape
    <3>2. c \in Updating(g)
      BY <1>1, <2>3, <3>1 DEF Updating
    <3>3. /\ groups[g] = "row" /\ Updating(g) = {c}
          /\ RowsOf(MembersOf(g)) \subseteq taken[c] /\ RowsOf(RolesOfGroup(g)) \subseteq taken[c]
      BY <1>1, <3>2 DEF GrantsIInv, LockHeld
    <3>4. \A x \in grants' : x.of \in {MembersOf(g), RolesOfGroup(g)} => x \in Inserted(c)
      BY <2>1, <3>3 DEF RowsOf
    <3> QED BY <1>1, <2>1, <2>3, <3>1, <3>3, <3>4, GroupCommit DEF GrantsIInv, GrantsTypeOK
  <2>4. CASE call[c].kind # "group"
    <3>1. call[c].kind \notin {"group", "createGroup", "dropGroup"}
      BY <1>1, <2>1, <2>4 DEF CallShape
    <3>2. \A x \in Inserted(c) :
            /\ x.of[1] \notin {"user_group_members", "group_roles"}
            /\ x.of[1] = "user_roles" /\ x.item = Admin => x.batch \in trusted
      BY <1>1, <3>1, InsertedShape
    <3> QED BY <2>1, <2>2, <3>2, EndOfRequest DEF GrantsIInv, GrantsTypeOK
  <2> QED BY <2>3, <2>4
<1> QED BY <1>2, <1>3

\* A new group gets an id that no set has been written for.
LEMMA InsertGroupStep ==
  ASSUME GrantsIInv, NEW c \in Consoles, InsertGroup(c)
  PROVE  GrantsIInv'
<1>1. CallShape(c) /\ call[c].kind = "createGroup" /\ turn[c] # "idle"
  BY DEF GrantsIInv, GrantsTypeOK, InsertGroup
<1>2. PICK g \in Groups : call[c].key = g
  BY <1>1 DEF CallShape
<1>3. /\ groups[g] = "none" /\ groups' = [groups EXCEPT ![g] = "row"]
      /\ grants' = grants \cup Inserted(c) /\ End(c) /\ trusted' = trusted
  BY <1>2 DEF InsertGroup, history
<1>4. Updating(g) = {} /\ GroupRows(g) = {}
  BY <1>3 DEF GrantsIInv, LockHeld, OneUpdate
<1>5. \A x \in grants' : x.of \in {MembersOf(g), RolesOfGroup(g)} => x \in Inserted(c)
  BY <1>3, <1>4 DEF GroupRows, RowsOf
<1>6. groups' \in [Groups -> {"none", "row", "deleted"}] /\ groups'[g] = "row"
      /\ \A h \in Groups \ {g} : groups'[h] = groups[h]
  BY <1>3 DEF GrantsIInv, GrantsTypeOK
<1> QED BY <1>1, <1>2, <1>3, <1>4, <1>5, <1>6, GroupCommit

\* A role's row on its own, and the row of a group before its sets, which locks the group.
LEMMA UpdateRowStep ==
  ASSUME GrantsIInv, NEW c \in Consoles, InsertRole(c) \/ UpdateRoleRow(c) \/ UpdateGroupRow(c)
  PROVE  GrantsIInv'
<1>1. CASE Fail(c)
  BY <1>1, FailStep
<1>2. CASE ~Fail(c)
  <2>1. /\ turn[c] # "idle" /\ CallShape(c)
    BY DEF InsertRole, UpdateRoleRow, UpdateGroupRow, GrantsIInv, GrantsTypeOK
  <2>2. /\ turn' = [turn EXCEPT ![c] = "look"] /\ UNCHANGED <<call, seen, taken, groups, grants, trusted>>
        /\ turn'[c] = "look"
        /\ call' = [call EXCEPT ![c] = call[c]] /\ seen' = [seen EXCEPT ![c] = seen[c]]
        /\ taken' = [taken EXCEPT ![c] = taken[c]]
    BY <1>2 DEF InsertRole, UpdateRoleRow, UpdateGroupRow, Goto, tables, history, GrantsIInv, GrantsTypeOK
  <2>3. call[c].kind # "createGroup"
    BY DEF InsertRole, UpdateRoleRow, UpdateGroupRow
  <2>4. \A d \in {c} : CallShape(d)'
    BY <2>1, <2>2, <2>3 DEF CallShape
  <2>5. call[c].kind = "group" =>
          groups[call[c].key] = "row" /\ Updating(call[c].key) \subseteq {c} /\ call[c].at # 2
    BY <1>2, <2>1 DEF InsertRole, UpdateRoleRow, UpdateGroupRow, CallShape
  <2>6. /\ "look" \notin {"idle", "delete", "commit"} /\ trusted \subseteq trusted'
        /\ turn' = [turn EXCEPT ![c] = "look"]
        /\ call' = [call EXCEPT ![c] = call[c]] /\ seen' = [seen EXCEPT ![c] = seen[c]]
        /\ taken' = [taken EXCEPT ![c] = taken[c]] /\ UNCHANGED <<groups, grants>>
    BY <2>2
  <2>7. call[c].kind = "group" =>
          /\ groups[call[c].key] = "row" /\ Updating(call[c].key) \subseteq {c}
          /\ call[c].at = 2 => RowsOf(MembersOf(call[c].key)) \subseteq taken[c]
    BY <2>5
  <2> QED BY <2>4, <2>6, <2>7, QuietStep
<1> QED BY <1>1, <1>2

\* The read that a check rests on.
LEMMA LookStep ==
  ASSUME GrantsIInv, NEW c \in Consoles, Look(c)
  PROVE  GrantsIInv'
<1>1. /\ turn[c] = "look" /\ CallShape(c)
  BY DEF Look, GrantsIInv, GrantsTypeOK
<1>2. /\ turn' = [turn EXCEPT ![c] = "delete"] /\ call' = [call EXCEPT ![c] = call[c]]
      /\ seen' = [seen EXCEPT ![c] = RowsOf(call[c].sets[call[c].at][1])]
      /\ taken' = [taken EXCEPT ![c] = taken[c]]
      /\ turn'[c] = "delete" /\ UNCHANGED <<call, groups, grants, trusted>>
  BY DEF Look, Goto, tables, history, GrantsIInv, GrantsTypeOK
<1>3. call[c].kind # "createGroup"
  BY <1>1 DEF CallShape
<1>4. \A d \in {c} : CallShape(d)'
  BY <1>1, <1>2, <1>3 DEF CallShape
<1>5. call[c].kind = "group" =>
        /\ groups[call[c].key] = "row" /\ Updating(call[c].key) = {c}
        /\ call[c].at = 2 => RowsOf(MembersOf(call[c].key)) \subseteq taken[c]
  <2> SUFFICES ASSUME call[c].kind = "group"
               PROVE  /\ groups[call[c].key] = "row" /\ Updating(call[c].key) = {c}
                      /\ call[c].at = 2 => RowsOf(MembersOf(call[c].key)) \subseteq taken[c]
    OBVIOUS
  <2>1. call[c].key \in Groups /\ c \in Updating(call[c].key)
    BY <1>1 DEF CallShape, Updating
  <2> QED BY <2>1 DEF GrantsIInv, LockHeld
<1> QED BY <1>2, <1>4, <1>5, QuietStep

\* The DELETE that empties a set before its new members are inserted.
LEMMA DeleteStep ==
  ASSUME GrantsIInv, NEW c \in Consoles, Delete(c)
  PROVE  GrantsIInv'
<1> DEFINE w == taken[c] \cup (seen[c] \cap grants)
<1>1. /\ turn[c] = "delete" /\ CallShape(c)
  BY DEF Delete, GrantsIInv, GrantsTypeOK
<1>2. /\ taken' = [taken EXCEPT ![c] = w] /\ seen' = [seen EXCEPT ![c] = {}]
      /\ UNCHANGED <<groups, grants, trusted>>
  BY DEF Delete, tables, history, GrantsIInv, GrantsTypeOK
<1>3. call[c].kind # "createGroup"
  BY <1>1 DEF CallShape
<1>4. ASSUME call[c].kind = "group"
      PROVE  /\ groups[call[c].key] = "row" /\ Updating(call[c].key) = {c}
             /\ call[c].at \in {1, 2} /\ Len(call[c].sets) = 2
             /\ RowsOf(MembersOf(call[c].key)) \subseteq w
             /\ call[c].at = 2 => RowsOf(RolesOfGroup(call[c].key)) \subseteq w
  <2>1. PICK g \in Groups : g = call[c].key
    BY <1>1, <1>4 DEF CallShape
  <2>2. c \in Updating(g)
    BY <1>1, <1>4, <2>1 DEF Updating
  <2>3. /\ groups[g] = "row" /\ Updating(g) = {c}
        /\ call[c].at = 2 => RowsOf(MembersOf(g)) \subseteq taken[c]
        /\ RowsOf(call[c].sets[call[c].at][1]) \subseteq seen[c]
    BY <1>1, <2>2 DEF GrantsIInv, LockHeld
  <2>4. /\ call[c].at \in {1, 2} /\ Len(call[c].sets) = 2
        /\ call[c].sets[1][1] = MembersOf(g) /\ call[c].sets[2][1] = RolesOfGroup(g)
    BY <2>2, GroupSetsAre DEF GrantsIInv
  <2>5. RowsOf(MembersOf(g)) \subseteq grants /\ RowsOf(RolesOfGroup(g)) \subseteq grants
    BY DEF RowsOf
  <2>6. CASE call[c].at = 1
    BY <2>1, <2>3, <2>4, <2>5, <2>6
  <2>7. CASE call[c].at = 2
    BY <2>1, <2>3, <2>4, <2>5, <2>7
  <2> QED BY <2>4, <2>6, <2>7
<1>7. call[c].kind = "group" => call[c].at \in {1, 2} /\ Len(call[c].sets) = 2
  BY <1>4
<1> HIDE DEF w
<1>5. CASE call[c].at < Len(call[c].sets)
  <2> DEFINE k == [call[c] EXCEPT !.at = @ + 1]
  <2>1. /\ turn' = [turn EXCEPT ![c] = "look"] /\ call' = [call EXCEPT ![c] = k]
        /\ turn'[c] = "look" /\ call'[c] = k
    BY <1>5 DEF Delete, Goto, GrantsIInv, GrantsTypeOK
  <2>2. /\ k = [kind |-> k.kind, key |-> k.key, sets |-> k.sets, at |-> k.at, batch |-> k.batch]
        /\ k.kind = call[c].kind /\ k.key = call[c].key /\ k.sets = call[c].sets
        /\ k.batch = call[c].batch /\ k.at = call[c].at + 1
    BY <1>1 DEF CallShape
  <2> HIDE DEF k
  <2>3. k.kind = "group" => k.at = 2
    <3> SUFFICES ASSUME k.kind = "group" PROVE k.at = 2
      OBVIOUS
    <3>1. call[c].at \in {1, 2} /\ call[c].at < 2
      BY <1>5, <1>7, <2>2
    <3>2. call[c].at = 1
      BY <3>1
    <3> QED BY <2>2, <3>2
  <2>4. \A d \in {c} : CallShape(d)'
    BY <1>1, <1>2, <1>3, <2>1, <2>2, <2>3 DEF CallShape
  <2> QED BY <1>2, <1>4, <2>1, <2>2, <2>3, <2>4, QuietStep
<1>6. CASE ~(call[c].at < Len(call[c].sets))
  <2>1. /\ turn' = [turn EXCEPT ![c] = "commit"] /\ call' = [call EXCEPT ![c] = call[c]]
        /\ turn'[c] = "commit" /\ call' = call
    BY <1>6 DEF Delete, Goto, GrantsIInv, GrantsTypeOK
  <2>2. \A d \in {c} : CallShape(d)'
    BY <1>1, <1>2, <1>3, <2>1 DEF CallShape
  <2>3. call[c].kind = "group" => call[c].at = 2
    <3> SUFFICES ASSUME call[c].kind = "group" PROVE call[c].at = 2
      OBVIOUS
    <3>1. call[c].at \in {1, 2} /\ ~(call[c].at < 2)
      BY <1>6, <1>7
    <3> QED BY <3>1
  <2> QED BY <1>2, <1>4, <2>1, <2>2, <2>3, QuietStep
<1> QED BY <1>5, <1>6

\* The steps that end a request outside of a replacement.
LEMMA EndingStep ==
  ASSUME GrantsIInv, NEW c \in Consoles, InsertUser(c) \/ DropRole(c) \/ DropGroup(c) \/ GAbort(c)
  PROVE  GrantsIInv'
<1>1. CASE InsertUser(c) \/ GAbort(c)
  BY <1>1, FailStep, EndOfRequest DEF InsertUser, GAbort, history, GrantsIInv, GrantsTypeOK
<1>2. CASE DropRole(c)
  <2>1. End(c) /\ grants' \subseteq grants /\ UNCHANGED <<groups, trusted>>
    BY <1>2 DEF DropRole, history
  <2> QED BY <2>1, EndOfRequest DEF GrantsIInv, GrantsTypeOK
<1>3. CASE DropGroup(c)
  <2>1. /\ turn[c] = "commit" /\ call[c].kind = "dropGroup" /\ CallShape(c)
        /\ End(c) /\ grants' \subseteq grants /\ trusted' = trusted
    BY <1>3 DEF DropGroup, history, GrantsIInv, GrantsTypeOK
  <2>2. PICK g \in Groups : call[c].key = g
    BY <2>1 DEF CallShape
  <2>3. \/ UNCHANGED groups
        \/ Updating(g) = {} /\ groups' = [groups EXCEPT ![g] = "deleted"]
    BY <1>3, <2>2 DEF DropGroup
  <2>4. groups' \in [Groups -> {"none", "row", "deleted"}]
        /\ \A h \in Groups : groups'[h] = groups[h] \/ (groups'[h] = "deleted" /\ Updating(h) = {})
    BY <2>3 DEF GrantsIInv, GrantsTypeOK
  <2> QED BY <2>1, <2>4, EndOfRequest
<1> QED BY <1>1, <1>2, <1>3

\* The row of a user goes; the statements that delete its grants follow.
LEMMA EraseStep ==
  ASSUME GrantsIInv, NEW c \in Consoles, EraseUser(c)
  PROVE  GrantsIInv'
<1>1. CASE Fail(c)
  BY <1>1, FailStep
<1>2. CASE ~Fail(c)
  <2>1. turn[c] = "erase" /\ CallShape(c)
    BY DEF EraseUser, GrantsIInv, GrantsTypeOK
  <2>2. /\ turn' = [turn EXCEPT ![c] = "sweep"] /\ call' = [call EXCEPT ![c] = call[c]]
        /\ seen' = [seen EXCEPT ![c] = seen[c]] /\ taken' = [taken EXCEPT ![c] = taken[c]]
        /\ trusted \subseteq trusted' /\ UNCHANGED <<groups, grants>>
    BY <1>2 DEF EraseUser, Goto, history, GrantsIInv, GrantsTypeOK
  <2>3. turn'[c] = "sweep" /\ call' = call /\ trusted' = trusted
    BY <1>2 DEF EraseUser, Goto, history, GrantsIInv, GrantsTypeOK
  <2>4. \A d \in {c} : CallShape(d)'
    BY <2>1, <2>3 DEF CallShape
  <2>5. "sweep" \notin {"look", "delete", "commit"}
    OBVIOUS
  <2> QED BY <2>2, <2>4, <2>5, QuietStep
<1> QED BY <1>1, <1>2

\* One of those statements: it deletes what it sees of the user's grants.
LEMMA SweepStep ==
  ASSUME GrantsIInv, NEW c \in Consoles, DeleteUserGrants(c)
  PROVE  GrantsIInv'
<1>1. /\ turn[c] = "sweep" /\ CallShape(c) /\ grants' \subseteq grants
      /\ UNCHANGED <<groups, trusted>>
  BY DEF DeleteUserGrants, history, GrantsIInv, GrantsTypeOK
<1>2. CASE End(c)
  BY <1>1, <1>2, EndOfRequest DEF GrantsIInv, GrantsTypeOK
<1>3. CASE ~End(c)
  <2> DEFINE k == [call[c] EXCEPT !.at = @ + 1]
  <2>1. /\ turn' = [turn EXCEPT ![c] = "sweep"] /\ call' = [call EXCEPT ![c] = k]
        /\ seen' = [seen EXCEPT ![c] = seen[c]] /\ taken' = [taken EXCEPT ![c] = taken[c]]
        /\ turn'[c] = "sweep" /\ call'[c] = k
    BY <1>1, <1>3 DEF DeleteUserGrants, GrantsIInv, GrantsTypeOK
  <2>2. /\ k = [kind |-> k.kind, key |-> k.key, sets |-> k.sets, at |-> k.at, batch |-> k.batch]
        /\ k.kind = call[c].kind /\ k.key = call[c].key /\ k.sets = call[c].sets
        /\ k.batch = call[c].batch
    BY <1>1 DEF CallShape
  <2> HIDE DEF k
  <2>3. \A d \in {c} : CallShape(d)'
    BY <1>1, <2>1, <2>2 DEF CallShape
  <2>4. \A g \in Groups : c \notin Updating(g)'
    BY <2>1 DEF Updating
  <2>5. \A s, w : LocksWell(c, "sweep", k, s, w)
    BY <2>4 DEF LocksWell
  <2>6. AdminFromAdmins' /\ OneUpdate'
    BY <1>1, RowsStep
  <2>7. \A g \in Groups : Updating(g) \ {c} # {} =>
          groups'[g] = groups[g] /\ GroupRows(g)' \subseteq GroupRows(g)
    BY <1>1 DEF GroupRows, RowsOf
  <2>8. /\ GrantsTypeOK /\ LockHeld /\ groups' \in [Groups -> {"none", "row", "deleted"}]
        /\ \A x \in grants' : x = [of |-> x.of, item |-> x.item, batch |-> x.batch, live |-> x.live]
        /\ trusted \subseteq trusted'
    BY <1>1 DEF GrantsIInv, GrantsTypeOK
  <2>9. GrantsTypeOK' /\ LockHeld'
    BY <2>1, <2>3, <2>5, <2>7, <2>8, ConsoleStep
  <2> QED BY <2>6, <2>9 DEF GrantsIInv
<1> QED BY <1>2, <1>3

\* Nothing is under way afterwards: a grant has expired, or the process is back.
LEMMA IdleStep ==
  ASSUME GrantsIInv, Lapse \/ Restart
  PROVE  GrantsIInv'
<1>1. /\ \A c \in Consoles : turn'[c] = "idle"
      /\ turn' = [c \in Consoles |-> turn'[c]] /\ call' = [c \in Consoles |-> call'[c]]
      /\ seen' = [c \in Consoles |-> seen'[c]] /\ taken' = [c \in Consoles |-> taken'[c]]
      /\ UNCHANGED <<groups, trusted>>
  BY DEF Lapse, Restart, flow, history, GrantsIInv, GrantsTypeOK
<1>2. \A x \in grants' :
        \/ x \in grants
        \/ \E y \in grants : y.of[1] \in {"user_roles", "user_permissions"} /\ x = [y EXCEPT !.live = FALSE]
        \/ x = Row(RolesOf(Boot), Admin, 0)
  BY DEF Lapse, Restart
<1>3. \A x \in grants' :
        /\ x = [of |-> x.of, item |-> x.item, batch |-> x.batch, live |-> x.live]
        /\ \/ \E y \in grants : x.of = y.of /\ x.item = y.item /\ x.batch = y.batch
           \/ x.of[1] = "user_roles" /\ x.batch = 0
  BY <1>2, SetNames DEF Row, GrantsIInv, GrantsTypeOK
<1>4. 0 \in trusted
  BY DEF GrantsIInv, GrantsTypeOK
<1>5. AdminFromAdmins' /\ OneUpdate'
  BY <1>1, <1>3, <1>4, RowsStep
<1>6. GrantsTypeOK'
  BY <1>1, <1>3 DEF GrantsIInv, GrantsTypeOK
<1>7. LockHeld'
  BY <1>1 DEF LockHeld, Updating
<1> QED BY <1>5, <1>6, <1>7 DEF GrantsIInv

\* Every step of the administration keeps the invariant.
LEMMA GrantsNextInductive == GrantsIInv /\ [GNext]_grantVars => GrantsIInv'
<1> SUFFICES ASSUME GrantsIInv, [GNext]_grantVars PROVE GrantsIInv'
  OBVIOUS
<1>1. CASE UNCHANGED grantVars
  <2>1. UNCHANGED <<groups, grants, turn, call, seen, taken, trusted>>
    BY <1>1 DEF grantVars, tables, flow, history
  <2>2. GrantsTypeOK'
    BY <2>1 DEF GrantsIInv, GrantsTypeOK, CallShape
  <2>3. AdminFromAdmins' /\ OneUpdate'
    BY <2>1, RowsStep
  <2>4. LockHeld'
    BY <2>1 DEF GrantsIInv, LockHeld, Updating, RowsOf
  <2> QED BY <2>2, <2>3, <2>4 DEF GrantsIInv
<1>2. ASSUME NEW c \in Consoles, Statement(c) PROVE GrantsIInv'
  BY <1>2, EndingStep, UpdateRowStep, InsertGroupStep, LookStep, DeleteStep, CommitOfSets, EraseStep,
     SweepStep DEF Statement
<1> QED BY <1>1, <1>2, EndingStep, StartStep, IdleStep DEF GNext

\* The invariant of the grants holds for any administrators, roles, groups and users: the
\* sets of a group come from one request, and admins from admins.
THEOREM GrantsInvariance == GSpec => []GrantsIInv
BY GrantsInitInductive, GrantsNextInductive, PTL DEF GSpec

\* Only administrators make administrators (user/handlers.go putRoles,
\* user/group_handlers.go validateGroupInput): AdminFromAdmins.
THEOREM AdminsMakeAdmins == GSpec => []AdminFromAdmins
<1>1. GrantsIInv => AdminFromAdmins
  BY DEF GrantsIInv
<1> QED BY <1>1, GrantsInvariance, PTL

\* A group's members and roles come from one update (iam/store.go UpdateGroup
\* updates the group's row first): GroupIsOneUpdate.
THEOREM GroupsAreOneUpdate == GSpec => []GroupIsOneUpdate
<1>1. GrantsIInv => GroupIsOneUpdate
  BY DEF GrantsIInv, OneUpdate, GroupIsOneUpdate, GroupRows
<1> QED BY <1>1, GrantsInvariance, PTL

----------------------------------------------------------------------------
(* Settings.                                                               *)

\* The first settings satisfy the invariant.
LEMMA SettingsInitInductive == SettingsInit => SettingsIInv
<1> SUFFICES ASSUME SettingsInit PROVE SettingsIInv
  OBVIOUS
<1>1. \A s \in {"ai", "mail", "storage"} : \A fields : IsSetting(Fresh(s, fields))
  BY DEF IsSetting, Fresh, Services
<1>2. ValidAI(AIRow)
  BY SettingsAssumption DEF ValidAI, Fits, AIRow, Fresh
<1>3. ValidMail(MailRow)
  BY SettingsAssumption DEF ValidMail, Fits, MailRow, Fresh
<1>4. ValidStorage(StorageRow)
  BY SettingsAssumption DEF ValidStorage, Fits, StorageRow, Fresh
<1>5. \A s \in Services : IsSetting(config[s]) /\ config[s].service = s /\ Usable(config[s])
  <2>1. /\ AIRow.service = "ai" /\ IsSetting(AIRow)
        /\ MailRow.service = "mail" /\ IsSetting(MailRow)
        /\ StorageRow.service = "storage" /\ IsSetting(StorageRow)
    BY <1>1 DEF AIRow, MailRow, StorageRow, Fresh
  <2>2. Usable(AIRow) /\ Usable(MailRow) /\ Usable(StorageRow)
    BY <1>2, <1>3, <1>4, <2>1 DEF Usable
  <2>3. config["ai"] = AIRow /\ config["mail"] = MailRow /\ config["storage"] = StorageRow
    BY DEF SettingsInit, Services
  <2> QED BY <2>1, <2>2, <2>3 DEF Services
<1> QED BY <1>5 DEF SettingsInit, SettingsIInv

\* What each service makes of a body is a setting of that service.
LEMMA NormalizedType ==
  ASSUME NEW body, IsSetting(body)
  PROVE  /\ IsSetting(NormalizeAI(body)) /\ NormalizeAI(body).service = body.service
         /\ IsSetting(NormalizeMail(body)) /\ NormalizeMail(body).service = body.service
         /\ IsSetting(NormalizeStorage(body)) /\ NormalizeStorage(body).service = body.service
<1>1. ASSUME NEW F, NEW S
      PROVE  /\ IsSetting([body EXCEPT !.fields = F, !.secret = S])
             /\ [body EXCEPT !.fields = F, !.secret = S].service = body.service
             /\ IsSetting([body EXCEPT !.secret = S, !.fields = F])
             /\ [body EXCEPT !.secret = S, !.fields = F].service = body.service
  <2>1. body = [service |-> body.service, enabled |-> body.enabled, fields |-> body.fields,
                secret |-> body.secret] /\ body.service \in Services
    BY DEF IsSetting
  <2>2. ASSUME NEW in, IsSetting(in), NEW v
        PROVE  /\ IsSetting([in EXCEPT !.fields = v]) /\ [in EXCEPT !.fields = v].service = in.service
               /\ IsSetting([in EXCEPT !.secret = v]) /\ [in EXCEPT !.secret = v].service = in.service
    BY <2>2 DEF IsSetting
  <2>3. [body EXCEPT !.fields = F, !.secret = S] = [[body EXCEPT !.fields = F] EXCEPT !.secret = S]
    OBVIOUS
  <2>4. [body EXCEPT !.secret = S, !.fields = F] = [[body EXCEPT !.secret = S] EXCEPT !.fields = F]
    OBVIOUS
  <2>5. IsSetting([body EXCEPT !.fields = F]) /\ IsSetting([body EXCEPT !.secret = S])
        /\ [body EXCEPT !.fields = F].service = body.service
        /\ [body EXCEPT !.secret = S].service = body.service
    BY <2>2
  <2> QED BY <2>2, <2>3, <2>4, <2>5
<1>2. IsSetting(NormalizeAI(body)) /\ NormalizeAI(body).service = body.service
  BY <1>1, Zenon DEF NormalizeAI
<1>3. IsSetting(NormalizeStorage(body)) /\ NormalizeStorage(body).service = body.service
  BY <1>1, Zenon DEF NormalizeStorage
<1>4. IsSetting(NormalizeMail(body)) /\ NormalizeMail(body).service = body.service
  BY <1>1, Zenon DEF NormalizeMail
<1> QED BY <1>2, <1>3, <1>4

\* A request that goes on to look for the secret or to write.
LEMMA GoStep ==
  ASSUME SettingsIInv, NEW c \in Admins, NEW next \in {"keep", "update"}, NEW in, IsSetting(in),
         put' = [put EXCEPT ![c] = [at |-> next, in |-> in]], UNCHANGED config,
         overtaken' \in {overtaken, overtaken \ {c}},
         next = "keep" => in.secret = Blank /\ (in.service = "ai" \/ Usable(in)),
         next = "update" => Usable(in) /\ (in.secret = Blank => config[in.service].secret = Blank)
  PROVE  SettingsIInv'
<1>1. PutOK(c)'
  <2>1. put'[c] = [at |-> next, in |-> in]
    BY DEF SettingsIInv
  <2> QED BY <2>1 DEF PutOK
<1>2. ASSUME NEW d \in Admins, d # c, put'[d] # NoPut PROVE PutOK(d)'
  <2>1. put'[d] = put[d] /\ (d \in overtaken <=> d \in overtaken') /\ PutOK(d)
    BY <1>2 DEF SettingsIInv
  <2> QED BY <2>1 DEF PutOK
<1> QED BY <1>1, <1>2 DEF SettingsIInv

\* A request that is answered, its row written or not.
LEMMA AnswerStep ==
  ASSUME SettingsIInv, NEW c \in Admins, AnswerPut(c), UNCHANGED config,
         overtaken' = overtaken \ {c}
  PROVE  SettingsIInv'
<1>1. ASSUME NEW d \in Admins, put'[d] # NoPut PROVE PutOK(d)'
  <2>1. d # c /\ put'[d] = put[d] /\ (d \in overtaken <=> d \in overtaken')
    BY <1>1 DEF SettingsIInv, AnswerPut
  <2> QED BY <1>1, <2>1 DEF PutOK, SettingsIInv
<1> QED BY <1>1 DEF SettingsIInv, AnswerPut

\* A request that arrives has written nothing.
LEMMA PutStep ==
  ASSUME SettingsIInv, NEW c \in Admins, NEW body \in Bodies,
         PutAI(c, body) \/ PutMail(c, body) \/ PutStorage(c, body)
  PROVE  SettingsIInv'
<1>1. IsSetting(body)
  BY SettingsAssumption
<1>2. CASE PutAI(c, body)
  <2> DEFINE in == NormalizeAI(body)
  <2>1. IsSetting(in) /\ in.service = "ai"
    BY <1>1, <1>2, NormalizedType DEF PutAI
  <2>2. Usable(in) <=> ValidAI(in)
    BY <2>1 DEF Usable
  <2>3. UNCHANGED <<config, overtaken>>
    BY <1>2 DEF PutAI
  <2>4. CASE in.secret = Blank /\ Go(c, "keep", in)
    BY <2>1, <2>3, <2>4, GoStep DEF Go
  <2>5. CASE in.secret # Blank /\ ValidAI(in) /\ Go(c, "update", in)
    BY <2>1, <2>2, <2>3, <2>5, GoStep DEF Go
  <2> QED BY <1>2, <2>4, <2>5 DEF PutAI
<1>3. ASSUME NEW in, NEW valid, IsSetting(in), valid => Usable(in), PutChecked(c, in, valid)
      PROVE  SettingsIInv'
  <2>1. Usable(in) /\ UNCHANGED <<config, overtaken>>
    BY <1>3 DEF PutChecked
  <2>2. CASE in.secret = Blank
    <3>1. put' = [put EXCEPT ![c] = [at |-> "keep", in |-> in]]
      BY <1>3, <2>2 DEF PutChecked, Go
    <3> QED BY <1>3, <2>1, <2>2, <3>1, GoStep
  <2>3. CASE in.secret # Blank
    <3>1. put' = [put EXCEPT ![c] = [at |-> "update", in |-> in]]
      BY <1>3, <2>3 DEF PutChecked, Go
    <3> QED BY <1>3, <2>1, <2>3, <3>1, GoStep
  <2> QED BY <2>2, <2>3
<1>4. CASE PutMail(c, body)
  <2> DEFINE in == NormalizeMail(body)
  <2>1. IsSetting(in) /\ in.service = "mail" /\ PutChecked(c, in, ValidMail(in))
    BY <1>1, <1>4, NormalizedType DEF PutMail
  <2>2. ValidMail(in) => Usable(in)
    BY <2>1 DEF Usable
  <2> HIDE DEF in
  <2> QED BY <1>3, <2>1, <2>2
<1>5. CASE PutStorage(c, body)
  <2> DEFINE in == NormalizeStorage(body)
  <2>1. IsSetting(in) /\ in.service = "storage" /\ PutChecked(c, in, ValidStorage(in))
    BY <1>1, <1>5, NormalizedType DEF PutStorage
  <2>2. ValidStorage(in) => Usable(in)
    BY <2>1 DEF Usable
  <2> HIDE DEF in
  <2> QED BY <1>3, <2>1, <2>2
<1> QED BY <1>2, <1>4, <1>5

\* The stored secret keeps a complete row complete; the AI provider's is
\* validated again.
LEMMA KeepStep ==
  ASSUME SettingsIInv, NEW c \in Admins, KeepAI(c) \/ KeepMail(c) \/ KeepStorage(c)
  PROVE  SettingsIInv'
<1> DEFINE in == Kept(c)
           service == put[c].in.service
<1>1. put[c] # NoPut /\ put[c].at = "keep" /\ PutOK(c) /\ service \in Services
  BY DEF KeepAI, KeepMail, KeepStorage, Keep, SettingsIInv, PutOK, IsSetting
<1>2. IsSetting(put[c].in)
  BY <1>1 DEF PutOK
<1>3. IsSetting(in) /\ in.service = service /\ in.fields = put[c].in.fields
      /\ in.enabled = put[c].in.enabled /\ in.secret = config[service].secret
  BY <1>2 DEF IsSetting, Kept
<1>4. in.secret # Long
  <2>1. Fits(config[service])
    BY <1>1 DEF SettingsIInv, Usable, ValidAI, ValidMail, ValidStorage, Services
  <2> QED BY <1>3, <2>1 DEF Fits
<1>5. Usable(in) \/ (service = "ai" /\ ~ ValidAI(in))
  <2>1. CASE service = "ai"
    BY <1>3, <2>1 DEF Usable
  <2>2. CASE service = "mail"
    <3>1. ValidMail(put[c].in)
      BY <1>1, <2>2 DEF PutOK, Usable
    <3>2. ValidMail(in)
      BY <1>3, <1>4, <3>1 DEF ValidMail, Fits
    <3> QED BY <1>3, <2>2, <3>2 DEF Usable
  <2>3. CASE service = "storage"
    <3>1. ValidStorage(put[c].in)
      BY <1>1, <2>3 DEF PutOK, Usable
    <3>2. ValidStorage(in)
      BY <1>3, <1>4, <3>1 DEF ValidStorage, Fits
    <3> QED BY <1>3, <2>3, <3>2 DEF Usable
  <2> QED BY <1>1, <2>1, <2>2, <2>3 DEF Services
<1>6. overtaken' = overtaken \ {c} /\ UNCHANGED config
  BY DEF KeepAI, KeepMail, KeepStorage, Keep
<1>7. CASE AnswerPut(c)
  BY <1>6, <1>7, AnswerStep
<1>8. CASE Usable(in) /\ put' = [put EXCEPT ![c] = [at |-> "update", in |-> in]]
  <2> HIDE DEF in
  <2> QED BY <1>3, <1>6, <1>8, GoStep
<1>9. AnswerPut(c) \/ (Go(c, "update", in) /\ (service = "ai" => ValidAI(in)))
  BY DEF KeepAI, KeepMail, KeepStorage, Keep
<1> QED BY <1>5, <1>7, <1>8, <1>9 DEF Go

\* A row is replaced whole, by what one request merged.
LEMMA ReplaceStep ==
  ASSUME SettingsIInv, NEW c \in Admins, NEW s \in Services, ReplaceRow(c, s)
  PROVE  SettingsIInv'
<1>1. put[c] # NoPut /\ PutOK(c) /\ put[c].in.service = s /\ Usable(put[c].in) /\ IsSetting(put[c].in)
  BY DEF ReplaceRow, SettingsIInv, PutOK
<1>2. config' = [config EXCEPT ![s] = put[c].in] /\ put' = [put EXCEPT ![c] = NoPut]
  BY DEF ReplaceRow, AnswerPut
<1>3. \A t \in Services : IsSetting(config'[t]) /\ config'[t].service = t /\ Usable(config'[t])
  <2>1. ASSUME NEW t \in Services
        PROVE IsSetting(config'[t]) /\ config'[t].service = t /\ Usable(config'[t])
    <3>1. config'[t] = IF t = s THEN put[c].in ELSE config[t]
      BY <1>2 DEF SettingsIInv
    <3>2. CASE t = s
      BY <1>1, <3>1, <3>2
    <3>3. CASE t # s
      BY <3>1, <3>3 DEF SettingsIInv
    <3> QED BY <3>2, <3>3
  <2> QED BY <2>1
<1>4. ASSUME NEW d \in Admins, put'[d] # NoPut PROVE PutOK(d)'
  <2>1. d # c /\ put'[d] = put[d] /\ PutOK(d) /\ IsSetting(put[d].in)
    BY <1>2, <1>4 DEF SettingsIInv, PutOK
  <2>2. CASE put[d].in.service = s
    <3>1. d \in overtaken'
      BY <2>1, <2>2, <1>4 DEF ReplaceRow
    <3> QED BY <2>1, <3>1 DEF PutOK
  <2>3. CASE put[d].in.service # s
    <3>1. config'[put[d].in.service] = config[put[d].in.service]
      BY <1>2, <2>3, <2>1 DEF SettingsIInv, IsSetting
    <3>2. d \in overtaken' <=> d \in overtaken
      BY <2>1, <2>3 DEF ReplaceRow
    <3> QED BY <2>1, <3>1, <3>2 DEF PutOK
  <2> QED BY <2>2, <2>3
<1> QED BY <1>2, <1>3, <1>4 DEF SettingsIInv

\* Every step of the settings keeps the invariant.
LEMMA SettingsNextInductive == SettingsIInv /\ [SettingsNext]_settingsVars => SettingsIInv'
<1> SUFFICES ASSUME SettingsIInv, [SettingsNext]_settingsVars PROVE SettingsIInv'
  OBVIOUS
<1>1. CASE UNCHANGED settingsVars
  BY <1>1 DEF settingsVars, SettingsIInv, PutOK
<1>2. ASSUME NEW c \in Admins, NEW body \in Bodies,
             PutAI(c, body) \/ PutMail(c, body) \/ PutStorage(c, body)
      PROVE  SettingsIInv'
  BY <1>2, PutStep
<1>3. ASSUME NEW c \in Admins, KeepAI(c) \/ KeepMail(c) \/ KeepStorage(c) PROVE SettingsIInv'
  BY <1>3, KeepStep
<1>4. ASSUME NEW c \in Admins, UpdateAI(c) \/ UpdateMail(c) \/ UpdateStorage(c) PROVE SettingsIInv'
  BY <1>4, ReplaceStep DEF UpdateAI, UpdateMail, UpdateStorage, Services
<1>5. ASSUME NEW c \in Admins, FailPut(c) PROVE SettingsIInv'
  BY <1>5, AnswerStep DEF FailPut
<1> QED BY <1>1, <1>2, <1>3, <1>4, <1>5 DEF SettingsNext

\* It holds of every reachable state.
LEMMA SettingsInvariance == SettingsSpec => []SettingsIInv
BY SettingsInitInductive, SettingsNextInductive, PTL DEF SettingsSpec

\* A row that is switched on is complete, and a secret is cleared by nothing but
\* a PUT that another one overtook (ai/handler.go, mail/handler.go and
\* storage/handler.go putSettings): SettingsStand.
THEOREM SettingsAreSafe == SettingsSpec => SettingsStand
<1> DEFINE Stand ==
      \A s \in Services :
        /\ Usable(config'[s])
        /\ config[s].secret # Blank /\ config'[s].secret = Blank
             => \E c \in overtaken : put'[c] = NoPut /\ config'[s] = put[c].in
<1>1. SettingsIInv /\ SettingsIInv' /\ [SettingsNext]_settingsVars => [Stand]_settingsVars
  <2> SUFFICES ASSUME SettingsIInv, SettingsIInv', SettingsNext, NEW s \in Services PROVE
        /\ Usable(config'[s])
        /\ config[s].secret # Blank /\ config'[s].secret = Blank
             => \E c \in overtaken : put'[c] = NoPut /\ config'[s] = put[c].in
    OBVIOUS
  <2>1. Usable(config'[s])
    BY DEF SettingsIInv
  <2>2. ASSUME config[s].secret # Blank, config'[s].secret = Blank
        PROVE  \E c \in overtaken : put'[c] = NoPut /\ config'[s] = put[c].in
    <3>1. config' # config
      BY <2>2
    <3>2. PICK c \in Admins : UpdateAI(c) \/ UpdateMail(c) \/ UpdateStorage(c)
      BY <3>1 DEF SettingsNext, PutAI, PutMail, PutStorage, PutChecked, KeepAI, KeepMail, KeepStorage,
                  Keep, FailPut
    <3>3. PICK t \in Services : ReplaceRow(c, t)
      BY <3>2 DEF UpdateAI, UpdateMail, UpdateStorage, Services
    <3>4. put[c] # NoPut /\ put[c].at = "update" /\ put[c].in.service = t /\ PutOK(c)
          /\ config' = [config EXCEPT ![t] = put[c].in] /\ put' = [put EXCEPT ![c] = NoPut]
      BY <3>3 DEF ReplaceRow, AnswerPut, SettingsIInv
    <3>5. t = s /\ config'[s] = put[c].in
      BY <2>2, <3>4 DEF SettingsIInv
    <3>6. c \in overtaken
      BY <2>2, <3>4, <3>5 DEF PutOK
    <3>7. put'[c] = NoPut
      BY <3>4 DEF SettingsIInv
    <3> QED BY <3>5, <3>6, <3>7
  <2> QED BY <2>1, <2>2
<1> QED BY <1>1, SettingsInvariance, PTL DEF SettingsSpec, SettingsStand
=============================================================================
