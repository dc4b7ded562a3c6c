------------------------------ MODULE PagedList ------------------------------
(***************************************************************************)
(* A paged list that the server searches and filters, in its two clients:  *)
(* the hook of the web console and its counterpart of the mini program.    *)
(* Requests overlap and are answered in any order; only the answer of the  *)
(* latest one counts.  Pages hold one row.                                 *)
(***************************************************************************)
EXTENDS Naturals, FiniteSets, Sequences, SequencesExt

CONSTANTS
  Searches,    \* what is typed, with the empty text
  FilterValues,
  NoSearch,
  MaxFound,    \* bound: rows of a result
  MaxActs      \* bound: what the user does

ASSUME ListAssumption == NoSearch \in Searches /\ {MaxFound, MaxActs} \subseteq Nat

VARIABLES
  app,         \* the client: console or miniapp
  found,       \* rows the server finds, by search and filter
  typed,       \* the text of the search field
  timer,       \* whether the debounce is running
  want,        \* what the list's state asks for: page, search, filter, reload
  asked,       \* what the latest request asked for
  asks,        \* requests so far
  flying,      \* requests in flight, with the rows found once the server has looked
  shown,       \* the pages shown: what each was asked for, how many rows it has
  total,       \* the number of rows found, as the last of them says
  failure,     \* whether the latest request failed
  mode,        \* (mini program) what the answer does: replace or append
  more,        \* (mini program) hasMore
  changing,    \* a change of a row by this client is not answered yet
  acts         \* what the user did so far

listVars == <<app, found, typed, timer, want, asked, asks, flying, shown, total,
              failure, mode, more, changing, acts>>
queryVars == <<typed, timer, want>>
askVars == <<asked, asks, failure>>
answerVars == <<shown, total, more>>

Unread == MaxFound + 1
IsLatest(f) == f.nr = asks
Answered == \A f \in flying : ~IsLatest(f)
Query(w) == <<w.search, w.filter>>
PageOf(f) == [of |-> f.of, rows |-> IF f.of.page <= f.found THEN 1 ELSE 0]
RowsIn(pages) == FoldSeq(LAMBDA p, n : n + p.rows, 0, pages)

ListInit ==
  /\ app \in {"console", "miniapp"}
  /\ found \in [Searches \X FilterValues -> 1 .. MaxFound]
  /\ typed = NoSearch /\ timer = FALSE
  /\ \E f \in FilterValues :
       want = [page |-> 1, search |-> NoSearch, filter |-> f, reload |-> 0]
  /\ asked = want /\ asks = 1
  /\ flying = {[nr |-> 1, of |-> want, found |-> Unread]}
  /\ shown = <<>> /\ total = 0 /\ failure = FALSE
  /\ mode = "replace" /\ more = FALSE /\ changing = FALSE /\ acts = 0

Act == acts < MaxActs /\ acts' = acts + 1

\* A new request beside those in flight: their answers are dropped from now on.
FetchBeside(others, w) ==
  /\ asked' = w /\ asks' = asks + 1 /\ failure' = FALSE
  /\ flying' = others \cup {[nr |-> asks + 1, of |-> w, found |-> Unread]}
Fetch(w) == FetchBeside(flying, w)

----------------------------------------------------------------------------
(* The server, and this client's own changes of a row.                     *)

ServerLooks(f) ==
  /\ f \in flying /\ f.found = Unread
  /\ flying' = (flying \ {f}) \cup {[f EXCEPT !.found = found[Query(f.of)]]}
  /\ UNCHANGED <<app, found, queryVars, askVars, answerVars, mode, changing, acts>>

\* A row is deleted, of this search and perhaps not of the others.
ChangeRow ==
  /\ ~changing /\ Act /\ changing' = TRUE
  /\ \E k \in DOMAIN found : found[k] > 0 /\ found' = [found EXCEPT ![k] = @ - 1]
  /\ UNCHANGED <<app, queryVars, askVars, flying, answerVars, mode>>

\* Mistake: an answer is taken whenever it comes.
TakesAny(f) == f \in flying /\ f.found # Unread

\* Not cancelled, or of the current sequence number.
Takes(f) == f \in flying /\ f.found # Unread /\ IsLatest(f)

\* The page fell past the last page.
PastTheEnd(page, f) == page > 1 /\ PageOf(f).rows = 0 /\ f.found > 0

Drop(f) ==
  /\ f \in flying /\ f.found # Unread /\ ~IsLatest(f)
  /\ flying' = flying \ {f}
  /\ UNCHANGED <<app, found, queryVars, askVars, answerVars, mode, changing, acts>>

\* The rows shown stay, and so does hasMore.
AnswerFails(f) ==
  /\ f \in flying /\ flying' = flying \ {f}
  /\ failure' = (failure \/ IsLatest(f))
  /\ UNCHANGED <<app, found, queryVars, asked, asks, answerVars, mode, changing, acts>>

----------------------------------------------------------------------------
(* usePagedList.  An event of the user renders at once; a timer or an      *)
(* answer sets the state, and the next render sees all that was set.       *)

\* A render and its effects: the fetch, after a change of filter still of the
\* old page, because the reset to page 1 is rendered next.
Render(w) ==
  IF w = asked
  THEN want' = w /\ UNCHANGED <<askVars, flying>>
  ELSE /\ want' = IF w.filter # asked.filter THEN [w EXCEPT !.page = 1] ELSE w
       /\ Fetch(w)

Rerender ==
  /\ app = "console" /\ want # asked
  /\ Render(want)
  /\ UNCHANGED <<app, found, typed, timer, answerVars, mode, changing, acts>>

\* The pager offers the pages of the last answer.
SetPage(p) ==
  /\ app = "console" /\ Act /\ p <= total
  /\ Render([want EXCEPT !.page = p])
  /\ UNCHANGED <<app, found, typed, timer, answerVars, mode, changing>>

SetFilter(f) ==
  /\ app = "console" /\ Act
  /\ Render([want EXCEPT !.filter = f])
  /\ UNCHANGED <<app, found, typed, timer, answerVars, mode, changing>>

ChangeQ(v) ==
  /\ app = "console" /\ Act /\ v # typed
  /\ typed' = v /\ timer' = TRUE
  /\ Render([want EXCEPT !.page = 1])
  /\ UNCHANGED <<app, found, answerVars, mode, changing>>

Debounced ==
  /\ app = "console" /\ timer /\ timer' = FALSE
  /\ want' = [want EXCEPT !.search = typed]
  /\ UNCHANGED <<app, found, typed, askVars, flying, answerVars, mode, changing, acts>>

\* After an own change was answered.
Reload ==
  /\ app = "console" /\ changing /\ changing' = FALSE
  /\ want' = [want EXCEPT !.reload = @ + 1]
  /\ UNCHANGED <<app, found, typed, timer, askVars, flying, answerVars, mode, acts>>

AnswerArrives(f) ==
  /\ app = "console" /\ Takes(f) /\ flying' = flying \ {f}
  /\ shown' = <<PageOf(f)>> /\ total' = f.found
  /\ want' = IF PastTheEnd(f.of.page, f) THEN [want EXCEPT !.page = f.of.page - 1] ELSE want
  /\ UNCHANGED <<app, found, typed, timer, askVars, more, mode, changing, acts>>

----------------------------------------------------------------------------
(* createPagedList.  The search field is the state's q from the start; the *)
(* page's filters are read when a request is made.                         *)

FetchPage(w, m) == want' = w /\ mode' = m /\ Fetch(w)

Load(f) ==
  /\ app = "miniapp" /\ Act /\ timer' = FALSE
  /\ FetchPage([want EXCEPT !.page = 1, !.filter = f], "replace")
  /\ UNCHANGED <<app, found, typed, answerVars, changing>>

\* loading is set only when there is nothing to display.
Loading == ~Answered /\ RowsIn(shown) = 0

LoadMore ==
  /\ app = "miniapp" /\ Act
  /\ ~Loading /\ more
  /\ FetchPage([want EXCEPT !.page = @ + 1], "append")
  /\ UNCHANGED <<app, found, typed, timer, answerVars, changing>>

SetQ(v) ==
  /\ app = "miniapp" /\ Act /\ v # typed
  /\ typed' = v /\ timer' = TRUE
  /\ want' = [want EXCEPT !.search = v, !.page = 1]
  /\ UNCHANGED <<app, found, askVars, flying, answerVars, mode, changing>>

TimerFires ==
  /\ app = "miniapp" /\ timer /\ timer' = FALSE
  /\ FetchPage(want, "replace")
  /\ UNCHANGED <<app, found, typed, answerVars, changing, acts>>

ReloadPage ==
  /\ app = "miniapp" /\ changing /\ changing' = FALSE
  /\ FetchPage([want EXCEPT !.reload = @ + 1], "replace")
  /\ UNCHANGED <<app, found, typed, timer, answerVars, acts>>

AnswerPage(f) ==
  /\ app = "miniapp" /\ Takes(f)
  /\ shown' = IF mode = "append" THEN Append(shown, PageOf(f)) ELSE <<PageOf(f)>>
  /\ total' = f.found
  /\ IF PastTheEnd(want.page, f)
     THEN /\ want' = [want EXCEPT !.page = @ - 1] /\ mode' = "replace"
          /\ FetchBeside(flying \ {f}, want')
          /\ UNCHANGED more
     ELSE /\ flying' = flying \ {f}
          /\ more' = (RowsIn(shown') < total')
          /\ UNCHANGED <<want, mode, askVars>>
  /\ UNCHANGED <<app, found, typed, timer, changing, acts>>

----------------------------------------------------------------------------
ListNext ==
  \/ \E f \in flying : ServerLooks(f) \/ Drop(f) \/ AnswerFails(f) \/ AnswerArrives(f) \/ AnswerPage(f)
  \/ ChangeRow
  \/ Rerender \/ Debounced \/ Reload
  \/ \E p \in 1 .. MaxFound : SetPage(p)
  \/ \E f \in FilterValues : SetFilter(f) \/ Load(f)
  \/ \E v \in Searches : ChangeQ(v) \/ SetQ(v)
  \/ LoadMore \/ TimerFires \/ ReloadPage

ListSpec == ListInit /\ [][ListNext]_listVars

----------------------------------------------------------------------------
(* Properties.                                                             *)

Wants == [page : Nat, search : Searches, filter : FilterValues, reload : Nat]

ListTypeOK ==
  /\ app \in {"console", "miniapp"} /\ mode \in {"replace", "append"}
  /\ found \in [Searches \X FilterValues -> 0 .. MaxFound]
  /\ typed \in Searches /\ {timer, failure, more, changing} \subseteq BOOLEAN
  /\ {want, asked} \subseteq Wants
  /\ {asks, total, acts} \subseteq Nat
  /\ flying \subseteq [nr : Nat, of : Wants, found : 0 .. Unread]
  /\ shown \in Seq([of : Wants, rows : {0, 1}])

\* Nothing is under way: no request, no render, no debounce, no change.
Rest == /\ Answered /\ ~timer /\ ~changing
        /\ app = "console" => want = asked

\* A list at rest shows what its page, search field and filter ask for, as the
\* server has it after this client's own changes, whatever the order in which
\* requests were answered; and no page past the last one (the cancelled flag and
\* the step back of usePagedList, the sequence number of createPagedList).
ShownIsAsked ==
  Rest /\ ~failure =>
    /\ shown # <<>> /\ Last(shown).of = want
    /\ want.search = typed
    /\ total = found[Query(want)]
    /\ want.page > 1 /\ total > 0 => Last(shown).rows > 0

\* The pages of the mini program follow each other and are of one search and
\* one filter ("Append the next page", paged.ts).
PagesFollow ==
  app = "miniapp" /\ Rest /\ ~failure =>
    \A i \in DOMAIN shown \ {1} :
      /\ Query(shown[i].of) = Query(shown[1].of)
      /\ shown[i].of.page = shown[i - 1].of.page + 1

\* Only the latest request asks for what was asked last.
LatestAsks ==
  /\ \A f \in flying : f.nr <= asks /\ (IsLatest(f) => f.of = asked)
  /\ asked.reload <= want.reload

\* The state follows the search field, at the latest when the debounce is over,
\* and the mini program asks for it then.
FieldFollows ==
  /\ timer \/ want.search = typed
  /\ app = "miniapp" =>
       /\ want.search = typed /\ want.reload = asked.reload
       /\ timer \/ want = asked

\* The latest request was made after this client's last change.
UpToDate == ~changing /\ want.reload = asked.reload

\* Then its answer is true when it leaves the server, and so is the list; a page
\* past the last one is being stepped back from.
AnswersStand ==
  UpToDate =>
    /\ \A f \in flying : IsLatest(f) /\ f.found # Unread => f.found = found[Query(f.of)]
    /\ Answered /\ ~failure =>
         /\ shown # <<>> /\ Last(shown).of = asked
         /\ total = found[Query(asked)]
         /\ asked.page <= total => Last(shown).rows = 1
         /\ asked.page > 1 /\ total > 0 /\ asked.page > total
              => IF app = "console" THEN want.page < asked.page ELSE timer

ListIInv == ListTypeOK /\ LatestAsks /\ FieldFollows /\ AnswersStand

=============================================================================
