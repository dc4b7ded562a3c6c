----------------------------- MODULE ImportJob -----------------------------
(***************************************************************************)
(* Import jobs: rows of import_jobs, requests that create, confirm,        *)
(* re-analyse and cancel them, and the goroutines that analyse and commit  *)
(* them behind a semaphore, across crashes of the server.  What a commit   *)
(* writes is one transaction of the job's importer.                        *)
(***************************************************************************)
EXTENDS Naturals, FiniteSets

CONSTANTS
  ImportJobs,  \* rows of import_jobs (a bound)
  Operators,   \* requests served concurrently
  Workers,     \* goroutines (a bound)
  Slots,       \* capacity of the semaphore
  MaxOutages,  \* a bound
  MaxLost,     \* statements that have their effect and lose the answer (a bound)
  NoWork

ASSUME ImportJobAssumption ==
  /\ Slots \in Nat \ {0}
  /\ MaxOutages \in Nat /\ MaxLost \in Nat
  /\ Operators \cap Workers = {}
  /\ NoWork \notin [job : ImportJobs, kind : {"process", "reanalyze", "commit"},
                  at : {"sem", "mark", "run", "save", "finish", "fail"}, ok : BOOLEAN]

VARIABLES
  jobStatus,  \* of each job
  written,    \* jobs whose rows are in the business tables
  reqStep,    \* the next step of each request
  request,    \* what each request does: operation, jobs, status it read
  work,       \* the goroutines
  outages,
  failing,    \* whether statements may fail in this behaviour
  lost        \* answers that were lost so far

faults == <<outages, failing, lost>>
jobVars == <<jobStatus, written, reqStep, request, work, faults>>

JobStates == {"none", "pending", "processing", "preview", "succeeded", "failed", "cancelled"}
Inside == {"mark", "run", "save", "finish", "fail"}
Work == [job : ImportJobs, kind : {"process", "reanalyze", "commit"},
         at : {"sem"} \cup Inside, ok : BOOLEAN]
NoJobRequest == [op |-> "none", jobs |-> {}, from |-> "none"]
JobRequests == [op : {"none", "process", "reanalyze", "commit", "cancel"},
             jobs : SUBSET ImportJobs, from : JobStates]

JobsInit ==
  /\ jobStatus = [j \in ImportJobs |-> "none"]
  /\ written = {}
  /\ reqStep = [c \in Operators |-> "idle"]
  /\ request = [c \in Operators |-> NoJobRequest]
  /\ work = [w \in Workers |-> NoWork]
  /\ outages = 0
  /\ failing \in BOOLEAN
  /\ lost = 0

IdleWorkers == {w \in Workers : work[w] = NoWork}

\* Goroutines of the given kind, one for each job of J.
Spawn(J, kind) ==
  \E f \in [J -> IdleWorkers] :
    /\ \A i, j \in J : i # j => f[i] # f[j]
    /\ work' = [w \in Workers |->
                  IF \E j \in J : f[j] = w
                  THEN [job |-> CHOOSE j \in J : f[j] = w, kind |-> kind,
                        at |-> "sem", ok |-> FALSE]
                  ELSE work[w]]

----------------------------------------------------------------------------
(* Requests.                                                               *)

\* One INSERT, or one for each file of a split in a single transaction.
CreateJobs(c, J) ==
  /\ reqStep[c] = "idle" /\ J # {}
  /\ \A j \in J : jobStatus[j] = "none"
  /\ jobStatus' = [j \in ImportJobs |-> IF j \in J THEN "pending" ELSE jobStatus[j]]
  /\ reqStep' = [reqStep EXCEPT ![c] = "start"]
  /\ request' = [request EXCEPT ![c] = [op |-> "process", jobs |-> J, from |-> "none"]]
  /\ UNCHANGED <<written, work, faults>>

\* A handler loads the job and refuses it in the wrong state.
LoadJob(c, j, op, states) ==
  /\ reqStep[c] = "idle" /\ jobStatus[j] \in states
  /\ reqStep' = [reqStep EXCEPT ![c] = "claim"]
  /\ request' = [request EXCEPT ![c] = [op |-> op, jobs |-> {j}, from |-> jobStatus[j]]]
  /\ UNCHANGED <<jobStatus, written, work, faults>>

CommitJob(c, j) == LoadJob(c, j, "commit", {"preview", "failed"})
Reanalyze(c, j) == LoadJob(c, j, "reanalyze", {"preview"})
CancelJob(c, j) == LoadJob(c, j, "cancel", {"preview"})

EndRequest(c) ==
  /\ reqStep' = [reqStep EXCEPT ![c] = "idle"]
  /\ request' = [request EXCEPT ![c] = NoJobRequest]

\* Mistake: the UPDATE does not test the status that was read.
ClaimAny(c, j) ==
  /\ reqStep[c] = "claim" /\ j \in request[c].jobs /\ request[c].op # "cancel"
  /\ jobStatus' = [jobStatus EXCEPT ![j] = "processing"]
  /\ reqStep' = [reqStep EXCEPT ![c] = "start"]
  /\ UNCHANGED <<written, request, work, faults>>

\* MarkProcessing: UPDATE ... WHERE id AND status, else a conflict.
Claim(c, j) ==
  /\ reqStep[c] = "claim" /\ j \in request[c].jobs /\ request[c].op # "cancel"
  /\ \/ /\ jobStatus[j] = request[c].from
        /\ jobStatus' = [jobStatus EXCEPT ![j] = "processing"]
        /\ reqStep' = [reqStep EXCEPT ![c] = "start"]
        /\ UNCHANGED request
     \/ jobStatus[j] # request[c].from /\ EndRequest(c) /\ UNCHANGED jobStatus
  /\ UNCHANGED <<written, work, faults>>

\* Mistake: the UPDATE does not test that the job is still a preview.
CancelAny(c, j) ==
  /\ reqStep[c] = "claim" /\ j \in request[c].jobs /\ request[c].op = "cancel"
  /\ jobStatus' = [jobStatus EXCEPT ![j] = "cancelled"]
  /\ EndRequest(c)
  /\ UNCHANGED <<written, work, faults>>

Cancel(c, j) ==
  /\ reqStep[c] = "claim" /\ j \in request[c].jobs /\ request[c].op = "cancel"
  /\ jobStatus' = IF jobStatus[j] = "preview"
                  THEN [jobStatus EXCEPT ![j] = "cancelled"] ELSE jobStatus
  /\ EndRequest(c)
  /\ UNCHANGED <<written, work, faults>>

StartWorkers(c) ==
  /\ reqStep[c] = "start"
  /\ Spawn(request[c].jobs, request[c].op)
  /\ EndRequest(c)
  /\ UNCHANGED <<jobStatus, written, faults>>

\* One statement more has its effect without its answer.
LoseAnswer ==
  /\ failing /\ lost < MaxLost
  /\ lost' = lost + 1
  /\ UNCHANGED <<outages, failing>>

\* The statement fails; or the jobs are there and reading them back fails; or
\* the claim is made and its answer is lost.
DropRequest(c) ==
  /\ \/ /\ reqStep[c] = "claim" \/ (reqStep[c] = "start" /\ request[c].op = "process")
        /\ failing /\ UNCHANGED faults
     \/ reqStep[c] = "start" /\ request[c].op # "process" /\ LoseAnswer
  /\ EndRequest(c)
  /\ UNCHANGED <<jobStatus, written, work>>

----------------------------------------------------------------------------
(* Goroutines.                                                             *)

MoveWork(w, step) == work' = [work EXCEPT ![w].at = step]
EndWork(w) == work' = [work EXCEPT ![w] = NoWork]

\* A statement of w that sets its job's status: it may fail, and then it may
\* have had its effect.
SetStatus(w, st, next, onError) ==
  \/ jobStatus' = [jobStatus EXCEPT ![work[w].job] = st] /\ next /\ UNCHANGED faults
  \/ failing /\ onError /\ UNCHANGED <<jobStatus, faults>>
  \/ jobStatus' = [jobStatus EXCEPT ![work[w].job] = st] /\ onError /\ LoseAnswer

Running(w, step) == work[w] # NoWork /\ work[w].at = step

\* sem <- struct{}{}
Acquire(w) ==
  /\ Running(w, "sem")
  /\ Cardinality({v \in Workers : work[v] # NoWork /\ work[v].at \in Inside}) < Slots
  /\ MoveWork(w, IF work[w].kind = "process" THEN "mark" ELSE "run")
  /\ UNCHANGED <<jobStatus, written, reqStep, request, faults>>

\* Only the first worker of a pending job goes on.
MarkProcessing(w) ==
  /\ Running(w, "mark")
  /\ IF jobStatus[work[w].job] = "pending"
     THEN SetStatus(w, "processing", MoveWork(w, "run"), MoveWork(w, "fail"))
     ELSE EndWork(w) /\ UNCHANGED <<jobStatus, faults>>
  /\ UNCHANGED <<written, reqStep, request>>

\* The dry run, which may fail or panic.
Analyze(w) ==
  /\ Running(w, "run") /\ work[w].kind # "commit"
  /\ MoveWork(w, "save") \/ MoveWork(w, "fail")
  /\ UNCHANGED <<jobStatus, written, reqStep, request, faults>>

\* Mistake: whatever Commit returns, the job has succeeded.
CommitUnjudged(w) ==
  /\ Running(w, "run") /\ work[w].kind = "commit"
  /\ \/ written' = written \cup {work[w].job}
     \/ UNCHANGED written
  /\ work' = [work EXCEPT ![w].at = "finish", ![w].ok = TRUE]
  /\ UNCHANGED <<jobStatus, reqStep, request, faults>>

\* The importer's transaction: it commits, it does not (an error, or no valid
\* row), or it does and the answer is lost; or the code panics before.
CommitRows(w) ==
  /\ Running(w, "run") /\ work[w].kind = "commit"
  /\ \/ /\ written' = written \cup {work[w].job}
        /\ \/ work' = [work EXCEPT ![w].at = "finish", ![w].ok = TRUE] /\ UNCHANGED faults
           \/ MoveWork(w, "finish") /\ LoseAnswer
     \/ (MoveWork(w, "finish") \/ MoveWork(w, "fail")) /\ UNCHANGED <<written, faults>>
  /\ UNCHANGED <<jobStatus, reqStep, request>>

\* An error of SavePreview leads to finishFail, one of Finish to a log line.
SavePreview(w) ==
  /\ Running(w, "save")
  /\ SetStatus(w, "preview", EndWork(w), MoveWork(w, "fail"))
  /\ UNCHANGED <<written, reqStep, request>>

FinishJob(w) ==
  /\ Running(w, "finish")
  /\ SetStatus(w, IF work[w].ok THEN "succeeded" ELSE "failed", EndWork(w), EndWork(w))
  /\ UNCHANGED <<written, reqStep, request>>

\* Mistake: a failure is only logged.
FailureLogged(w) ==
  /\ Running(w, "fail")
  /\ EndWork(w)
  /\ UNCHANGED <<jobStatus, written, reqStep, request, faults>>

FinishFail(w) ==
  /\ Running(w, "fail")
  /\ SetStatus(w, "failed", EndWork(w), EndWork(w))
  /\ UNCHANGED <<written, reqStep, request>>

----------------------------------------------------------------------------
(* Crash and restart, which recovers before it serves requests.            *)

RecoverStale(failed, requeued) ==
  /\ jobStatus' = [j \in ImportJobs |-> IF j \in failed THEN "failed" ELSE jobStatus[j]]
  /\ \E f \in [requeued -> Workers] :
       /\ \A i, j \in requeued : i # j => f[i] # f[j]
       /\ work' = [w \in Workers |->
                     IF \E j \in requeued : f[j] = w
                     THEN [job |-> CHOOSE j \in requeued : f[j] = w, kind |-> "process",
                           at |-> "sem", ok |-> FALSE]
                     ELSE NoWork]

CrashServer ==
  LET in(st) == {j \in ImportJobs : jobStatus[j] = st} IN
  /\ outages < MaxOutages
  /\ outages' = outages + 1
  /\ reqStep' = [c \in Operators |-> "idle"]
  /\ request' = [c \in Operators |-> NoJobRequest]
  /\ \/ RecoverStale(in("processing"), in("pending"))
     \/ failing /\ (RecoverStale({}, {}) \/ RecoverStale(in("processing"), {}))
  /\ UNCHANGED <<written, failing, lost>>

NewRequest(c) ==
  \/ \E J \in SUBSET ImportJobs : CreateJobs(c, J)
  \/ \E j \in ImportJobs : CommitJob(c, j) \/ Reanalyze(c, j) \/ CancelJob(c, j)

Answering(c) == StartWorkers(c) \/ \E j \in ImportJobs : Claim(c, j) \/ Cancel(c, j)

WorkStep(w) ==
  \/ MarkProcessing(w) \/ Analyze(w) \/ CommitRows(w)
  \/ SavePreview(w) \/ FinishJob(w) \/ FinishFail(w)

JobsNext ==
  \/ \E c \in Operators : NewRequest(c) \/ Answering(c) \/ DropRequest(c)
  \/ \E w \in Workers : Acquire(w) \/ WorkStep(w)
  \/ CrashServer

JobsSpec == JobsInit /\ [][JobsNext]_jobVars

\* Go runs every goroutine, serves the senders of a channel in order, and the
\* handlers go on with the requests they began.
JobsFairness ==
  /\ \A c \in Operators : WF_jobVars(Answering(c))
  /\ \A w \in Workers : WF_jobVars(WorkStep(w)) /\ SF_jobVars(Acquire(w))

JobsFairSpec == JobsSpec /\ JobsFairness

----------------------------------------------------------------------------
(* Properties.                                                             *)

JobsTypeOK ==
  /\ jobStatus \in [ImportJobs -> JobStates]
  /\ written \subseteq ImportJobs
  /\ reqStep \in [Operators -> {"idle", "claim", "start"}]
  /\ request \in [Operators -> JobRequests]
  /\ \A c \in Operators : reqStep[c] = "idle" <=> request[c].op = "none"
  /\ work \in [Workers -> Work \cup {NoWork}]
  /\ outages \in 0..MaxOutages
  /\ failing \in BOOLEAN
  /\ lost \in 0..MaxLost

\* Who has a job in hand: a goroutine, or a request about to start one.
Holders(j) ==
  {w \in Workers : work[w] # NoWork /\ work[w].job = j}
    \cup {c \in Operators : reqStep[c] = "start" /\ j \in request[c].jobs}

\* A job is in the hands of one goroutine at a time: a confirmation, a
\* re-analysis, a cancellation and a requeue never work on it together
\* (importer/store.go MarkProcessing, Cancel).
OneHolder == lost = 0 => \A j \in ImportJobs : \A x, y \in Holders(j) : x = y

\* "Preview does not write": whatever races, only a job that was confirmed has
\* rows in the business tables, and a job that was cancelled has none.
OnlyConfirmedWrites ==
  lost = 0 =>
    \A j \in written : jobStatus[j] \in {"processing", "succeeded", "failed"}

\* The status succeeded is never shown for a job that wrote nothing
\* (importer/handler.go runCommit).
SucceededWrote == \A j \in ImportJobs : jobStatus[j] = "succeeded" => j \in written

\* A verdict is true both ways (importer/handler.go runCommit): a job that shows
\* success wrote, and until an answer is lost or the server restarts, a job that
\* failed did not, so that confirming it again, whoever races for it, never
\* writes its rows a second time.
VerdictIsTrue ==
  /\ SucceededWrote
  /\ lost = 0 /\ outages = 0 =>
       /\ \A j \in ImportJobs : jobStatus[j] = "failed" => j \notin written
       /\ \A w \in Workers : work[w] # NoWork /\ work[w].at = "run" => work[w].job \notin written

\* The steps a goroutine takes, and what it knows when it succeeds.
WorkShape(w) ==
  LET k == work[w] IN
  k # NoWork =>
    /\ k.at = "mark" => k.kind = "process"
    /\ k.at = "save" => k.kind # "commit"
    /\ k.at = "finish" => k.kind = "commit"
    /\ k.ok => k.at = "finish" /\ k.job \in written

\* A goroutine's job is in the state the goroutine left it in.
HeldState(w) ==
  LET k == work[w] IN
  k # NoWork =>
    /\ k.kind = "process" /\ k.at \in {"sem", "mark"} => jobStatus[k.job] = "pending"
    /\ k.at \in {"run", "save", "finish"} => jobStatus[k.job] = "processing"
    /\ k.kind # "process" => jobStatus[k.job] = "processing"
    /\ k.at = "fail" => jobStatus[k.job] \in {"pending", "processing"}
    /\ k.kind # "commit" => k.job \notin written

\* A request works on what it read and claimed.
RequestState(c) ==
  /\ reqStep[c] = "claim" =>
       /\ \E j \in ImportJobs : request[c].jobs = {j}
       /\ request[c].from \in {"preview", "failed"} /\ request[c].op # "process"
       /\ request[c].op = "reanalyze" => request[c].from = "preview"
  /\ reqStep[c] = "start" =>
       \A j \in request[c].jobs :
         /\ jobStatus[j] = IF request[c].op = "process" THEN "pending" ELSE "processing"
         /\ request[c].op # "commit" => j \notin written

\* A verdict is honest whatever gets lost.
Honest ==
  /\ SucceededWrote
  /\ \A w \in Workers : WorkShape(w)
  /\ \A c \in Operators : reqStep[c] = "start" => request[c].op # "cancel"

\* While no answer is lost a job's status says who has it in hand.
InHand ==
  /\ OneHolder /\ OnlyConfirmedWrites
  /\ \A w \in Workers : HeldState(w)
  /\ \A c \in Operators : RequestState(c)

\* Until an answer is lost or the server restarts, only the goroutine that wrote
\* a job's rows, and the verdict it leaves, come after them.
Untouched ==
  lost = 0 /\ outages = 0 =>
    /\ \A j \in ImportJobs : jobStatus[j] = "failed" => j \notin written
    /\ \A w \in Workers : work[w] # NoWork /\ ~work[w].ok => work[w].job \notin written
    /\ \A c \in Operators :
         reqStep[c] = "start" => request[c].jobs \cap written = {}

\* The inductive invariant.
JobsIInv == JobsTypeOK /\ Honest /\ (lost = 0 => InHand)

\* While statements work, every job that was accepted reaches its preview, and
\* every confirmed one an end, also across crashes: pending jobs are requeued,
\* stale ones fail (importer/handler.go RecoverStale).
EventuallyAnswered ==
  \A j \in ImportJobs : ~failing /\ jobStatus[j] \in {"pending", "processing"} ~>
                  jobStatus[j] \notin {"pending", "processing"}
=============================================================================
