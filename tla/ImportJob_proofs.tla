-------------------------- MODULE ImportJob_proofs --------------------------
(***************************************************************************)
(* Proofs about ImportJob, for every set of jobs, requests and goroutines  *)
(* and any number of crashes and lost answers: verdicts are honest, and    *)
(* while no answer is lost a job is in the hands of one goroutine, and     *)
(* what was not confirmed is not written.                                  *)
(***************************************************************************)
EXTENDS ImportJob, TLAPS

\* A running goroutine is a record.
LEMMA AtWork ==
  ASSUME JobsTypeOK, NEW w \in Workers, work[w] # NoWork
  PROVE  work[w] \in Work
BY DEF JobsTypeOK

\* Goroutines and requests are different things.
LEMMA Apart == ASSUME NEW w \in Workers, NEW c \in Operators PROVE w # c
BY ImportJobAssumption

\* Without jobs the invariant holds.
LEMMA JobsInitInductive == JobsInit => JobsIInv
<1> SUFFICES ASSUME JobsInit PROVE JobsIInv
  OBVIOUS
<1>1. JobsTypeOK
  BY ImportJobAssumption DEF JobsInit, JobsTypeOK, JobStates, JobRequests, NoJobRequest
<1>2. Honest
  BY DEF JobsInit, Honest, SucceededWrote, WorkShape
<1>3. InHand
  BY DEF JobsInit, InHand, OneHolder, OnlyConfirmedWrites, HeldState, RequestState, Holders
<1> QED BY <1>1, <1>2, <1>3 DEF JobsIInv

\* Goroutines are started for the jobs of a request.
LEMMA SpawnType ==
  ASSUME JobsTypeOK, NEW J \in SUBSET ImportJobs,
         NEW kind \in {"process", "reanalyze", "commit"}, Spawn(J, kind)
  PROVE  /\ work' \in [Workers -> Work \cup {NoWork}]
         /\ \A w \in Workers :
              \/ work'[w] = work[w]
              \/ /\ work[w] = NoWork
                 /\ \E j \in J : work'[w] = [job |-> j, kind |-> kind, at |-> "sem", ok |-> FALSE]
         /\ \A v, w \in Workers :
              v # w /\ work'[v] # NoWork /\ work'[w] # NoWork /\ work'[v].job = work'[w].job
                => work'[v] = work[v] \/ work'[w] = work[w]
<1>1. PICK f \in [J -> IdleWorkers] :
        /\ \A i, j \in J : i # j => f[i] # f[j]
        /\ work' = [w \in Workers |->
                      IF \E j \in J : f[j] = w
                      THEN [job |-> CHOOSE j \in J : f[j] = w, kind |-> kind,
                            at |-> "sem", ok |-> FALSE]
                      ELSE work[w]]
  BY DEF Spawn
<1>2. ASSUME NEW w \in Workers, NEW j \in J, f[j] = w
      PROVE  /\ work[w] = NoWork
             /\ work'[w] = [job |-> j, kind |-> kind, at |-> "sem", ok |-> FALSE]
  <2>1. (CHOOSE i \in J : f[i] = w) = j
    BY <1>1, <1>2
  <2> QED BY <1>1, <1>2, <2>1 DEF IdleWorkers
<1>3. ASSUME NEW w \in Workers, ~\E j \in J : f[j] = w PROVE work'[w] = work[w]
  BY <1>1, <1>3
<1>4. \A w \in Workers : work'[w] \in Work \cup {NoWork}
  <2> SUFFICES ASSUME NEW w \in Workers PROVE work'[w] \in Work \cup {NoWork}
    OBVIOUS
  <2>1. CASE \E j \in J : f[j] = w
    <3>1. PICK j \in J : f[j] = w
      BY <2>1
    <3>2. [job |-> j, kind |-> kind, at |-> "sem", ok |-> FALSE] \in Work
      BY DEF Work
    <3> QED BY <3>1, <3>2, <1>2
  <2>2. CASE ~\E j \in J : f[j] = w
    BY <2>2, <1>3 DEF JobsTypeOK
  <2> QED BY <2>1, <2>2
<1> QED BY <1>1, <1>2, <1>3, <1>4

\* Requests that only read, and the rows of new jobs.
LEMMA NewRequestStep ==
  ASSUME JobsIInv, NEW c \in Operators, NewRequest(c)
  PROVE  JobsIInv'
<1> USE DEF JobsIInv, JobsTypeOK
<1>1. ASSUME NEW J \in SUBSET ImportJobs, CreateJobs(c, J)
      PROVE  JobsIInv'
  <2> USE <1>1 DEF CreateJobs, faults
  <2>1. JobsTypeOK'
    BY DEF JobStates, JobRequests
  <2>2. Honest'
    BY DEF Honest, SucceededWrote, WorkShape
  <2>3. ASSUME lost = 0 PROVE InHand'
    <3>1. \A j \in J : Holders(j) = {}
      BY <2>3, AtWork DEF InHand, HeldState, RequestState, Holders, Work, Inside, Honest, WorkShape
    <3>2. OneHolder'
      BY <2>3, <3>1 DEF InHand, OneHolder, Holders
    <3>3. OnlyConfirmedWrites' /\ J \cap written = {}
      BY <2>3 DEF InHand, OnlyConfirmedWrites
    <3>4. \A w \in Workers : HeldState(w)'
      BY <2>3, AtWork DEF InHand, HeldState, Work, Inside
    <3>5. \A d \in Operators : RequestState(d)'
      <4>1. RequestState(c)'
        BY <2>3, <3>3 DEF RequestState
      <4>2. ASSUME NEW d \in Operators, d # c PROVE RequestState(d)'
        <5>1. RequestState(d) /\ request[d].jobs \subseteq ImportJobs
          BY <2>3 DEF InHand, JobRequests
        <5>2. reqStep'[d] = reqStep[d] /\ request'[d] = request[d]
          BY <4>2
        <5>3. reqStep[d] = "start" => \A i \in request[d].jobs : jobStatus'[i] = jobStatus[i]
          BY <5>1 DEF RequestState
        <5> QED BY <5>1, <5>2, <5>3 DEF RequestState
      <4> QED BY <4>1, <4>2
    <3> QED BY <3>2, <3>3, <3>4, <3>5 DEF InHand
  <2> QED BY <2>1, <2>2, <2>3
<1>2. ASSUME NEW j \in ImportJobs, NEW op \in {"commit", "reanalyze", "cancel"},
             NEW states \in {{"preview", "failed"}, {"preview"}}, LoadJob(c, j, op, states),
             op = "reanalyze" => states = {"preview"}
      PROVE  JobsIInv'
  <2> USE <1>2 DEF LoadJob, faults
  <2>1. JobsTypeOK'
    BY DEF JobStates, JobRequests
  <2>2. Honest'
    BY DEF Honest, SucceededWrote, WorkShape
  <2>3. ASSUME lost = 0 PROVE InHand'
    <3>1. OneHolder'
      BY <2>3 DEF InHand, OneHolder, Holders
    <3>2. \A d \in Operators : RequestState(d)'
      <4>1. RequestState(c)'
        <5>1. jobStatus[j] \in {"preview", "failed"} /\ request'[c].jobs = {j}
          BY <1>2
        <5>2. reqStep'[c] = "claim" /\ request'[c].from = jobStatus[j] /\ request'[c].op = op
          BY <1>2
        <5> QED BY <5>1, <5>2 DEF RequestState
      <4>2. ASSUME NEW d \in Operators, d # c PROVE RequestState(d)'
        BY <2>3, <4>2 DEF InHand, RequestState
      <4> QED BY <4>1, <4>2
    <3>3. OnlyConfirmedWrites' /\ \A w \in Workers : HeldState(w)'
      BY <2>3 DEF InHand, HeldState, OnlyConfirmedWrites
    <3> QED BY <3>1, <3>2, <3>3 DEF InHand
  <2> QED BY <2>1, <2>2, <2>3
<1>3. ASSUME NEW j \in ImportJobs, CommitJob(c, j) \/ Reanalyze(c, j) \/ CancelJob(c, j)
      PROVE  JobsIInv'
  BY <1>2, <1>3 DEF CommitJob, Reanalyze, CancelJob
<1> QED BY <1>1, <1>3 DEF NewRequest

\* What a request knows of its jobs stays true while they are left alone.
LEMMA RequestKept ==
  ASSUME NEW d \in Operators, RequestState(d),
         reqStep'[d] = reqStep[d], request'[d] = request[d],
         reqStep[d] = "start" =>
           \A i \in request[d].jobs :
             jobStatus'[i] = jobStatus[i] /\ (i \in written' => i \in written)
  PROVE  RequestState(d)'
BY DEF RequestState

\* So does what a goroutine knows.
LEMMA WorkKept ==
  ASSUME NEW w \in Workers, HeldState(w), work'[w] = work[w],
         work[w] # NoWork => /\ jobStatus'[work[w].job] = jobStatus[work[w].job]
                             /\ work[w].job \in written' <=> work[w].job \in written
  PROVE  HeldState(w)'
BY DEF HeldState

\* Nobody has a job in hand that is neither pending nor processing.
LEMMA Unheld ==
  ASSUME JobsTypeOK, Honest, InHand, NEW j \in ImportJobs,
         jobStatus[j] \notin {"pending", "processing"}
  PROVE  Holders(j) = {}
BY AtWork DEF InHand, HeldState, RequestState, Holders, Work, Inside, Honest, WorkShape, JobsTypeOK

\* The steps of a request.
LEMMA AnswerStep ==
  ASSUME JobsIInv, NEW c \in Operators, Answering(c) \/ DropRequest(c)
  PROVE  JobsIInv'
<1> USE DEF JobsIInv, JobsTypeOK
<1>1. ASSUME NEW j \in ImportJobs, Claim(c, j) PROVE JobsIInv'
  <2> USE <1>1 DEF Claim, EndRequest, NoJobRequest, faults
  <2>1. JobsTypeOK'
    BY DEF JobStates, JobRequests
  <2>2. Honest'
    BY DEF Honest, SucceededWrote, WorkShape
  <2>3. ASSUME lost = 0 PROVE InHand'
    <3>1. CASE jobStatus[j] = request[c].from
      <4>1. /\ request[c].jobs = {j} /\ jobStatus[j] \in {"preview", "failed"}
            /\ request[c].op \in {"commit", "reanalyze"}
            /\ request[c].op = "reanalyze" => jobStatus[j] = "preview"
        BY <2>3, <3>1 DEF InHand, RequestState, JobRequests
      <4>2. /\ jobStatus' = [jobStatus EXCEPT ![j] = "processing"]
            /\ reqStep' = [reqStep EXCEPT ![c] = "start"]
            /\ request' = request /\ work' = work /\ written' = written
        BY <3>1
      <4>3. Holders(j) = {}
        BY <2>3, <4>1, Unheld
      <4>4. Holders(j)' \subseteq {c}
        BY <4>2, <4>3 DEF Holders
      <4>5. \A i \in ImportJobs \ {j} : Holders(i)' = Holders(i)
        BY <4>1, <4>2 DEF Holders
      <4>6. OneHolder'
        BY <2>3, <4>4, <4>5 DEF InHand, OneHolder
      <4>7. OnlyConfirmedWrites'
        BY <2>3, <4>2 DEF InHand, OnlyConfirmedWrites
      <4>8. ASSUME NEW w \in Workers PROVE HeldState(w)'
        <5>1. work[w] # NoWork => work[w].job # j
          BY <4>3 DEF Holders
        <5> QED BY <2>3, <4>2, <5>1, WorkKept DEF InHand
      <4>9. ASSUME NEW d \in Operators PROVE RequestState(d)'
        <5>1. CASE d = c
          <6>1. request[c].op = "reanalyze" => j \notin written
            BY <2>3, <4>1 DEF InHand, OnlyConfirmedWrites
          <6> QED BY <4>1, <4>2, <5>1, <6>1 DEF RequestState
        <5>2. CASE d # c
          <6>1. reqStep[d] = "start" => j \notin request[d].jobs
            BY <4>3 DEF Holders
          <6> QED BY <2>3, <4>2, <5>2, <6>1, RequestKept DEF InHand
        <5> QED BY <5>1, <5>2
      <4> QED BY <4>6, <4>7, <4>8, <4>9 DEF InHand
    <3>2. CASE jobStatus[j] # request[c].from
      <4>1. OneHolder'
        BY <2>3, <3>2 DEF InHand, OneHolder, Holders
      <4>2. OnlyConfirmedWrites' /\ \A w \in Workers : HeldState(w)'
        BY <2>3, <3>2 DEF InHand, HeldState, OnlyConfirmedWrites
      <4>3. \A d \in Operators : RequestState(d)'
        BY <2>3, <3>2 DEF InHand, RequestState
      <4> QED BY <4>1, <4>2, <4>3 DEF InHand
    <3> QED BY <3>1, <3>2
  <2> QED BY <2>1, <2>2, <2>3
<1>2. ASSUME NEW j \in ImportJobs, Cancel(c, j) PROVE JobsIInv'
  <2> USE <1>2 DEF Cancel, EndRequest, NoJobRequest, faults
  <2>1. JobsTypeOK'
    BY DEF JobStates, JobRequests
  <2>2. Honest'
    BY DEF Honest, SucceededWrote, WorkShape
  <2>3. ASSUME lost = 0 PROVE InHand'
    <3>1. jobStatus'[j] # jobStatus[j] => Holders(j) = {} /\ j \notin written
      BY <2>3, Unheld DEF InHand, OnlyConfirmedWrites
    <3>2. \A i \in ImportJobs \ {j} : jobStatus'[i] = jobStatus[i]
      OBVIOUS
    <3>3. OneHolder'
      BY <2>3 DEF InHand, OneHolder, Holders
    <3>4. OnlyConfirmedWrites'
      BY <2>3, <3>1, <3>2 DEF InHand, OnlyConfirmedWrites
    <3>5. ASSUME NEW w \in Workers PROVE HeldState(w)'
      <4>1. work[w] # NoWork => work[w] \in Work
        BY AtWork
      <4>2. work[w] # NoWork => jobStatus'[work[w].job] = jobStatus[work[w].job]
        BY <3>1, <3>2, <4>1 DEF Holders, Work
      <4> QED BY <2>3, <4>2, WorkKept DEF InHand
    <3>6. ASSUME NEW d \in Operators PROVE RequestState(d)'
      <4>1. CASE d = c
        BY <4>1 DEF RequestState
      <4>2. CASE d # c
        <5>1. request[d].jobs \subseteq ImportJobs
          BY DEF JobRequests
        <5>2. reqStep[d] = "start" =>
                \A i \in request[d].jobs : jobStatus'[i] = jobStatus[i]
          BY <3>1, <3>2, <5>1 DEF Holders
        <5> QED BY <2>3, <4>2, <5>2, RequestKept DEF InHand
      <4> QED BY <4>1, <4>2
    <3> QED BY <3>3, <3>4, <3>5, <3>6 DEF InHand
  <2> QED BY <2>1, <2>2, <2>3
<1>3. CASE StartWorkers(c)
  <2> DEFINE J == request[c].jobs
             kind == request[c].op
  <2>1. J \in SUBSET ImportJobs /\ kind \in {"process", "reanalyze", "commit"}
    BY <1>3 DEF StartWorkers, Honest, JobRequests
  <2>2. Spawn(J, kind)
    BY <1>3 DEF StartWorkers
  <2>3. /\ reqStep[c] = "start"
        /\ reqStep' = [reqStep EXCEPT ![c] = "idle"]
        /\ request' = [request EXCEPT ![c] = NoJobRequest]
        /\ jobStatus' = jobStatus /\ written' = written
        /\ outages' = outages /\ failing' = failing /\ lost' = lost
    BY <1>3 DEF StartWorkers, EndRequest, faults
  <2> HIDE DEF J, kind
  <2>4. /\ work' \in [Workers -> Work \cup {NoWork}]
        /\ \A w \in Workers :
             \/ work'[w] = work[w]
             \/ /\ work[w] = NoWork
                /\ \E j \in J : work'[w] = [job |-> j, kind |-> kind, at |-> "sem", ok |-> FALSE]
        /\ \A v, w \in Workers :
             v # w /\ work'[v] # NoWork /\ work'[w] # NoWork /\ work'[v].job = work'[w].job
               => work'[v] = work[v] \/ work'[w] = work[w]
    BY <2>1, <2>2, SpawnType
  <2>5. JobsTypeOK'
    BY <2>3, <2>4 DEF JobRequests, NoJobRequest, JobStates
  <2>6. Honest'
    <3>1. \A w \in Workers : WorkShape(w)'
      BY <2>3, <2>4 DEF Honest, WorkShape
    <3> QED BY <2>3, <3>1 DEF Honest, SucceededWrote
  <2>7. ASSUME lost = 0 PROVE InHand'
    <3>1. \A j \in J : c \in Holders(j) /\ Holders(j) \subseteq {c}
      BY <2>1, <2>3, <2>7 DEF J, Holders, InHand, OneHolder
    <3>2. \A j \in J : \A w \in Workers : work[w] # NoWork => work[w].job # j
      BY <3>1, Apart DEF Holders
    <3>3. \A j \in J : \A d \in Operators \ {c} : ~(reqStep[d] = "start" /\ j \in request[d].jobs)
      BY <3>1 DEF Holders
    <3>4. ASSUME NEW j \in ImportJobs, NEW x \in Holders(j)', NEW y \in Holders(j)' PROVE x = y
      <4>1. CASE j \in J
        <5>1. x \in Workers /\ work'[x] # work[x] /\ work'[x] # NoWork /\ work'[x].job = j
          BY <2>3, <3>2, <3>3, <3>4, <4>1 DEF Holders, NoJobRequest
        <5>2. y \in Workers /\ work'[y] # work[y] /\ work'[y] # NoWork /\ work'[y].job = j
          BY <2>3, <3>2, <3>3, <3>4, <4>1 DEF Holders, NoJobRequest
        <5> QED BY <2>4, <5>1, <5>2
      <4>2. CASE j \notin J
        <5>1. Holders(j)' \subseteq Holders(j)
          BY <2>3, <2>4, <4>2 DEF Holders, NoJobRequest
        <5> QED BY <2>7, <5>1, <3>4 DEF InHand, OneHolder
      <4> QED BY <4>1, <4>2
    <3>5. OneHolder'
      BY <3>4 DEF OneHolder
    <3>6. OnlyConfirmedWrites'
      BY <2>3, <2>7 DEF InHand, OnlyConfirmedWrites
    <3>7. ASSUME NEW w \in Workers PROVE HeldState(w)'
      <4>1. CASE work'[w] = work[w]
        BY <2>3, <2>7, <4>1, WorkKept DEF InHand
      <4>2. ASSUME NEW j \in J,
                   work'[w] = [job |-> j, kind |-> kind, at |-> "sem", ok |-> FALSE]
            PROVE  HeldState(w)'
        <5>1. /\ jobStatus[j] = IF kind = "process" THEN "pending" ELSE "processing"
              /\ kind # "commit" => j \notin written
          BY <2>3, <2>7, <4>2 DEF InHand, RequestState, J, kind
        <5> QED BY <2>3, <4>2, <5>1 DEF HeldState
      <4> QED BY <2>4, <4>1, <4>2
    <3>8. ASSUME NEW d \in Operators PROVE RequestState(d)'
      BY <2>3, <2>7 DEF InHand, RequestState, NoJobRequest
    <3> QED BY <3>5, <3>6, <3>7, <3>8 DEF InHand
  <2> QED BY <2>3, <2>5, <2>6, <2>7
<1>4. CASE DropRequest(c)
  <2> USE <1>4 DEF DropRequest, EndRequest, NoJobRequest, faults, LoseAnswer
  <2>1. JobsTypeOK'
    BY ImportJobAssumption DEF JobStates, JobRequests
  <2>2. Honest'
    BY DEF Honest, SucceededWrote, WorkShape
  <2>3. ASSUME lost' = 0 PROVE InHand'
    <3>0. lost = 0
      BY <2>3
    <3>1. OneHolder'
      BY <3>0 DEF InHand, OneHolder, Holders
    <3>2. OnlyConfirmedWrites' /\ \A w \in Workers : HeldState(w)'
      BY <3>0 DEF InHand, HeldState, OnlyConfirmedWrites
    <3>3. \A d \in Operators : RequestState(d)'
      BY <3>0 DEF InHand, RequestState
    <3> QED BY <3>1, <3>2, <3>3 DEF InHand
  <2> QED BY <2>1, <2>2, <2>3
<1> QED BY <1>1, <1>2, <1>3, <1>4 DEF Answering

\* A step of a goroutine that keeps to its own job disturbs nobody else.
LEMMA WorkerTurn ==
  ASSUME JobsTypeOK, lost = 0, InHand,
         NEW w \in Workers, work[w] # NoWork, NEW k \in Work \cup {NoWork},
         work' = [work EXCEPT ![w] = k], k # NoWork => k.job = work[w].job,
         reqStep' = reqStep, request' = request,
         \A i \in ImportJobs \ {work[w].job} :
           jobStatus'[i] = jobStatus[i] /\ (i \in written' <=> i \in written),
         written' \subseteq ImportJobs,
         work[w].job \in written' =>
           jobStatus'[work[w].job] \in {"processing", "succeeded", "failed"},
         HeldState(w)'
  PROVE  InHand'
<1> DEFINE j == work[w].job
<1>1. j \in ImportJobs /\ w \in Holders(j)
  BY AtWork DEF Work, Holders
<1>2. Holders(j) \subseteq {w}
  BY <1>1 DEF InHand, OneHolder
<1>3. \A v \in Workers \ {w} : work'[v] = work[v] /\ (work[v] # NoWork => work[v].job # j)
  BY <1>2 DEF Holders, JobsTypeOK
<1>4. \A d \in Operators : reqStep[d] = "start" => j \notin request[d].jobs
  BY <1>2, Apart DEF Holders
<1>5. OneHolder'
  <2>1. \A i \in ImportJobs : Holders(i)' \subseteq Holders(i)
    BY <1>1 DEF Holders, JobsTypeOK
  <2> QED BY <2>1 DEF InHand, OneHolder
<1>6. OnlyConfirmedWrites'
  BY DEF InHand, OnlyConfirmedWrites
<1>7. ASSUME NEW v \in Workers PROVE HeldState(v)'
  <2>1. CASE v = w
    BY <2>1
  <2>2. CASE v # w
    <3>1. work[v] # NoWork => work[v].job \in ImportJobs \ {j}
      BY <1>3, <2>2, AtWork DEF Work
    <3> QED BY <1>3, <2>2, <3>1, WorkKept DEF InHand
  <2> QED BY <2>1, <2>2
<1>8. ASSUME NEW d \in Operators PROVE RequestState(d)'
  <2>1. reqStep[d] = "start" => request[d].jobs \subseteq ImportJobs \ {j}
    BY <1>4 DEF JobsTypeOK, JobRequests
  <2> QED BY <2>1, RequestKept DEF InHand
<1> QED BY <1>5, <1>6, <1>7, <1>8 DEF InHand

\* A statement that sets a job's status, its failure and the loss of its answer.
LEMMA StatusStep ==
  ASSUME JobsIInv, NEW w \in Workers, work[w] # NoWork,
         NEW st \in {"processing", "preview", "succeeded", "failed"},
         NEW k \in Work \cup {NoWork}, NEW e \in Work \cup {NoWork},
         SetStatus(w, st, work' = [work EXCEPT ![w] = k], work' = [work EXCEPT ![w] = e]),
         UNCHANGED <<written, reqStep, request>>,
         st = "succeeded" => work[w].ok,
         k # NoWork => k.job = work[w].job /\ ~k.ok /\ st = "processing" /\ k.at = "run"
                       /\ k.kind = "process" /\ work[w].kind = "process",
         e # NoWork => e.job = work[w].job /\ ~e.ok /\ e.at = "fail"
                       /\ work[w].kind # "commit" /\ work[w].at \in {"mark", "save"}
                       /\ e.kind = work[w].kind,
         lost = 0 /\ st = "preview" => work[w].job \notin written
  PROVE  JobsIInv'
<1> USE DEF JobsIInv, JobsTypeOK
<1> DEFINE j == work[w].job
<1>1. j \in ImportJobs
  BY AtWork DEF Work
<1>2. /\ jobStatus' = [jobStatus EXCEPT ![j] = st] \/ jobStatus' = jobStatus
      /\ work' = [work EXCEPT ![w] = k] \/ work' = [work EXCEPT ![w] = e]
      /\ lost' = 0 => lost = 0
      /\ outages' = outages /\ failing' = failing /\ lost' \in 0..MaxLost
      /\ lost' = 0 =>
           \/ jobStatus' = [jobStatus EXCEPT ![j] = st] /\ work' = [work EXCEPT ![w] = k]
           \/ jobStatus' = jobStatus /\ work' = [work EXCEPT ![w] = e]
  BY ImportJobAssumption DEF SetStatus, LoseAnswer, faults
<1>3. JobsTypeOK'
  BY <1>1, <1>2 DEF JobStates
<1>4. Honest'
  <2>1. SucceededWrote'
    <3> SUFFICES ASSUME NEW i \in ImportJobs, jobStatus'[i] = "succeeded" PROVE i \in written
      BY DEF SucceededWrote
    <3>1. CASE jobStatus'[i] = jobStatus[i]
      BY <3>1 DEF Honest, SucceededWrote, WorkShape
    <3>2. CASE jobStatus'[i] # jobStatus[i]
      BY <1>2, <3>2 DEF Honest, WorkShape
    <3> QED BY <3>1, <3>2
  <2>2. ASSUME NEW v \in Workers PROVE WorkShape(v)'
    <3>1. CASE v = w
      BY <1>2, <3>1 DEF WorkShape
    <3>2. CASE v # w
      BY <1>2, <3>2 DEF Honest, WorkShape
    <3> QED BY <3>1, <3>2
  <2> QED BY <2>1, <2>2 DEF Honest
<1>5. ASSUME lost' = 0 PROVE InHand'
  <2>0. lost = 0 /\ InHand
    BY <1>2, <1>5
  <2>1. HeldState(w)
    BY <2>0 DEF InHand
  <2>2. \A i \in ImportJobs \ {j} : jobStatus'[i] = jobStatus[i]
    BY <1>2
  <2>3. CASE jobStatus' = [jobStatus EXCEPT ![j] = st] /\ work' = [work EXCEPT ![w] = k]
    <3>1. HeldState(w)'
      BY <1>1, <2>1, <2>3 DEF HeldState
    <3>2. j \in written => jobStatus'[j] \in {"processing", "succeeded", "failed"}
      BY <1>1, <2>0, <2>3
    <3> QED BY <2>0, <2>2, <2>3, <3>1, <3>2, WorkerTurn
  <2>4. CASE jobStatus' = jobStatus /\ work' = [work EXCEPT ![w] = e]
    <3>1. HeldState(w)'
      BY <1>1, <2>1, <2>4 DEF HeldState
    <3>2. j \in written => jobStatus'[j] \in {"processing", "succeeded", "failed"}
      BY <1>1, <2>0, <2>4 DEF InHand, OnlyConfirmedWrites
    <3> QED BY <2>0, <2>2, <2>4, <3>1, <3>2, WorkerTurn
  <2> QED BY <1>2, <1>5, <2>3, <2>4
<1> QED BY <1>3, <1>4, <1>5

\* A goroutine that sets no status: it waits its turn, analyses or commits.
LEMMA MoveStep ==
  ASSUME JobsIInv, NEW w \in Workers, Acquire(w) \/ Analyze(w) \/ CommitRows(w)
  PROVE  JobsIInv'
<1> USE DEF JobsIInv, JobsTypeOK
<1> DEFINE j == work[w].job
<1>1. /\ work[w] # NoWork /\ work[w] \in Work /\ j \in ImportJobs
      /\ reqStep' = reqStep /\ request' = request /\ jobStatus' = jobStatus
      /\ written' \in {written, written \cup {j}}
      /\ outages' = outages /\ failing' = failing /\ lost' \in 0..MaxLost
      /\ lost' = 0 => lost = 0
  BY AtWork, ImportJobAssumption
  DEF Acquire, Analyze, CommitRows, Running, Work, LoseAnswer, faults
<1>2. \E k \in Work :
        /\ work' = [work EXCEPT ![w] = k] /\ k.job = j
        /\ WorkShape(w)'
        /\ lost' = 0 => HeldState(w)' /\ (j \in written' => j \in written \/ work[w].at = "run")
  <2>1. CASE Acquire(w)
    <3> DEFINE k == [work[w] EXCEPT !.at = IF work[w].kind = "process" THEN "mark" ELSE "run"]
    <3>1. work' = [work EXCEPT ![w] = k] /\ work[w].at = "sem" /\ written' = written
      BY <1>1, <2>1 DEF Acquire, MoveWork, Running
    <3>2. /\ k \in Work /\ k.job = j /\ k.kind = work[w].kind /\ k.ok = work[w].ok
          /\ k.at = IF k.kind = "process" THEN "mark" ELSE "run"
      BY <1>1 DEF Work, Inside
    <3> HIDE DEF k
    <3>3. lost' = 0 => HeldState(w)'
      BY <1>1, <3>1, <3>2 DEF HeldState, InHand
    <3>4. WorkShape(w)'
      BY <1>1, <3>1, <3>2 DEF Honest, WorkShape
    <3> QED BY <1>1, <3>1, <3>2, <3>3, <3>4
  <2>2. CASE Analyze(w)
    <3>1. PICK at \in {"save", "fail"} : work' = [work EXCEPT ![w].at = at]
      BY <2>2 DEF Analyze, MoveWork
    <3> DEFINE k == [work[w] EXCEPT !.at = at]
    <3>2. work' = [work EXCEPT ![w] = k] /\ work[w].at = "run" /\ written' = written
          /\ work[w].kind # "commit"
      BY <1>1, <2>2, <3>1 DEF Analyze, Running
    <3>3. /\ k \in Work /\ k.job = j /\ k.kind = work[w].kind /\ k.ok = work[w].ok
          /\ k.at = at
      BY <1>1 DEF Work, Inside
    <3> HIDE DEF k
    <3>4. lost' = 0 => HeldState(w)'
      BY <1>1, <3>2, <3>3 DEF HeldState, InHand
    <3>5. WorkShape(w)'
      BY <1>1, <3>2, <3>3 DEF Honest, WorkShape
    <3> QED BY <1>1, <3>2, <3>3, <3>4, <3>5
  <2>3. CASE CommitRows(w)
    <3>1. PICK at \in {"finish", "fail"}, ok \in BOOLEAN :
            /\ work' = [work EXCEPT ![w] = [work[w] EXCEPT !.at = at, !.ok = ok]]
            /\ ok => (at = "finish" /\ j \in written') \/ ok = work[w].ok
      <4>1. work[w].ok \in BOOLEAN
        BY <1>1 DEF Work
      <4>2. \/ \E ok \in {TRUE} : /\ work' = [work EXCEPT ![w].at = "finish", ![w].ok = ok]
                                  /\ j \in written'
            \/ \E at \in {"finish", "fail"} : work' = [work EXCEPT ![w].at = at]
        BY <1>1, <2>3 DEF CommitRows, MoveWork
      <4>3. ASSUME NEW at \in {"finish", "fail"}, work' = [work EXCEPT ![w].at = at]
            PROVE  work' = [work EXCEPT ![w] = [work[w] EXCEPT !.at = at, !.ok = work[w].ok]]
        BY <1>1, <4>3 DEF Work
      <4>4. ASSUME work' = [work EXCEPT ![w].at = "finish", ![w].ok = TRUE]
            PROVE  work' = [work EXCEPT ![w] = [work[w] EXCEPT !.at = "finish", !.ok = TRUE]]
        BY <1>1, <4>4 DEF Work
      <4> QED BY <4>1, <4>2, <4>3, <4>4
    <3> DEFINE k == [work[w] EXCEPT !.at = at, !.ok = ok]
    <3>2. work' = [work EXCEPT ![w] = k] /\ work[w].at = "run" /\ work[w].kind = "commit"
      BY <1>1, <2>3, <3>1 DEF CommitRows, Running
    <3>3. k \in Work /\ k.job = j /\ k.kind = work[w].kind /\ k.ok = ok /\ k.at = at
      BY <1>1 DEF Work, Inside
    <3> HIDE DEF k
    <3>4. WorkShape(w)'
      BY <1>1, <3>1, <3>2, <3>3 DEF Honest, WorkShape
    <3>5. lost' = 0 => HeldState(w)'
      BY <1>1, <3>1, <3>2, <3>3, <3>4 DEF HeldState, InHand
    <3> QED BY <1>1, <3>2, <3>3, <3>4, <3>5
  <2> QED BY <2>1, <2>2, <2>3
<1>3. PICK k \in Work :
        /\ work' = [work EXCEPT ![w] = k] /\ k.job = j
        /\ WorkShape(w)'
        /\ lost' = 0 => HeldState(w)' /\ (j \in written' => j \in written \/ work[w].at = "run")
  BY <1>2
<1>4. JobsTypeOK'
  BY <1>1, <1>3
<1>5. Honest'
  <2>1. \A v \in Workers : WorkShape(v)'
    BY <1>1, <1>3 DEF Honest, WorkShape
  <2> QED BY <1>1, <2>1 DEF Honest, SucceededWrote, WorkShape
<1>6. ASSUME lost' = 0 PROVE InHand'
  <2>1. j \in written' => jobStatus'[j] \in {"processing", "succeeded", "failed"}
    BY <1>1, <1>3, <1>6 DEF InHand, HeldState, OnlyConfirmedWrites
  <2> QED BY <1>1, <1>3, <1>6, <2>1, WorkerTurn
<1> QED BY <1>4, <1>5, <1>6

\* A step of a goroutine.
LEMMA WorkerStep ==
  ASSUME JobsIInv, NEW w \in Workers, Acquire(w) \/ WorkStep(w)
  PROVE  JobsIInv'
<1> USE DEF JobsIInv
<1>1. ASSUME Running(w, "mark") \/ Running(w, "save") \/ Running(w, "finish") \/ Running(w, "fail")
      PROVE  /\ work[w] # NoWork /\ work[w] \in Work /\ work[w].job \in ImportJobs
             /\ NoWork \in Work \cup {NoWork}
  BY <1>1, AtWork DEF Running, Work
<1>2. ASSUME NEW at \in {"run", "fail"}, work[w] # NoWork
      PROVE  /\ [work[w] EXCEPT !.at = at] \in Work
             /\ [work[w] EXCEPT !.at = at].job = work[w].job
             /\ [work[w] EXCEPT !.at = at].kind = work[w].kind
             /\ [work[w] EXCEPT !.at = at].ok = work[w].ok
             /\ [work[w] EXCEPT !.at = at].at = at
             /\ MoveWork(w, at) => work' = [work EXCEPT ![w] = [work[w] EXCEPT !.at = at]]
  BY <1>2, AtWork DEF Work, Inside, MoveWork
<1>3. CASE MarkProcessing(w)
  <2> DEFINE k == [work[w] EXCEPT !.at = "run"]
             e == [work[w] EXCEPT !.at = "fail"]
  <2>1. /\ work[w] # NoWork /\ work[w].at = "mark" /\ work[w].kind = "process" /\ ~work[w].ok
        /\ work[w].job \in ImportJobs /\ work[w].ok \in BOOLEAN
    BY <1>1, <1>3 DEF MarkProcessing, Running, Honest, WorkShape, Work
  <2>2. /\ k \in Work /\ k.job = work[w].job /\ k.kind = "process" /\ ~k.ok /\ k.at = "run"
        /\ e \in Work /\ e.job = work[w].job /\ e.kind = "process" /\ ~e.ok /\ e.at = "fail"
    BY <1>2, <2>1
  <2>3. MoveWork(w, "run") <=> work' = [work EXCEPT ![w] = k]
    BY <2>1 DEF MoveWork
  <2>4. MoveWork(w, "fail") <=> work' = [work EXCEPT ![w] = e]
    BY <2>1 DEF MoveWork
  <2> HIDE DEF k, e
  <2>5. CASE jobStatus[work[w].job] = "pending"
    <3>1. SetStatus(w, "processing", work' = [work EXCEPT ![w] = k], work' = [work EXCEPT ![w] = e])
      BY <1>3, <2>3, <2>4, <2>5 DEF MarkProcessing, SetStatus
    <3>2. UNCHANGED <<written, reqStep, request>>
      BY <1>3 DEF MarkProcessing
    <3> QED BY <2>1, <2>2, <3>1, <3>2, StatusStep
  <2>6. CASE jobStatus[work[w].job] # "pending"
    <3>1. /\ work' = [work EXCEPT ![w] = NoWork]
          /\ UNCHANGED <<jobStatus, faults, written, reqStep, request>>
      BY <1>3, <2>6 DEF MarkProcessing, EndWork
    <3>2. JobsTypeOK'
      BY <3>1 DEF JobsTypeOK, faults
    <3>3. Honest'
      BY <3>1 DEF Honest, WorkShape, SucceededWrote, JobsTypeOK
    <3>4. ASSUME lost' = 0 PROVE InHand'
      <4>1. lost = 0
        BY <3>1, <3>4 DEF faults
      <4>2. work[w].job \in written => jobStatus[work[w].job] \in {"processing", "succeeded", "failed"}
        BY <4>1 DEF InHand, OnlyConfirmedWrites
      <4>3. HeldState(w)'
        BY <3>1 DEF HeldState, JobsTypeOK
      <4> QED BY <2>1, <3>1, <4>1, <4>2, <4>3, WorkerTurn DEF JobsTypeOK
    <3> QED BY <3>2, <3>3, <3>4
  <2> QED BY <2>5, <2>6
<1>4. CASE SavePreview(w)
  <2> DEFINE e == [work[w] EXCEPT !.at = "fail"]
  <2>1. /\ work[w] # NoWork /\ work[w].at = "save" /\ work[w].kind # "commit" /\ ~work[w].ok
        /\ work[w].ok \in BOOLEAN
    BY <1>1, <1>4 DEF SavePreview, Running, Honest, WorkShape, Work
  <2>2. e \in Work /\ e.job = work[w].job /\ e.kind = work[w].kind /\ ~e.ok /\ e.at = "fail"
    BY <1>2, <2>1
  <2>3. MoveWork(w, "fail") <=> work' = [work EXCEPT ![w] = e]
    BY <2>1 DEF MoveWork
  <2> HIDE DEF e
  <2>4. SetStatus(w, "preview", work' = [work EXCEPT ![w] = NoWork], work' = [work EXCEPT ![w] = e])
    BY <1>4, <2>3 DEF SavePreview, SetStatus, EndWork
  <2>5. UNCHANGED <<written, reqStep, request>>
    BY <1>4 DEF SavePreview
  <2>6. lost = 0 => work[w].job \notin written
    BY <2>1 DEF InHand, HeldState
  <2> QED BY <2>1, <2>2, <2>4, <2>5, <2>6, StatusStep
<1>5. CASE FinishJob(w)
  <2> DEFINE st == IF work[w].ok THEN "succeeded" ELSE "failed"
  <2>1. work[w] # NoWork
    BY <1>5 DEF FinishJob, Running
  <2>2. SetStatus(w, st, work' = [work EXCEPT ![w] = NoWork], work' = [work EXCEPT ![w] = NoWork])
    BY <1>5 DEF FinishJob, EndWork
  <2>3. UNCHANGED <<written, reqStep, request>>
    BY <1>5 DEF FinishJob
  <2> QED BY <2>1, <2>2, <2>3, StatusStep
<1>6. CASE FinishFail(w)
  <2>1. work[w] # NoWork
    BY <1>6 DEF FinishFail, Running
  <2>2. SetStatus(w, "failed", work' = [work EXCEPT ![w] = NoWork], work' = [work EXCEPT ![w] = NoWork])
    BY <1>6 DEF FinishFail, EndWork
  <2>3. UNCHANGED <<written, reqStep, request>>
    BY <1>6 DEF FinishFail
  <2> QED BY <2>1, <2>2, <2>3, StatusStep
<1> QED BY <1>3, <1>4, <1>5, <1>6, MoveStep DEF WorkStep

\* The crash: what was processing fails, what was pending is queued again.
LEMMA CrashStep == JobsIInv /\ CrashServer => JobsIInv'
<1> SUFFICES ASSUME JobsIInv, CrashServer PROVE JobsIInv'
  OBVIOUS
<1> USE DEF JobsIInv
<1>1. PICK failed \in SUBSET {j \in ImportJobs : jobStatus[j] = "processing"},
           requeued \in SUBSET {j \in ImportJobs : jobStatus[j] = "pending"} :
             RecoverStale(failed, requeued)
  BY DEF CrashServer
<1>2. PICK f \in [requeued -> Workers] :
        /\ \A i, j \in requeued : i # j => f[i] # f[j]
        /\ work' = [w \in Workers |->
                      IF \E j \in requeued : f[j] = w
                      THEN [job |-> CHOOSE j \in requeued : f[j] = w, kind |-> "process",
                            at |-> "sem", ok |-> FALSE]
                      ELSE NoWork]
  BY <1>1 DEF RecoverStale
<1>3. /\ jobStatus' = [j \in ImportJobs |-> IF j \in failed THEN "failed" ELSE jobStatus[j]]
      /\ reqStep' = [c \in Operators |-> "idle"]
      /\ request' = [c \in Operators |-> NoJobRequest]
      /\ outages' \in 0..MaxOutages /\ failing' = failing /\ lost' = lost /\ written' = written
  BY <1>1, ImportJobAssumption DEF RecoverStale, CrashServer, JobsTypeOK
<1>4. ASSUME NEW w \in Workers, work'[w] # NoWork
      PROVE  \E j \in requeued :
               f[j] = w /\ work'[w] = [job |-> j, kind |-> "process", at |-> "sem", ok |-> FALSE]
  BY <1>2, <1>4
<1>5. JobsTypeOK'
  <2>1. ASSUME NEW w \in Workers PROVE work'[w] \in Work \cup {NoWork}
    <3>1. CASE work'[w] # NoWork
      <4>1. PICK j \in requeued :
              work'[w] = [job |-> j, kind |-> "process", at |-> "sem", ok |-> FALSE]
        BY <1>4, <3>1
      <4> QED BY <4>1 DEF Work
    <3> QED BY <3>1
  <2>2. jobStatus' \in [ImportJobs -> JobStates]
    BY <1>3 DEF JobsTypeOK, JobStates
  <2>3. request' \in [Operators -> JobRequests] /\ NoJobRequest.op = "none"
    BY <1>3 DEF JobRequests, NoJobRequest, JobStates
  <2> QED BY <1>2, <1>3, <2>1, <2>2, <2>3 DEF JobsTypeOK
<1>6. Honest'
  <2>1. SucceededWrote' /\ \A c \in Operators : reqStep'[c] # "start"
    BY <1>3 DEF Honest, SucceededWrote
  <2>2. ASSUME NEW w \in Workers, work'[w] # NoWork PROVE WorkShape(w)'
    <3>1. PICK j \in requeued :
            work'[w] = [job |-> j, kind |-> "process", at |-> "sem", ok |-> FALSE]
      BY <1>4, <2>2
    <3> QED BY <3>1 DEF WorkShape
  <2> QED BY <2>1, <2>2 DEF Honest, WorkShape
<1>7. ASSUME lost' = 0 PROVE InHand'
  <2>1. lost = 0 /\ InHand
    BY <1>3, <1>7
  <2>2. OnlyConfirmedWrites'
    BY <1>3, <2>1 DEF InHand, OnlyConfirmedWrites, JobsTypeOK
  <2>3. OneHolder'
    <3> SUFFICES ASSUME NEW j \in ImportJobs, NEW x \in Holders(j)', NEW y \in Holders(j)'
                 PROVE  x = y
      BY DEF OneHolder
    <3>1. x \in Workers /\ work'[x] # NoWork /\ work'[x].job = j
      BY <1>3 DEF Holders
    <3>2. y \in Workers /\ work'[y] # NoWork /\ work'[y].job = j
      BY <1>3 DEF Holders
    <3>3. PICK i \in requeued :
            f[i] = x /\ work'[x] = [job |-> i, kind |-> "process", at |-> "sem", ok |-> FALSE]
      BY <1>4, <3>1
    <3>4. PICK k \in requeued :
            f[k] = y /\ work'[y] = [job |-> k, kind |-> "process", at |-> "sem", ok |-> FALSE]
      BY <1>4, <3>2
    <3> QED BY <3>1, <3>2, <3>3, <3>4
  <2>4. ASSUME NEW w \in Workers PROVE HeldState(w)'
    <3> SUFFICES ASSUME work'[w] # NoWork PROVE HeldState(w)'
      BY DEF HeldState
    <3>1. PICK j \in requeued :
            work'[w] = [job |-> j, kind |-> "process", at |-> "sem", ok |-> FALSE]
      BY <1>4
    <3>2. jobStatus'[j] = "pending" /\ j \notin written'
      BY <1>3, <2>1 DEF InHand, OnlyConfirmedWrites
    <3> QED BY <3>1, <3>2 DEF HeldState
  <2>5. \A c \in Operators : RequestState(c)'
    BY <1>3 DEF RequestState
  <2> QED BY <2>2, <2>3, <2>4, <2>5 DEF InHand
<1> QED BY <1>5, <1>6, <1>7

\* Every step of the jobs keeps the invariant.
LEMMA JobsNextInductive == JobsIInv /\ [JobsNext]_jobVars => JobsIInv'
<1>1. JobsIInv /\ UNCHANGED jobVars => JobsIInv'
  <2> SUFFICES ASSUME JobsIInv, UNCHANGED jobVars PROVE JobsIInv'
    OBVIOUS
  <2> USE DEF jobVars, faults
  <2>1. JobsTypeOK' /\ Honest'
    BY DEF JobsIInv, JobsTypeOK, Honest, SucceededWrote, WorkShape
  <2>2. ASSUME lost = 0 PROVE InHand'
    BY <2>2 DEF JobsIInv, InHand, OneHolder, Holders, OnlyConfirmedWrites, HeldState, RequestState
  <2> QED BY <2>1, <2>2 DEF JobsIInv
<1> QED BY <1>1, NewRequestStep, AnswerStep, WorkerStep, CrashStep DEF JobsNext

\* The inductive invariant (importer/store.go, importer/handler.go).
THEOREM JobsInvariance == JobsSpec => []JobsIInv
BY JobsInitInductive, JobsNextInductive, PTL DEF JobsSpec

\* No confirmation, re-analysis, cancellation or requeue shares a job with
\* another one (importer/store.go MarkProcessing, Cancel).
THEOREM JobsHaveOneHolder == JobsSpec => []OneHolder
<1>1. JobsIInv => OneHolder
  BY DEF JobsIInv, InHand, OneHolder
<1> QED BY <1>1, JobsInvariance, PTL

\* Only what was confirmed reaches the business tables, whatever races.
THEOREM PreviewsWriteNothing == JobsSpec => []OnlyConfirmedWrites
<1>1. JobsIInv => OnlyConfirmedWrites
  BY DEF JobsIInv, InHand, OnlyConfirmedWrites
<1> QED BY <1>1, JobsInvariance, PTL

\* Without jobs nothing is written.
LEMMA UntouchedInit == JobsInit => Untouched
BY DEF JobsInit, Untouched

\* Of the answers to a request, a claim and new goroutines matter: what they
\* take over was a preview, or failed without writing.
LEMMA UntouchedAnswer ==
  ASSUME JobsIInv, Untouched, NEW c \in Operators, Answering(c) \/ DropRequest(c)
  PROVE  Untouched'
<1> SUFFICES ASSUME lost' = 0, outages' = 0 PROVE Untouched'
  BY DEF Untouched
<1> USE DEF JobsIInv, JobsTypeOK
<1>1. ASSUME NEW j \in ImportJobs, Claim(c, j) PROVE Untouched'
  <2> USE <1>1 DEF Claim, EndRequest, faults
  <2>1. lost = 0 /\ outages = 0 /\ written' = written /\ work' = work
    OBVIOUS
  <2>2. CASE jobStatus[j] = request[c].from
    <3>1. request[c].jobs = {j} /\ jobStatus[j] \in {"preview", "failed"}
      BY <2>1, <2>2 DEF InHand, RequestState, JobRequests
    <3>2. j \notin written
      BY <2>1, <3>1 DEF InHand, OnlyConfirmedWrites, Untouched
    <3> QED BY <2>1, <2>2, <3>1, <3>2 DEF Untouched
  <2>3. CASE jobStatus[j] # request[c].from
    BY <2>1, <2>3 DEF Untouched
  <2> QED BY <2>2, <2>3
<1>2. ASSUME NEW j \in ImportJobs, Cancel(c, j) PROVE Untouched'
  BY <1>2 DEF Cancel, EndRequest, faults, Untouched
<1>3. CASE StartWorkers(c)
  <2> USE <1>3 DEF StartWorkers, EndRequest, faults
  <2>1. /\ lost = 0 /\ outages = 0 /\ written' = written /\ jobStatus' = jobStatus
        /\ request[c].op \in {"process", "reanalyze", "commit"}
        /\ request[c].jobs \in SUBSET ImportJobs
    BY DEF Honest, JobRequests
  <2>2. \A w \in Workers :
          \/ work'[w] = work[w]
          \/ \E j \in request[c].jobs :
               work'[w] = [job |-> j, kind |-> request[c].op, at |-> "sem", ok |-> FALSE]
    BY <2>1, SpawnType
  <2>3. ASSUME NEW w \in Workers, work'[w] # NoWork, ~work'[w].ok
        PROVE  work'[w].job \notin written
    <3>1. CASE work'[w] = work[w]
      BY <2>1, <2>3, <3>1 DEF Untouched
    <3>2. CASE work'[w] # work[w]
      <4>1. PICK j \in request[c].jobs :
              work'[w] = [job |-> j, kind |-> request[c].op, at |-> "sem", ok |-> FALSE]
        BY <2>2, <3>2
      <4>2. reqStep[c] = "start" /\ request[c].jobs \cap written = {}
        BY <2>1 DEF Untouched
      <4> QED BY <4>1, <4>2
    <3> QED BY <3>1, <3>2
  <2> QED BY <2>1, <2>3 DEF Untouched
<1>4. CASE DropRequest(c)
  <2>1. lost = 0 /\ outages = 0
    BY <1>4, ImportJobAssumption DEF DropRequest, LoseAnswer, faults
  <2> QED BY <1>4, <2>1 DEF DropRequest, EndRequest, Untouched
<1> QED BY <1>1, <1>2, <1>3, <1>4 DEF Answering

\* Of the goroutines, the one that writes: nobody else has its job in hand.
LEMMA UntouchedWork ==
  ASSUME JobsIInv, Untouched, NEW w \in Workers, Acquire(w) \/ WorkStep(w)
  PROVE  Untouched'
<1> SUFFICES ASSUME lost' = 0, outages' = 0 PROVE Untouched'
  BY DEF Untouched
<1> USE DEF JobsIInv, JobsTypeOK
<1> DEFINE j == work[w].job
<1>1. /\ work[w] # NoWork /\ work[w] \in Work /\ j \in ImportJobs
      /\ lost = 0 /\ outages = 0 /\ reqStep' = reqStep /\ request' = request
  BY AtWork, ImportJobAssumption
  DEF Acquire, WorkStep, MarkProcessing, Analyze, CommitRows, SavePreview, FinishJob, FinishFail,
      SetStatus, Running, LoseAnswer, faults, Work
<1>2. Holders(j) \subseteq {w} /\ jobStatus[j] \in {"pending", "processing"}
  <2>1. w \in Holders(j)
    BY <1>1 DEF Holders
  <2> QED BY <1>1, <2>1, Unheld DEF InHand, OneHolder
<1>3. \A v \in Workers \ {w} : work[v] # NoWork => work[v].job # j
  BY <1>2 DEF Holders
<1>4. \A c \in Operators : reqStep[c] = "start" => j \notin request[c].jobs
  BY <1>2, Apart DEF Holders
<1>5. ASSUME NEW st \in JobStates, NEW k \in Work \cup {NoWork}, NEW e \in Work \cup {NoWork},
             SetStatus(w, st, work' = [work EXCEPT ![w] = k], work' = [work EXCEPT ![w] = e]),
             written' = written, st = "failed" => ~work[w].ok,
             k # NoWork => k.job = j /\ ~work[w].ok, e # NoWork => e.job = j /\ ~work[w].ok
      PROVE  Untouched'
  <2>1. \/ jobStatus' = [jobStatus EXCEPT ![j] = st] /\ work' = [work EXCEPT ![w] = k]
        \/ jobStatus' = jobStatus /\ work' = [work EXCEPT ![w] = e]
    BY <1>1, <1>5 DEF SetStatus, LoseAnswer
  <2>2. \A i \in ImportJobs : jobStatus'[i] = "failed" => i \notin written
    BY <1>1, <1>5, <2>1 DEF Untouched
  <2>3. \A v \in Workers : work'[v] # NoWork /\ ~work'[v].ok => work'[v].job \notin written
    BY <1>1, <1>5, <2>1 DEF Untouched
  <2> QED BY <1>1, <1>5, <2>2, <2>3 DEF Untouched
<1>6. ASSUME NEW at \in {"run", "fail"}
      PROVE  /\ [work[w] EXCEPT !.at = at] \in Work
             /\ [work[w] EXCEPT !.at = at].job = j
  BY <1>1 DEF Work, Inside
<1>7. CASE MarkProcessing(w)
  <2>1. ~work[w].ok
    BY <1>1, <1>7 DEF MarkProcessing, Running, Honest, WorkShape
  <2>2. CASE jobStatus[j] = "pending"
    <3>1. /\ written' = written
          /\ SetStatus(w, "processing", work' = [work EXCEPT ![w] = [work[w] EXCEPT !.at = "run"]],
                       work' = [work EXCEPT ![w] = [work[w] EXCEPT !.at = "fail"]])
      BY <1>7, <2>2, SMTT(60) DEF MarkProcessing, SetStatus, MoveWork
    <3>2. "processing" \in JobStates
      BY DEF JobStates
    <3> QED BY <1>5, <1>6, <2>1, <3>1, <3>2, ZenonT(60)
  <2>3. CASE jobStatus[j] # "pending"
    <3>1. work' = [work EXCEPT ![w] = NoWork] /\ UNCHANGED <<jobStatus, written>>
      BY <1>7, <2>3 DEF MarkProcessing, EndWork
    <3> QED BY <1>1, <3>1 DEF Untouched
  <2> QED BY <2>2, <2>3
<1>8. CASE SavePreview(w)
  <2>1. ~work[w].ok
    BY <1>1, <1>8 DEF SavePreview, Running, Honest, WorkShape
  <2>2. /\ written' = written
        /\ SetStatus(w, "preview", work' = [work EXCEPT ![w] = NoWork],
                     work' = [work EXCEPT ![w] = [work[w] EXCEPT !.at = "fail"]])
    BY <1>8, SMTT(60) DEF SavePreview, SetStatus, MoveWork, EndWork
  <2>3. "preview" \in JobStates
    BY DEF JobStates
  <2> QED BY <1>5, <1>6, <2>1, <2>2, <2>3, ZenonT(60)
<1>9. CASE FinishJob(w)
  <2>1. /\ written' = written
        /\ SetStatus(w, IF work[w].ok THEN "succeeded" ELSE "failed",
                     work' = [work EXCEPT ![w] = NoWork], work' = [work EXCEPT ![w] = NoWork])
    BY <1>9 DEF FinishJob, EndWork
  <2> QED BY <1>5, <2>1 DEF JobStates
<1>10. CASE FinishFail(w)
  <2>1. ~work[w].ok
    BY <1>1, <1>10 DEF FinishFail, Running, Honest, WorkShape
  <2>2. /\ written' = written
        /\ SetStatus(w, "failed", work' = [work EXCEPT ![w] = NoWork], work' = [work EXCEPT ![w] = NoWork])
    BY <1>10 DEF FinishFail, EndWork
  <2> QED BY <1>5, <2>1, <2>2 DEF JobStates
<1>11. CASE Acquire(w) \/ Analyze(w)
  <2>1. PICK at \in {"mark", "run", "save", "fail"} :
          work' = [work EXCEPT ![w] = [work[w] EXCEPT !.at = at]]
    BY <1>11 DEF Acquire, Analyze, MoveWork
  <2>2. [work[w] EXCEPT !.at = at].job = j /\ [work[w] EXCEPT !.at = at].ok = work[w].ok
    BY <1>1 DEF Work
  <2>3. jobStatus' = jobStatus /\ written' = written
    BY <1>11 DEF Acquire, Analyze
  <2>4. \A v \in Workers : work'[v] # NoWork /\ ~work'[v].ok => work'[v].job \notin written
    BY <1>1, <2>1, <2>2 DEF Untouched
  <2> QED BY <1>1, <2>3, <2>4 DEF Untouched
<1>12. CASE CommitRows(w)
  <2>1. jobStatus' = jobStatus /\ jobStatus[j] # "failed"
    BY <1>2, <1>12 DEF CommitRows
  <2>2. \/ /\ written' = written \cup {j}
           /\ work' = [work EXCEPT ![w] = [work[w] EXCEPT !.at = "finish", !.ok = TRUE]]
        \/ /\ written' = written
           /\ \E at \in {"finish", "fail"} : work' = [work EXCEPT ![w] = [work[w] EXCEPT !.at = at]]
    <3>1. ~LoseAnswer
      BY <1>1 DEF LoseAnswer
    <3>2. ASSUME NEW at \in {"finish", "fail"}, MoveWork(w, at)
          PROVE  \E a \in {"finish", "fail"} : work' = [work EXCEPT ![w] = [work[w] EXCEPT !.at = a]]
      BY <3>2 DEF MoveWork
    <3>3. \/ /\ written' = written \cup {j}
             /\ work' = [work EXCEPT ![w].at = "finish", ![w].ok = TRUE]
          \/ written' = written /\ (MoveWork(w, "finish") \/ MoveWork(w, "fail"))
      BY <1>12, <3>1 DEF CommitRows
    <3>4. [work EXCEPT ![w].at = "finish", ![w].ok = TRUE]
            = [work EXCEPT ![w] = [work[w] EXCEPT !.at = "finish", !.ok = TRUE]]
      BY <1>1
    <3> QED BY <3>2, <3>3, <3>4
  <2>3. CASE /\ written' = written \cup {j}
             /\ work' = [work EXCEPT ![w] = [work[w] EXCEPT !.at = "finish", !.ok = TRUE]]
    <3>1. work'[w].ok
      BY <1>1, <2>3 DEF Work
    <3>2. \A v \in Workers : work'[v] # NoWork /\ ~work'[v].ok => work'[v].job \notin written'
      BY <1>1, <1>3, <2>3, <3>1 DEF Untouched
    <3>3. \A i \in ImportJobs : jobStatus'[i] = "failed" => i \notin written'
      BY <1>1, <2>1, <2>3 DEF Untouched
    <3>4. \A c \in Operators : reqStep'[c] = "start" => request'[c].jobs \cap written' = {}
      BY <1>1, <1>4, <2>3 DEF Untouched
    <3> QED BY <3>2, <3>3, <3>4 DEF Untouched
  <2>4. ASSUME written' = written, NEW at \in {"finish", "fail"},
               work' = [work EXCEPT ![w] = [work[w] EXCEPT !.at = at]]
        PROVE  Untouched'
    <3>1. [work[w] EXCEPT !.at = at].job = j /\ [work[w] EXCEPT !.at = at].ok = work[w].ok
      BY <1>1 DEF Work
    <3>2. \A v \in Workers : work'[v] # NoWork /\ ~work'[v].ok => work'[v].job \notin written
      BY <1>1, <2>4, <3>1 DEF Untouched
    <3> QED BY <1>1, <2>1, <2>4, <3>2 DEF Untouched
  <2> QED BY <2>2, <2>3, <2>4
<1> QED BY <1>7, <1>8, <1>9, <1>10, <1>11, <1>12 DEF WorkStep

\* Every step of the jobs.
LEMMA UntouchedStep == JobsIInv /\ Untouched /\ [JobsNext]_jobVars => Untouched'
<1> SUFFICES ASSUME JobsIInv, Untouched, [JobsNext]_jobVars PROVE Untouched'
  OBVIOUS
<1>1. ASSUME NEW c \in Operators, NewRequest(c) PROVE Untouched'
  <2>1. ASSUME NEW J \in SUBSET ImportJobs, CreateJobs(c, J) PROVE Untouched'
    <3> SUFFICES ASSUME lost' = 0, outages' = 0 PROVE Untouched'
      BY DEF Untouched
    <3> USE <2>1 DEF CreateJobs, faults, JobsIInv, JobsTypeOK
    <3>1. J \cap written = {}
      BY DEF InHand, OnlyConfirmedWrites
    <3> QED BY <3>1 DEF Untouched
  <2>2. ASSUME NEW j \in ImportJobs, CommitJob(c, j) \/ Reanalyze(c, j) \/ CancelJob(c, j)
        PROVE  Untouched'
    BY <2>2 DEF CommitJob, Reanalyze, CancelJob, LoadJob, faults, Untouched, JobsIInv, JobsTypeOK
  <2> QED BY <1>1, <2>1, <2>2 DEF NewRequest
<1>2. CASE CrashServer
  BY <1>2 DEF CrashServer, Untouched, JobsIInv, JobsTypeOK
<1>3. CASE UNCHANGED jobVars
  BY <1>3 DEF jobVars, faults, Untouched
<1> QED BY <1>1, <1>2, <1>3, UntouchedAnswer, UntouchedWork DEF JobsNext

\* A verdict is true both ways: success is shown only for what was written, also
\* when answers are lost and the server crashes, and until then a failed job has
\* not written and is not written twice, however many requests confirm it
\* (importer/handler.go runCommit, commitJob).
THEOREM VerdictHolds == JobsSpec => []VerdictIsTrue
<1>1. JobsIInv /\ Untouched => VerdictIsTrue
  BY DEF JobsIInv, Honest, WorkShape, Untouched, VerdictIsTrue
<1>2. JobsSpec => []Untouched
  BY UntouchedInit, UntouchedStep, JobsInvariance, PTL DEF JobsSpec
<1> QED BY <1>1, <1>2, JobsInvariance, PTL
=============================================================================
