--------------------------- MODULE PoolWorkerProofs ---------------------------
(***************************************************************************)
(* Proofs about the thread pool, for any number of workers and jobs and    *)
(* any interleaving:                                                       *)
(*                                                                         *)
(*   - every job runs exactly once, and poolworker_wait returns only when  *)
(*     all queued jobs have run (from the invariant JobInv);               *)
(*   - every worker counts in a slot of its own (from CreateInv);          *)
(*   - numRunning is the number of workers counted in (CountInv).          *)
(*                                                                         *)
(* JobInv ties the two lists to the workers: a queued job is on the        *)
(* request list once, or is held by one worker, or has run.  CreateInv     *)
(* says that the threads come into being one at a time, which makes the    *)
(* shared counter a source of distinct ids.                                *)
(***************************************************************************)
EXTENDS PoolWorker, FiniteSetTheorems, SequenceTheorems, TLAPS

Holding == {"execute", "remove"}

JobTypes ==
    /\ pc \in [Workers -> Labels]
    /\ job \in [Workers -> Jobs \cup {NoJob}]
    /\ jobs_req \in Seq(Jobs)
    /\ jobs_active \subseteq Jobs
    /\ queued \in 0..MaxJobs
    /\ runs \in [Jobs -> Nat]

\* A worker has a job exactly while it executes it or takes it off the list.
HeldJobs ==
    /\ \A w \in Workers : job[w] # NoJob <=> pc[w] \in Holding
    /\ \A w \in Workers : job[w] # NoJob => job[w] \in 1..queued
    /\ \A v, w \in Workers : job[v] = job[w] /\ job[v] # NoJob => v = w
    /\ \A w \in Workers : pc[w] = "execute" => runs[job[w]] = 0
    /\ \A w \in Workers : pc[w] = "remove" => runs[job[w]] = 1
    /\ \A j \in jobs_active : \E w \in Workers : job[w] = j
    /\ \A w \in Workers : job[w] # NoJob => job[w] \in jobs_active

\* The request list has each job once, none held and none that has run.
ListedJobs ==
    /\ \A i \in 1..Len(jobs_req) : jobs_req[i] \in 1..queued /\ runs[jobs_req[i]] = 0
    /\ \A i, k \in 1..Len(jobs_req) : jobs_req[i] = jobs_req[k] => i = k
    /\ \A i \in 1..Len(jobs_req) : \A w \in Workers : job[w] # jobs_req[i]

\* Every job queued so far is listed, being executed, or has run once.
JobPlaces ==
    /\ \A j \in 1..queued :
          \/ runs[j] = 1
          \/ /\ runs[j] = 0
             /\ \/ \E i \in 1..Len(jobs_req) : jobs_req[i] = j
                \/ \E w \in Workers : job[w] = j /\ pc[w] = "execute"
    /\ \A j \in Jobs : j > queued => runs[j] = 0

AfterWait == cpc \in {"waited", "destroy", "join", "freed"}

JobInv == /\ JobTypes /\ HeldJobs /\ ListedJobs /\ JobPlaces
          /\ AfterWait => queued = 0 \/ Idle

\* While threads are created, only the last one may not have counted itself.
CreateInv ==
    /\ pc \in [Workers -> Labels]
    /\ id \in [Workers -> Nat]
    /\ created \in 0..NumThreads
    /\ numRunning \in Int
    /\ \A w \in Workers : id[w] \in {0, w}
    /\ \A w \in Workers : w > created => pc[w] = "none"
    /\ \A w \in Workers : pc[w] \in {"start", "count"} =>
                             w = created /\ numRunning = created - 1 /\ cpc = "create"
    /\ cpc = "create" => ~exit
    /\ cpc = "create" => \A w \in Workers : pc[w] \notin {"leave", "gone", "exited"}
    /\ cpc = "create" /\ (\A w \in Workers : pc[w] \notin {"start", "count"}) =>
          numRunning = created
    /\ exit \in BOOLEAN
    /\ ~exit => \A w \in Workers : pc[w] \notin {"leave", "gone", "exited"}

-----------------------------------------------------------------------------
(* Every worker has a slot of its own *)

LEMMA CreateInit == Init => CreateInv
<1> SUFFICES ASSUME Init PROVE CreateInv
  OBVIOUS
<1>1. pc = [w \in Workers |-> "none"] /\ id = [w \in Workers |-> 0]
      /\ created = 0 /\ numRunning = 0 /\ cpc = "create"
  BY DEF Init
<1>2. exit \in BOOLEAN /\ ~exit
  BY DEF Init
<1>3. pc \in [Workers -> Labels] /\ id \in [Workers -> Nat]
  BY <1>1 DEF Labels
<1> QED BY <1>1, <1>2, <1>3, PoolAssumption DEF CreateInv, Workers

LEMMA CreateNext == CreateInv /\ [Next]_vars => CreateInv'
<1> SUFFICES ASSUME CreateInv, [Next]_vars PROVE CreateInv'
  OBVIOUS
<1> USE PoolAssumption DEF CreateInv, poolVars, Goto, Workers, Labels
<1>1. ASSUME NEW w \in Workers, WorkerStep(w) PROVE CreateInv'
  <2>1. CASE ReadId(w)
    BY <2>1 DEF ReadId, NewId
  <2>2. CASE CountIn(w)
    BY <2>2 DEF CountIn
  <2>3. CASE FindNothing(w)
    BY <2>3 DEF FindNothing
  <2>4. CASE Sleep(w)
    BY <2>4 DEF Sleep
  <2>5. CASE SeeExit(w)
    BY <2>5 DEF SeeExit
  <2>6. CASE TakeJob(w)
    BY <2>6 DEF TakeJob
  <2>7. CASE ExecuteJob(w)
    BY <2>7 DEF ExecuteJob
  <2>8. CASE RemoveJob(w)
    BY <2>8 DEF RemoveJob
  <2>9. CASE SignalCmp(w)
    BY <2>9 DEF SignalCmp
  <2>10. CASE CountOut(w)
    BY <2>10 DEF CountOut
  <2>11. CASE ThreadExit(w)
    BY <2>11 DEF ThreadExit
  <2> QED BY <1>1, <2>1, <2>2, <2>3, <2>4, <2>5, <2>6, <2>7, <2>8, <2>9, <2>10, <2>11
          DEF WorkerStep
<1>2. ASSUME NEW w \in Workers, SpuriousWakeup(w) PROVE CreateInv'
  BY <1>2 DEF SpuriousWakeup
<1>3. ASSUME ClientStep PROVE CreateInv'
  <2>1. CASE CreateThread
    BY <2>1, SMTT(30) DEF CreateThread, MayCreateNext
  <2>2. CASE QueueWorkEnd
    BY <2>2 DEF QueueWorkEnd, SignalReq
  <2>3. CASE WaitTest
    BY <2>3 DEF WaitTest
  <2>4. CASE WaitSleep
    BY <2>4 DEF WaitSleep
  <2>5. CASE Broadcast
    BY <2>5 DEF Broadcast, AfterBroadcast
  <2>6. CASE AllCountedOut \/ Join
    BY <2>6 DEF AllCountedOut, Join
  <2> QED BY <1>3, <2>1, <2>2, <2>3, <2>4, <2>5, <2>6 DEF ClientStep
<1>4. ASSUME ClientChoice PROVE CreateInv'
  BY <1>4 DEF ClientChoice, QueueWork, StartWait, Continue, Destroy
<1>5. CASE ClientSpuriousWakeup
  BY <1>5 DEF ClientSpuriousWakeup
<1>6. CASE UNCHANGED vars
  BY <1>6 DEF vars
<1> QED BY <1>1, <1>2, <1>3, <1>4, <1>5, <1>6 DEF Next, Freed

LEMMA CreateInvariant == Spec => []CreateInv
BY CreateInit, CreateNext, PTL DEF Spec

\* Two workers never count their jobs in the same slot of p[], although each
\* derives its id from an unlocked read of the shared counter.
THEOREM SlotsAreOwn == Spec => []OwnSlot
<1>1. CreateInv => OwnSlot
  BY DEF CreateInv, OwnSlot
<1> QED BY <1>1, CreateInvariant, PTL

-----------------------------------------------------------------------------
(* Every job runs once *)

\* The variables JobInv is about, apart from pc and cpc.
jobVars == <<job, jobs_req, jobs_active, queued, runs>>

\* A step that leaves the jobs alone and moves workers only between places
\* where they hold none keeps the invariant.
LEMMA JobsUntouched ==
    ASSUME JobInv, UNCHANGED jobVars, pc' \in [Workers -> Labels],
           \A w \in Workers : pc'[w] # pc[w] =>
               pc[w] \notin Holding /\ pc'[w] \notin Holding,
           AfterWait' => AfterWait \/ Idle \/ queued = 0
    PROVE  JobInv'
<1>1. JobTypes'
  BY DEF JobInv, JobTypes, jobVars
<1>2. HeldJobs'
  BY DEF JobInv, JobTypes, HeldJobs, jobVars, Holding
<1>3. ListedJobs'
  BY DEF JobInv, ListedJobs, jobVars
<1>4. JobPlaces'
  BY DEF JobInv, JobPlaces, HeldJobs, jobVars, Holding
<1>5. (AfterWait => queued = 0 \/ Idle)'
  BY DEF JobInv, AfterWait, Idle, jobVars
<1> QED BY <1>1, <1>2, <1>3, <1>4, <1>5 DEF JobInv

LEMMA JobInit == Init => JobInv
<1> SUFFICES ASSUME Init PROVE JobInv
  OBVIOUS
<1> USE PoolAssumption
<1>1. JobTypes
  BY DEF Init, JobTypes, Jobs, NoJob, Labels
<1>2. HeldJobs /\ ListedJobs /\ JobPlaces
  BY DEF Init, HeldJobs, ListedJobs, JobPlaces, Holding, NoJob, Jobs
<1> QED BY <1>1, <1>2 DEF JobInv, Init, AfterWait

\* poolworker_main takes the oldest job off the list and holds it.
LEMMA TakeJobInv ==
    ASSUME JobInv, NEW w \in Workers, TakeJob(w)
    PROVE  JobInv'
<1> DEFINE j == Head(jobs_req)
<1> USE DEF Goto
<1>1. /\ jobs_req \in Seq(Jobs) /\ jobs_req # <<>>
      /\ j = jobs_req[1] /\ j \in Jobs /\ Len(jobs_req) \in Nat \ {0}
      /\ jobs_req' = Tail(jobs_req) /\ jobs_req' \in Seq(Jobs)
      /\ Len(jobs_req') = Len(jobs_req) - 1
      /\ \A i \in 1..Len(jobs_req') : jobs_req'[i] = jobs_req[i + 1]
  BY DEF JobInv, JobTypes, TakeJob, DequeueJob
<1>2. /\ j \in 1..queued /\ runs[j] = 0
      /\ \A v \in Workers : job[v] # j
      /\ j # NoJob
  BY <1>1, PoolAssumption DEF JobInv, ListedJobs, NoJob, Jobs
<1>3. /\ job' = [job EXCEPT ![w] = j] /\ job \in [Workers -> Jobs \cup {NoJob}]
      /\ pc' = [pc EXCEPT ![w] = "execute"] /\ pc \in [Workers -> Labels]
      /\ jobs_active' = jobs_active \cup {j}
      /\ queued' = queued /\ runs' = runs /\ cpc' = cpc
      /\ pc[w] = "lock"
  BY DEF TakeJob, JobInv, JobTypes
<1>4. JobTypes'
  BY <1>1, <1>3 DEF JobInv, JobTypes, Labels
<1>5. HeldJobs'
  <2>1. /\ job'[w] = j /\ pc'[w] = "execute"
        /\ \A v \in Workers : v # w => job'[v] = job[v] /\ pc'[v] = pc[v]
        /\ job[w] = NoJob
    BY <1>3 DEF JobInv, HeldJobs, Holding
  <2>2. \A v \in Workers : job'[v] # NoJob <=> pc'[v] \in Holding
    BY <1>2, <2>1 DEF JobInv, HeldJobs, Holding
  <2>3. \A v \in Workers : job'[v] # NoJob => job'[v] \in 1..queued /\ job'[v] \in jobs_active'
    BY <1>2, <1>3, <2>1 DEF JobInv, HeldJobs
  <2>4. \A v, x \in Workers : job'[v] = job'[x] /\ job'[v] # NoJob => v = x
    BY <1>2, <2>1 DEF JobInv, HeldJobs
  <2>5. \A v \in Workers : pc'[v] = "execute" => runs[job'[v]] = 0
    BY <1>2, <2>1 DEF JobInv, HeldJobs
  <2>6. \A v \in Workers : pc'[v] = "remove" => runs[job'[v]] = 1
    BY <2>1 DEF JobInv, HeldJobs
  <2>7. \A x \in jobs_active' : \E v \in Workers : job'[v] = x
    BY <1>2, <1>3, <2>1, PoolAssumption DEF JobInv, JobTypes, HeldJobs, NoJob, Jobs
  <2> QED BY <1>3, <2>2, <2>3, <2>4, <2>5, <2>6, <2>7 DEF HeldJobs
<1>6. ListedJobs'
  <2>1. \A i \in 1..Len(jobs_req') : i + 1 \in 1..Len(jobs_req) /\ i + 1 # 1
    BY <1>1
  <2>2. \A i \in 1..Len(jobs_req') : jobs_req'[i] # j
    BY <1>1, <2>1 DEF JobInv, ListedJobs
  <2>3. \A i \in 1..Len(jobs_req') :
           /\ jobs_req'[i] \in 1..queued /\ runs[jobs_req'[i]] = 0
           /\ \A v \in Workers : job[v] # jobs_req'[i]
    BY <1>1, <2>1 DEF JobInv, ListedJobs
  <2>4. \A i, k \in 1..Len(jobs_req') : jobs_req'[i] = jobs_req'[k] => i = k
    <3> TAKE i, k \in 1..Len(jobs_req')
    <3> HAVE jobs_req'[i] = jobs_req'[k]
    <3>1. i + 1 = k + 1
      BY <1>1, <2>1 DEF JobInv, ListedJobs
    <3> QED BY <1>1, <3>1
  <2> QED BY <1>3, <2>2, <2>3, <2>4 DEF ListedJobs
<1>7. JobPlaces'
  <2>1. \A i \in 1..Len(jobs_req) : i = 1 \/ (i - 1 \in 1..Len(jobs_req') /\ jobs_req'[i - 1] = jobs_req[i])
    BY <1>1
  <2>2. job'[w] = j /\ pc'[w] = "execute"
    BY <1>3
  <2>3. \A v \in Workers : job[v] # NoJob => job'[v] = job[v] /\ pc'[v] = pc[v]
    BY <1>3 DEF JobInv, HeldJobs, Holding
  <2>4. ASSUME NEW x \in 1..queued, runs[x] # 1
        PROVE  \/ \E i \in 1..Len(jobs_req') : jobs_req'[i] = x
               \/ \E v \in Workers : job'[v] = x /\ pc'[v] = "execute"
    <3>1. CASE \E v \in Workers : job[v] = x /\ pc[v] = "execute"
      BY <3>1, <2>3 DEF NoJob
    <3>2. CASE \E i \in 1..Len(jobs_req) : jobs_req[i] = x
      BY <3>2, <2>1, <2>2, <1>1
    <3> QED BY <3>1, <3>2, <2>4 DEF JobInv, JobPlaces
  <2> QED BY <1>3, <2>4 DEF JobInv, JobPlaces
<1>8. ~Idle /\ queued # 0
  BY <1>1, <1>2, PoolAssumption DEF Idle, JobInv, JobTypes
<1> QED BY <1>3, <1>4, <1>5, <1>6, <1>7, <1>8 DEF JobInv, AfterWait

LEMMA ExecuteJobInv ==
    ASSUME JobInv, NEW w \in Workers, ExecuteJob(w)
    PROVE  JobInv'
<1> DEFINE j == job[w]
<1>0. /\ pc[w] = "execute" /\ j # NoJob /\ j \in 1..queued /\ runs[j] = 0
      /\ j \in Jobs
      /\ pc \in [Workers -> Labels] /\ runs \in [Jobs -> Nat]
  BY DEF ExecuteJob, JobInv, JobTypes, HeldJobs, Holding
<1>1. /\ pc[w] = "execute" /\ j # NoJob /\ j \in 1..queued /\ runs[j] = 0
      /\ j \in Jobs
      /\ pc \in [Workers -> Labels] /\ runs \in [Jobs -> Nat]
      /\ pc' = [pc EXCEPT ![w] = "remove"]
      /\ runs' = [runs EXCEPT ![j] = 1]
      /\ UNCHANGED <<job, jobs_req, jobs_active, queued, cpc>>
  BY <1>0 DEF ExecuteJob, Goto, poolVars
<1>2. \A v \in Workers : v # w /\ job[v] # NoJob => job[v] # j
  BY <1>1 DEF JobInv, HeldJobs
<1>3. JobTypes'
  BY <1>1 DEF JobInv, JobTypes, Labels
<1>4. HeldJobs'
  BY <1>1, <1>2 DEF JobInv, JobTypes, HeldJobs, Holding
<1>5. ListedJobs'
  BY <1>1 DEF JobInv, JobTypes, ListedJobs
<1>6. JobPlaces'
  <2>1. runs'[j] = 1 /\ \A x \in Jobs : x # j => runs'[x] = runs[x]
    BY <1>1
  <2>2. \A x \in 1..queued : x \in Jobs
    BY PoolAssumption DEF JobInv, JobTypes, Jobs
  <2>3. \A x \in Jobs : x > queued => x # j
    BY <1>1 DEF JobInv, JobTypes, Jobs
  <2>4. \A x \in Jobs : x > queued => runs'[x] = 0
    BY <2>1, <2>3 DEF JobInv, JobPlaces
  <2>5. \A v \in Workers : v # w => pc'[v] = pc[v]
    BY <1>1
  <2>6. ASSUME NEW x \in 1..queued, runs'[x] # 1
        PROVE  /\ runs'[x] = 0
               /\ \/ \E i \in 1..Len(jobs_req) : jobs_req[i] = x
                  \/ \E v \in Workers : job[v] = x /\ pc'[v] = "execute"
    <3>1. x # j /\ runs'[x] = runs[x]
      BY <2>1, <2>2, <2>6
    <3> QED BY <3>1, <2>5, <2>6 DEF JobInv, JobPlaces
  <2> QED BY <1>1, <2>4, <2>6 DEF JobPlaces
<1>7. (AfterWait => queued = 0 \/ Idle)'
  BY <1>1 DEF JobInv, AfterWait, Idle
<1> QED BY <1>3, <1>4, <1>5, <1>6, <1>7 DEF JobInv

LEMMA RemoveJobInv ==
    ASSUME JobInv, NEW w \in Workers, RemoveJob(w)
    PROVE  JobInv'
<1> DEFINE j == job[w]
<1>1. /\ pc[w] = "remove" /\ j # NoJob /\ j \in 1..queued /\ runs[j] = 1
      /\ pc \in [Workers -> Labels] /\ job \in [Workers -> Jobs \cup {NoJob}]
      /\ pc' = [pc EXCEPT ![w] = "signal"]
      /\ job' = [job EXCEPT ![w] = NoJob]
      /\ jobs_active' = jobs_active \ {j}
      /\ UNCHANGED <<jobs_req, queued, runs, cpc>>
  BY DEF RemoveJob, JobInv, JobTypes, HeldJobs, Holding, Goto
<1>2. \A v \in Workers : v # w /\ job[v] # NoJob => job[v] # j
  BY <1>1 DEF JobInv, HeldJobs
<1>3. JobTypes'
  BY <1>1 DEF JobInv, JobTypes, Labels
<1>4. HeldJobs'
  BY <1>1, <1>2 DEF JobInv, HeldJobs, Holding
<1>5. ListedJobs'
  <2>1. \A i \in 1..Len(jobs_req) : jobs_req[i] # NoJob
    BY DEF JobInv, ListedJobs, NoJob
  <2> QED BY <1>1, <2>1 DEF JobInv, ListedJobs
<1>6. JobPlaces'
  <2>1. \A v \in Workers : pc[v] = "execute" => job'[v] = job[v] /\ pc'[v] = "execute"
    BY <1>1
  <2> QED BY <1>1, <2>1 DEF JobInv, JobPlaces
<1>7. (AfterWait => queued = 0 \/ Idle)'
  BY <1>1 DEF JobInv, AfterWait, Idle
<1> QED BY <1>3, <1>4, <1>5, <1>6, <1>7 DEF JobInv

\* poolworker_queue_work appends a new job.
LEMMA QueueWorkInv ==
    ASSUME JobInv, QueueWork
    PROVE  JobInv'
<1> DEFINE j == queued + 1
<1>1. /\ queued \in Nat /\ MaxJobs \in Nat /\ j \in Jobs /\ j \in 1..queued' /\ j # NoJob
      /\ queued' = j /\ queued' \in 0..MaxJobs
      /\ jobs_req \in Seq(Jobs) /\ Len(jobs_req) \in Nat
      /\ jobs_req' = Append(jobs_req, j) /\ jobs_req' \in Seq(Jobs)
      /\ Len(jobs_req') = Len(jobs_req) + 1
      /\ jobs_req'[Len(jobs_req')] = j
      /\ \A i \in 1..Len(jobs_req) : jobs_req'[i] = jobs_req[i]
      /\ UNCHANGED <<pc, job, jobs_active, runs>>
      /\ cpc' = "signal"
  BY PoolAssumption DEF QueueWork, JobInv, JobTypes, Jobs, NoJob
<1>2. /\ runs[j] = 0
      /\ \A w \in Workers : job[w] # j
      /\ \A i \in 1..Len(jobs_req) : jobs_req[i] # j
  <2>1. runs[j] = 0
    BY <1>1 DEF JobInv, JobPlaces
  <2>2. \A w \in Workers : job[w] # j
    BY <1>1 DEF JobInv, HeldJobs
  <2>3. \A i \in 1..Len(jobs_req) : jobs_req[i] # j
    BY <1>1 DEF JobInv, ListedJobs
  <2> QED BY <2>1, <2>2, <2>3
<1>3. JobTypes'
  BY <1>1 DEF JobInv, JobTypes, Labels
<1>4. HeldJobs'
  BY <1>1 DEF JobInv, HeldJobs
<1>5. ListedJobs'
  <2>1. \A i \in 1..Len(jobs_req') : i \in 1..Len(jobs_req) \/ i = Len(jobs_req')
    BY <1>1
  <2> QED BY <1>1, <1>2, <2>1 DEF JobInv, ListedJobs
<1>6. JobPlaces'
  <2>1. Len(jobs_req') \in 1..Len(jobs_req') /\ 1..Len(jobs_req) \subseteq 1..Len(jobs_req')
    BY <1>1
  <2>2. \A x \in 1..queued' : x \in 1..queued \/ x = j
    BY <1>1
  <2>3. \A x \in Jobs : x > queued' => runs'[x] = 0
    BY <1>1 DEF JobInv, JobPlaces, Jobs
  <2>4. \E i \in 1..Len(jobs_req') : jobs_req'[i] = j
    BY <1>1, <2>1
  <2>5. ASSUME NEW x \in 1..queued, runs[x] # 1
        PROVE  \/ \E i \in 1..Len(jobs_req') : jobs_req'[i] = x
               \/ \E w \in Workers : job[w] = x /\ pc[w] = "execute"
    BY <1>1, <2>1, <2>5 DEF JobInv, JobPlaces
  <2>6. \A x \in 1..queued : runs[x] \in {0, 1}
    BY DEF JobInv, JobPlaces
  <2> QED BY <1>1, <1>2, <2>2, <2>3, <2>4, <2>5, <2>6 DEF JobPlaces
<1> QED BY <1>1, <1>3, <1>4, <1>5, <1>6 DEF JobInv, AfterWait

LEMMA JobNext == JobInv /\ CreateInv /\ [Next]_vars => JobInv'
<1> SUFFICES ASSUME JobInv, CreateInv, [Next]_vars PROVE JobInv'
  OBVIOUS
<1>0. pc \in [Workers -> Labels]
  BY DEF JobInv, JobTypes
<1> USE DEF jobVars, poolVars, Goto, Holding, Labels
<1>1. ASSUME NEW w \in Workers, WorkerStep(w) PROVE JobInv'
  <2>1. CASE ReadId(w) \/ CountIn(w) \/ FindNothing(w) \/ Sleep(w) \/ SeeExit(w)
             \/ CountOut(w) \/ ThreadExit(w)
    BY <1>0, <2>1, JobsUntouched
       DEF ReadId, CountIn, FindNothing, Sleep, SeeExit, CountOut, ThreadExit, AfterWait
  <2>2. CASE SignalCmp(w)
    BY <1>0, <2>2, JobsUntouched DEF SignalCmp, AfterWait
  <2> QED BY <1>1, <2>1, <2>2, TakeJobInv, ExecuteJobInv, RemoveJobInv DEF WorkerStep
<1>2. ASSUME NEW w \in Workers, SpuriousWakeup(w) PROVE JobInv'
  BY <1>0, <1>2, JobsUntouched DEF SpuriousWakeup, AfterWait
<1>3. ASSUME ClientStep PROVE JobInv'
  <2>1. CASE CreateThread
    <3>1. \A w \in Workers : pc'[w] # pc[w] => pc[w] = "none" /\ pc'[w] = "start"
      BY <1>0, <2>1, PoolAssumption DEF CreateThread, CreateInv, Workers
    <3>2. pc' \in [Workers -> Labels]
      BY <1>0, <2>1 DEF CreateThread
    <3> QED BY <2>1, <3>1, <3>2, JobsUntouched DEF CreateThread, AfterWait
  <2>2. CASE QueueWorkEnd
    BY <1>0, <2>2, JobsUntouched DEF QueueWorkEnd, SignalReq, AfterWait
  <2>3. CASE WaitTest \/ WaitSleep \/ AllCountedOut \/ Join
    BY <1>0, <2>3, JobsUntouched
       DEF WaitTest, WaitSleep, AllCountedOut, Join, Quiesced, AfterWait
  <2>4. CASE Broadcast
    BY <1>0, <2>4, JobsUntouched DEF Broadcast, AfterBroadcast, AfterWait
  <2> QED BY <1>3, <2>1, <2>2, <2>3, <2>4 DEF ClientStep
<1>4. ASSUME ClientChoice PROVE JobInv'
  <2>1. CASE StartWait \/ Continue \/ Destroy
    BY <1>0, <2>1, JobsUntouched DEF StartWait, Continue, Destroy, AfterWait
  <2> QED BY <1>4, <2>1, QueueWorkInv DEF ClientChoice
<1>5. CASE ClientSpuriousWakeup
  BY <1>0, <1>5, JobsUntouched DEF ClientSpuriousWakeup, AfterWait
<1>6. CASE UNCHANGED vars
  BY <1>0, <1>6, JobsUntouched DEF vars, AfterWait
<1> QED BY <1>1, <1>2, <1>3, <1>4, <1>5, <1>6 DEF Next, Freed

LEMMA JobInvariant == Spec => []JobInv
BY JobInit, JobNext, CreateInvariant, PTL DEF Spec

\* No job is run twice and none is lost, for any number of workers and jobs
\* (poolworker_queue_work, poolworker_main).
THEOREM JobsRunOnce == Spec => []ExactlyOnce
<1>1. JobInv => ExactlyOnce
  <2> SUFFICES ASSUME JobInv, NEW j \in 1..queued
               PROVE  /\ runs[j] =< 1
                      /\ runs[j] = 0 => \/ j \in Elements(jobs_req)
                                        \/ \E w \in Workers : job[w] = j /\ pc[w] = "execute"
                      /\ \A v, w \in Workers : job[v] = j /\ job[w] = j => v = w
    BY DEF ExactlyOnce
  <2>1. 1..Len(jobs_req) = DOMAIN jobs_req
    BY DEF JobInv, JobTypes
  <2>2. runs[j] =< 1
    BY DEF JobInv, JobPlaces
  <2>3. runs[j] = 0 => \/ j \in Elements(jobs_req)
                       \/ \E w \in Workers : job[w] = j /\ pc[w] = "execute"
    BY <2>1 DEF JobInv, JobPlaces, Elements
  <2>4. \A v, w \in Workers : job[v] = j /\ job[w] = j => v = w
    BY DEF JobInv, HeldJobs, NoJob
  <2> QED BY <2>2, <2>3, <2>4
<1> QED BY <1>1, JobInvariant, PTL

\* When poolworker_wait has returned every queued job has run, whatever the
\* workers and the client did in which order.
THEOREM WaitIsQuiescent == Spec => []WaitMeansDone
<1>1. JobInv => WaitMeansDone
  <2> SUFFICES ASSUME JobInv, AfterWait, NEW j \in 1..queued PROVE runs[j] = 1
    BY DEF WaitMeansDone, AfterWait
  <2>1. queued # 0
    BY DEF JobInv, JobTypes
  <2>2. Idle
    BY <2>1 DEF JobInv
  <2>3. \A w \in Workers : job[w] = NoJob
    BY <2>2 DEF Idle, JobInv, HeldJobs
  <2>4. Len(jobs_req) = 0
    BY <2>2 DEF Idle
  <2> QED BY <2>3, <2>4 DEF JobInv, JobPlaces, NoJob
<1> QED BY <1>1, JobInvariant, PTL

-----------------------------------------------------------------------------
(* The types, and the count of the workers *)

\* A worker is counted from CountIn to CountOut.
Counted == {w \in Workers : pc[w] \in Labels \ {"none", "start", "count", "gone", "exited"}}

CountInv ==
    /\ pc \in [Workers -> Labels] /\ numRunning = Cardinality(Counted)
    /\ numThreads \in 0..NumThreads /\ spurious \in 0..MaxSpurious
    /\ jobsDone \in [Workers -> Nat] /\ mutex \in Workers \cup {Client, Nobody}
    /\ cpc \in {"create", "idle", "signal", "wait", "waitOne", "sleep", "sleepOne",
                "waiting", "waitingOne", "waited", "destroy", "join", "freed", "panic"}

\* As many are counted as there are threads, at most.
LEMMA CountBound == IsFiniteSet(Counted) /\ Cardinality(Counted) \in 0..NumThreads
<1>1. IsFiniteSet(Workers) /\ Cardinality(Workers) = NumThreads
  BY PoolAssumption, FS_Interval DEF Workers
<1>2. Counted \in SUBSET Workers
  BY DEF Counted
<1> QED
  BY <1>1, <1>2, FS_Subset, FS_CardinalityType, PoolAssumption

\* A step that counts nobody in or out.
LEMMA CountSame ==
    ASSUME CountInv, pc' \in [Workers -> Labels], numRunning' = numRunning,
           \A w \in Workers : w \in Counted' <=> w \in Counted,
           numThreads' \in 0..NumThreads, spurious' \in 0..MaxSpurious,
           jobsDone' \in [Workers -> Nat], mutex' \in Workers \cup {Client, Nobody},
           cpc' \in {"create", "idle", "signal", "wait", "waitOne", "sleep", "sleepOne",
                     "waiting", "waitingOne", "waited", "destroy", "join", "freed", "panic"}
    PROVE  CountInv'
<1>1. Counted' = Counted
  BY DEF Counted
<1> QED
  BY <1>1 DEF CountInv

LEMMA CountInit == Init => CountInv
<1> SUFFICES ASSUME Init PROVE CountInv
  OBVIOUS
<1>1. Counted = {}
  BY DEF Counted, Init
<1>2. Cardinality(Counted) = 0
  BY <1>1, FS_EmptySet
<1>3. pc \in [Workers -> Labels] /\ jobsDone \in [Workers -> Nat]
  BY DEF Init, Labels
<1> QED
  BY <1>2, <1>3, PoolAssumption DEF Init, CountInv

LEMMA CountNext == CountInv /\ CreateInv /\ [Next]_vars => CountInv'
<1> SUFFICES ASSUME CountInv, CreateInv, [Next]_vars PROVE CountInv'
  OBVIOUS
<1>0. IsFiniteSet(Counted) /\ Cardinality(Counted) \in 0..NumThreads
  BY CountBound
<1>1. ASSUME NEW w \in Workers, WorkerStep(w) PROVE CountInv'
  <2>1. CASE CountIn(w)
    <3>1. Counted' = Counted \cup {w} /\ w \notin Counted /\ pc' \in [Workers -> Labels]
      BY <2>1 DEF CountIn, Goto, Counted, CountInv, Labels
    <3>2. Cardinality(Counted') = Cardinality(Counted) + 1
      BY <1>0, <3>1, FS_AddElement
    <3> QED
      BY <2>1, <3>1, <3>2 DEF CountIn, CountInv
  <2>2. CASE CountOut(w)
    <3>1. Counted' = Counted \ {w} /\ w \in Counted /\ pc' \in [Workers -> Labels]
      BY <2>2 DEF CountOut, Goto, Counted, CountInv, Labels
    <3>2. Cardinality(Counted') = Cardinality(Counted) - 1
      BY <1>0, <3>1, FS_RemoveElement
    <3> QED
      BY <2>2, <3>1, <3>2 DEF CountOut, CountInv
  <2>3. CASE ReadId(w) \/ TakeJob(w) \/ ExecuteJob(w) \/ RemoveJob(w) \/ SeeExit(w) \/ ThreadExit(w)
    <3>1. /\ pc' \in [Workers -> Labels] /\ \A v \in Workers : v \in Counted' <=> v \in Counted
          /\ UNCHANGED <<numRunning, numThreads, spurious, jobsDone, mutex, cpc>>
      BY <2>3 DEF ReadId, TakeJob, ExecuteJob, RemoveJob, SeeExit, ThreadExit, Goto, Counted,
                  CountInv, Labels, poolVars
    <3> QED
      BY <3>1, CountSame DEF CountInv
  <2>4. CASE FindNothing(w) \/ Sleep(w)
    <3>1. /\ pc' \in [Workers -> Labels] /\ \A v \in Workers : v \in Counted' <=> v \in Counted
          /\ UNCHANGED <<numRunning, numThreads, spurious, jobsDone, cpc>> /\ mutex' \in {w, Nobody}
      BY <2>4 DEF FindNothing, Sleep, Goto, Counted, CountInv, Labels
    <3> QED
      BY <3>1, CountSame DEF CountInv
  <2>5. CASE SignalCmp(w)
    <3>1. /\ pc' \in [Workers -> Labels] /\ \A v \in Workers : v \in Counted' <=> v \in Counted
          /\ UNCHANGED <<numRunning, numThreads, spurious, mutex>>
          /\ cpc' \in {"wait", "idle", cpc}
      BY <2>5 DEF SignalCmp, Goto, Counted, CountInv, Labels
    <3>2. jobsDone' \in [Workers -> Nat]
      <4>1. /\ jobsDone \in [Workers -> Nat]
            /\ jobsDone' = [jobsDone EXCEPT ![id[w]] = jobsDone[id[w]] + 1]
        BY <2>5 DEF SignalCmp, CountInv
      <4>2. CASE id[w] \in Workers
        BY <4>1, <4>2
      <4>3. CASE id[w] \notin Workers
        <5>1. jobsDone' = [v \in Workers |-> jobsDone[v]]
          BY <4>1, <4>3
        <5> QED
          BY <4>1, <5>1
      <4> QED
        BY <4>2, <4>3
    <3> QED
      BY <3>1, <3>2, CountSame DEF CountInv
  <2> QED
    BY <1>1, <2>1, <2>2, <2>3, <2>4, <2>5 DEF WorkerStep
<1>2. ASSUME NEW w \in Workers, SpuriousWakeup(w) PROVE CountInv'
  <2>1. /\ pc' \in [Workers -> Labels] /\ \A v \in Workers : v \in Counted' <=> v \in Counted
        /\ UNCHANGED <<numRunning, numThreads, jobsDone, mutex, cpc>>
        /\ spurious > 0 /\ spurious' = spurious - 1
    BY <1>2 DEF SpuriousWakeup, Goto, Counted, CountInv, Labels, poolVars
  <2>2. spurious' \in 0..MaxSpurious
    BY <2>1, PoolAssumption DEF CountInv
  <2> QED
    BY <2>1, <2>2, CountSame DEF CountInv
<1>3. CASE CreateThread \/ QueueWorkEnd \/ Broadcast
  <2>1. /\ UNCHANGED <<numRunning, numThreads, spurious, jobsDone, mutex>>
        /\ cpc' \in {"create", "idle", "destroy"}
    BY <1>3 DEF CreateThread, QueueWorkEnd, Broadcast, AfterBroadcast, poolVars
  <2>2. pc' \in [Workers -> Labels] /\ \A v \in Workers : v \in Counted' <=> v \in Counted
    <3>1. CASE CreateThread
      <4>1. CASE pc' = pc
        BY <4>1 DEF Counted, CountInv
      <4>2. CASE created < NumThreads /\ Goto(created + 1, "start")
        <5>1. created + 1 \in Workers
          BY <4>2, PoolAssumption DEF CreateInv, Workers
        <5>2. created + 1 > created
          BY DEF CreateInv
        <5>3. pc[created + 1] = "none"
          BY <5>1, <5>2 DEF CreateInv
        <5> QED
          BY <4>2, <5>1, <5>3 DEF Goto, Counted, CountInv, Labels
      <4> QED
        BY <3>1, <4>1, <4>2 DEF CreateThread
    <3>2. CASE QueueWorkEnd
      BY <3>2 DEF QueueWorkEnd, SignalReq, Goto, Counted, CountInv, Labels
    <3>3. CASE Broadcast
      BY <3>3 DEF Broadcast, Counted, CountInv, Labels
    <3> QED
      BY <1>3, <3>1, <3>2, <3>3
  <2> QED
    BY <2>1, <2>2, CountSame DEF CountInv
<1>4. CASE WaitTest \/ WaitSleep \/ AllCountedOut \/ Join \/ QueueWork \/ StartWait \/ Continue \/ Destroy
  <2>1. /\ UNCHANGED <<pc, numRunning, spurious, jobsDone>>
        /\ numThreads' \in {numThreads, numRunning} /\ mutex' \in {mutex, Client, Nobody}
        /\ cpc' \in {"wait", "waitOne", "sleep", "sleepOne", "waited", "idle", "waiting",
                     "waitingOne", "join", "freed", "panic", "signal", "destroy"}
    BY <1>4 DEF WaitTest, WaitSleep, AllCountedOut, Join, QueueWork, StartWait, Continue, Destroy,
                poolVars
  <2>2. Counted' = Counted
    BY <2>1 DEF Counted
  <2> QED
    BY <1>0, <2>1, <2>2 DEF CountInv
<1>5. CASE ClientSpuriousWakeup
  <2>1. /\ UNCHANGED <<pc, numRunning, numThreads, jobsDone, mutex>> /\ cpc' \in {"wait", "idle"}
        /\ spurious > 0 /\ spurious' = spurious - 1
    BY <1>5 DEF ClientSpuriousWakeup, poolVars
  <2>2. Counted' = Counted
    BY <2>1 DEF Counted
  <2>3. spurious' \in 0..MaxSpurious
    BY <2>1, PoolAssumption DEF CountInv
  <2> QED
    BY <2>1, <2>2, <2>3 DEF CountInv
<1>6. CASE UNCHANGED vars
  <2>1. UNCHANGED <<pc, numRunning, numThreads, spurious, jobsDone, mutex, cpc>>
    BY <1>6 DEF vars, poolVars
  <2>2. Counted' = Counted
    BY <2>1 DEF Counted
  <2> QED
    BY <2>1, <2>2 DEF CountInv
<1> QED
  BY <1>1, <1>2, <1>3, <1>4, <1>5, <1>6 DEF Next, ClientStep, ClientChoice, Freed

\* The type invariant of the pool.  The counter numRunning, an unsigned one, is
\* the number of threads between their count in and their count out: it never
\* passes 0, which poolworker_destroy waits for, and never exceeds the threads.
THEOREM PoolTypeOK == Spec => []TypeOK
<1>1. CountInv /\ CreateInv /\ JobInv => TypeOK
  BY CountBound DEF CountInv, CreateInv, JobInv, JobTypes, TypeOK
<1>2. Spec => []CountInv
  BY CountInit, CountNext, CreateInvariant, PTL DEF Spec
<1> QED
  BY <1>1, <1>2, CreateInvariant, JobInvariant, PTL

=============================================================================
