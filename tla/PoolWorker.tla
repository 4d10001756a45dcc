------------------------------ MODULE PoolWorker ------------------------------
(***************************************************************************)
(* The thread pool of lib/poolworker/poolworker.c, which resolves the      *)
(* names and places of peers for the user interface.                       *)
(*                                                                         *)
(* Workers and the client are threads.  A step is what a thread does       *)
(* between two points where another one can be noticed: a critical section *)
(* that ends in an unlock is one step, but a thread about to call          *)
(* pthread_cond_wait still holds the mutex, because the signals and the    *)
(* exit flag are sent and set without it.  The application never calls the *)
(* pool from two threads at once: the main thread queues work until it     *)
(* joins the UI thread, whose bitcui_exit waits for the pool.              *)
(***************************************************************************)
EXTENDS Integers, Sequences

CONSTANTS
    NumThreads,   \* of poolworker_create (10 in the application)
    MaxJobs,      \* bound on the jobs queued
    MaxSpurious   \* bound on spurious wakeups

ASSUME PoolAssumption ==
    /\ NumThreads \in Nat \ {0}
    /\ MaxJobs \in Nat /\ MaxSpurious \in Nat

Workers == 1..NumThreads    \* the indexes of p[], plus one
Client == 0
Nobody == -1
Jobs   == 1..MaxJobs
NoJob  == 0

VARIABLES
    pc,           \* where each worker is in poolworker_main
    id,           \* the worker's id, 0 before it is read
    job,          \* the worker's job
    cpc,          \* where the client is
    created,      \* threads created so far
    numRunning, exit,
    mutex,        \* the holder of pw->lock across steps
    jobs_req,     \* queued jobs
    jobs_active,  \* jobs being executed
    jobsDone,     \* p[].jobsDone
    numThreads,   \* as poolworker_destroy reads it
    queued,       \* jobs queued so far
    runs,         \* how often each job's function has returned
    spurious      \* spurious wakeups left

poolVars == <<numRunning, exit, mutex, jobs_req, jobs_active, jobsDone>>
vars == <<pc, id, job, cpc, created, numThreads, poolVars, queued, runs, spurious>>

Init ==
    /\ pc = [w \in Workers |-> "none"]
    /\ id = [w \in Workers |-> 0]
    /\ job = [w \in Workers |-> NoJob]
    /\ cpc = "create" /\ created = 0
    /\ numRunning = 0 /\ exit = FALSE
    /\ mutex = Nobody
    /\ jobs_req = <<>> /\ jobs_active = {}
    /\ jobsDone = [w \in Workers |-> 0]
    /\ numThreads = 0 /\ queued = 0
    /\ runs = [j \in Jobs |-> 0]
    /\ spurious = MaxSpurious

Idle == jobs_req = <<>> /\ jobs_active = {}

Goto(w, label) == pc' = [pc EXCEPT ![w] = label]

-----------------------------------------------------------------------------
(* poolworker_main *)

\* The id is the number of workers counted before this one counts itself.
NewId == numRunning + 1

ReadId(w) ==
    /\ pc[w] = "start"
    /\ id' = [id EXCEPT ![w] = NewId]
    /\ Goto(w, "count")
    /\ UNCHANGED <<job, cpc, created, numThreads, poolVars, queued, runs, spurious>>

CountIn(w) ==
    /\ pc[w] = "count"
    /\ numRunning' = numRunning + 1
    /\ Goto(w, "lock")
    /\ UNCHANGED <<id, job, cpc, created, numThreads, exit, mutex, jobs_req,
                   jobs_active, jobsDone, queued, runs, spurious>>

\* Nothing to do: the worker is about to wait on cond_req.
FindNothing(w) ==
    /\ pc[w] = "lock" /\ mutex = Nobody
    /\ jobs_req = <<>> /\ ~exit
    /\ mutex' = w
    /\ Goto(w, "sleep")
    /\ UNCHANGED <<id, job, cpc, created, numThreads, numRunning, exit, jobs_req,
                   jobs_active, jobsDone, queued, runs, spurious>>

\* pthread_cond_wait(&cond_req): gives the mutex back and waits.
Sleep(w) ==
    /\ pc[w] = "sleep"
    /\ mutex' = Nobody
    /\ Goto(w, "waiting")
    /\ UNCHANGED <<id, job, cpc, created, numThreads, numRunning, exit, jobs_req,
                   jobs_active, jobsDone, queued, runs, spurious>>

SpuriousWakeup(w) ==
    /\ pc[w] = "waiting"
    /\ spurious > 0
    /\ spurious' = spurious - 1
    /\ Goto(w, "lock")
    /\ UNCHANGED <<id, job, cpc, created, numThreads, poolVars, queued, runs>>

\* The exit flag wins over queued jobs.
SeeExit(w) ==
    /\ pc[w] = "lock" /\ mutex = Nobody
    /\ exit
    /\ Goto(w, "leave")
    /\ UNCHANGED <<id, job, cpc, created, numThreads, poolVars, queued, runs, spurious>>

\* Mutant: leaves the job at the head of the queue.
DequeueJobNot == jobs_req

\* poolworker_dequeue_job
DequeueJob == Tail(jobs_req)

TakeJob(w) ==
    /\ pc[w] = "lock" /\ mutex = Nobody
    /\ jobs_req # <<>> /\ ~exit
    /\ job' = [job EXCEPT ![w] = Head(jobs_req)]
    /\ jobs_active' = jobs_active \cup {Head(jobs_req)}
    /\ jobs_req' = DequeueJob
    /\ Goto(w, "execute")
    /\ UNCHANGED <<id, cpc, created, numThreads, numRunning, exit, mutex, jobsDone,
                   queued, runs, spurious>>

ExecuteJob(w) ==
    /\ pc[w] = "execute"
    /\ runs' = [runs EXCEPT ![job[w]] = @ + 1]
    /\ Goto(w, "remove")
    /\ UNCHANGED <<id, job, cpc, created, numThreads, poolVars, queued, spurious>>

RemoveJob(w) ==
    /\ pc[w] = "remove" /\ mutex = Nobody
    /\ jobs_active' = jobs_active \ {job[w]}
    /\ job' = [job EXCEPT ![w] = NoJob]
    /\ Goto(w, "signal")
    /\ UNCHANGED <<id, cpc, created, numThreads, numRunning, exit, mutex, jobs_req,
                   jobsDone, queued, runs, spurious>>

\* The job is counted and cond_cmp signalled, both without the mutex.
SignalCmp(w) ==
    /\ pc[w] = "signal"
    /\ jobsDone' = [jobsDone EXCEPT ![id[w]] = @ + 1]
    /\ cpc' = CASE cpc = "waiting" -> "wait" [] cpc = "waitingOne" -> "idle"
                [] OTHER -> cpc
    /\ Goto(w, "lock")
    /\ UNCHANGED <<id, job, created, numThreads, numRunning, exit, mutex, jobs_req,
                   jobs_active, queued, runs, spurious>>

CountOut(w) ==
    /\ pc[w] = "leave"
    /\ numRunning' = numRunning - 1
    /\ Goto(w, "gone")
    /\ UNCHANGED <<id, job, cpc, created, numThreads, exit, mutex, jobs_req,
                   jobs_active, jobsDone, queued, runs, spurious>>

ThreadExit(w) ==
    /\ pc[w] = "gone"
    /\ Goto(w, "exited")
    /\ UNCHANGED <<id, job, cpc, created, numThreads, poolVars, queued, runs, spurious>>

WorkerStep(w) ==
    \/ ReadId(w) \/ CountIn(w) \/ FindNothing(w) \/ Sleep(w) \/ SeeExit(w)
    \/ TakeJob(w) \/ ExecuteJob(w) \/ RemoveJob(w) \/ SignalCmp(w) \/ CountOut(w)
    \/ ThreadExit(w)

-----------------------------------------------------------------------------
(* The client *)

\* Mutant: does not wait for the thread it created.
MayCreateNextAnyway == TRUE

\* poolworker_create spins until the last thread created has counted itself.
MayCreateNext == numRunning = created

CreateThread ==
    /\ cpc = "create"
    /\ MayCreateNext
    /\ \/ /\ created < NumThreads
          /\ created' = created + 1
          /\ Goto(created + 1, "start")
          /\ UNCHANGED cpc
       \/ /\ created = NumThreads
          /\ cpc' = "idle"
          /\ UNCHANGED <<created, pc>>
    /\ UNCHANGED <<id, job, numThreads, poolVars, queued, runs, spurious>>

\* poolworker_queue_work: the job is queued under the mutex ...
QueueWork ==
    /\ cpc = "idle" /\ mutex = Nobody
    /\ queued < MaxJobs
    /\ queued' = queued + 1
    /\ jobs_req' = Append(jobs_req, queued + 1)
    /\ cpc' = "signal"
    /\ UNCHANGED <<pc, id, job, created, numThreads, numRunning, exit, mutex,
                   jobs_active, jobsDone, runs, spurious>>

\* Mutant: signals nobody.
SignalReqNobody == pc' = pc

\* ... and one of the workers waiting on cond_req is woken after it.
SignalReq ==
    \/ /\ \A w \in Workers : pc[w] # "waiting"
       /\ pc' = pc
    \/ \E w \in Workers : pc[w] = "waiting" /\ Goto(w, "lock")

QueueWorkEnd ==
    /\ cpc = "signal"
    /\ SignalReq
    /\ cpc' = "idle"
    /\ UNCHANGED <<id, job, created, numThreads, poolVars, queued, runs, spurious>>

StartWait ==
    /\ cpc = "idle"
    /\ cpc' \in {"wait", "waitOne"}
    /\ UNCHANGED <<pc, id, job, created, numThreads, poolVars, queued, runs, spurious>>

\* Mutant: looks at the queue only.
QuiescedQueue == jobs_req = <<>>

\* What poolworker_wait waits for.
Quiesced == Idle

\* poolworker_wait, poolworker_wait_for_one_cmp: the test under the mutex.
WaitTest ==
    /\ cpc \in {"wait", "waitOne"} /\ mutex = Nobody
    /\ \/ /\ Quiesced
          /\ cpc' = IF cpc = "wait" THEN "waited" ELSE "idle"
          /\ UNCHANGED mutex
       \/ /\ ~Quiesced
          /\ cpc' = IF cpc = "wait" THEN "sleep" ELSE "sleepOne"
          /\ mutex' = Client
    /\ UNCHANGED <<pc, id, job, created, numThreads, numRunning, exit, jobs_req,
                   jobs_active, jobsDone, queued, runs, spurious>>

\* pthread_cond_wait(&cond_cmp)
WaitSleep ==
    /\ cpc \in {"sleep", "sleepOne"}
    /\ cpc' = IF cpc = "sleep" THEN "waiting" ELSE "waitingOne"
    /\ mutex' = Nobody
    /\ UNCHANGED <<pc, id, job, created, numThreads, numRunning, exit, jobs_req,
                   jobs_active, jobsDone, queued, runs, spurious>>

ClientSpuriousWakeup ==
    /\ cpc \in {"waiting", "waitingOne"}
    /\ spurious > 0
    /\ spurious' = spurious - 1
    /\ cpc' = IF cpc = "waiting" THEN "wait" ELSE "idle"
    /\ UNCHANGED <<pc, id, job, created, numThreads, poolVars, queued, runs>>

\* After a wait the client queues more work or destroys the pool.
Continue ==
    /\ cpc = "waited"
    /\ queued < MaxJobs
    /\ cpc' = "idle"
    /\ UNCHANGED <<pc, id, job, created, numThreads, poolVars, queued, runs, spurious>>

\* poolworker_destroy, after a wait or before any work.
Destroy ==
    /\ cpc = "waited" \/ (cpc = "idle" /\ queued = 0)
    /\ numThreads' = numRunning
    /\ exit' = TRUE
    /\ cpc' = "destroy"
    /\ UNCHANGED <<pc, id, job, created, numRunning, mutex, jobs_req, jobs_active,
                   jobsDone, queued, runs, spurious>>

\* Mutant: one broadcast for all.
BroadcastOnce == "join"

\* Where the client goes after a broadcast: it looks at numRunning again.
AfterBroadcast == "destroy"

Broadcast ==
    /\ cpc = "destroy"
    /\ numRunning # 0
    /\ pc' = [w \in Workers |-> IF pc[w] = "waiting" THEN "lock" ELSE pc[w]]
    /\ cpc' = AfterBroadcast
    /\ UNCHANGED <<id, job, created, numThreads, poolVars, queued, runs, spurious>>

AllCountedOut ==
    /\ cpc = "destroy"
    /\ numRunning = 0
    /\ cpc' = "join"
    /\ UNCHANGED <<pc, id, job, created, numThreads, poolVars, queued, runs, spurious>>

Joined == \A i \in 1..numThreads : pc[i] = "exited"

\* The threads are joined, the two ASSERTs evaluated, the pool freed.
Join ==
    /\ cpc = "join"
    /\ Joined
    /\ cpc' = IF Idle THEN "freed" ELSE "panic"
    /\ UNCHANGED <<pc, id, job, created, numThreads, poolVars, queued, runs, spurious>>

Freed == cpc = "freed" /\ UNCHANGED vars

ClientStep ==
    \/ CreateThread \/ QueueWorkEnd \/ WaitTest \/ WaitSleep
    \/ Broadcast \/ AllCountedOut \/ Join

ClientChoice == QueueWork \/ StartWait \/ Continue \/ Destroy

Next ==
    \/ \E w \in Workers : WorkerStep(w) \/ SpuriousWakeup(w)
    \/ ClientStep \/ ClientChoice \/ ClientSpuriousWakeup \/ Freed

Spec == Init /\ [][Next]_vars

\* The scheduler runs every thread that can run, and jobs return.
Fairness == /\ \A w \in Workers : WF_vars(WorkerStep(w))
            /\ WF_vars(ClientStep)

FairSpec == Spec /\ Fairness

-----------------------------------------------------------------------------
(* Correctness *)

Elements(s) == {s[i] : i \in DOMAIN s}

Labels == {"none", "start", "count", "lock", "sleep", "waiting", "execute", "remove",
           "signal", "leave", "gone", "exited"}

\* The state has the shape the C structures give it.
TypeOK ==
    /\ pc \in [Workers -> Labels]
    /\ id \in [Workers -> Workers \cup {0}]
    /\ job \in [Workers -> Jobs \cup {NoJob}]
    /\ cpc \in {"create", "idle", "signal", "wait", "waitOne", "sleep", "sleepOne",
                "waiting", "waitingOne", "waited", "destroy", "join", "freed", "panic"}
    /\ created \in 0..NumThreads /\ numThreads \in 0..NumThreads
    /\ numRunning \in 0..NumThreads
    /\ exit \in BOOLEAN
    /\ mutex \in Workers \cup {Client, Nobody}
    /\ jobs_req \in Seq(Jobs) /\ jobs_active \subseteq Jobs
    /\ jobsDone \in [Workers -> Nat]
    /\ queued \in 0..MaxJobs
    /\ runs \in [Jobs -> Nat]
    /\ spurious \in 0..MaxSpurious

\* No job is run twice, and none vanishes: a queued job that has not run is in
\* the queue, or is held by exactly one worker (poolworker_main).
ExactlyOnce ==
    \A j \in 1..queued :
        /\ runs[j] =< 1
        /\ runs[j] = 0 => \/ j \in Elements(jobs_req)
                          \/ \E w \in Workers : job[w] = j /\ pc[w] = "execute"
        /\ \A v, w \in Workers : job[v] = j /\ job[w] = j => v = w

\* poolworker_wait returns only when every job queued before has returned, so
\* that ipinfo_exit may free what the jobs work on.
WaitMeansDone ==
    cpc \in {"waited", "destroy", "join", "freed"} =>
        \A j \in 1..queued : runs[j] = 1

\* Each worker counts its jobs in a slot of its own, although every worker
\* derives its id from the counter that all of them increment.
OwnSlot ==
    \A v, w \in Workers : id[v] = id[w] /\ id[v] # 0 => v = w

\* Neither wait blocks for ever: no wakeup is lost between the test and the
\* wait although signals are sent without the mutex.  And poolworker_destroy
\* returns, whatever the workers were doing when the exit flag was set, with no
\* thread of the pool left to run into what main tears down next.
CallsReturn ==
    /\ cpc \in {"wait", "waitOne"} ~> cpc \in {"waited", "idle"}
    /\ cpc = "destroy" ~> cpc = "freed" /\ \A w \in Workers : pc[w] \in {"none", "exited"}

=============================================================================
