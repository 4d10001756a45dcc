------------------------------ MODULE AppThreads ------------------------------
(***************************************************************************)
(* The threads of the application, apps/cli/main.c and apps/cli/bitc_ui.c: *)
(* how the main thread starts the user interface, how the two send each    *)
(* other requests through a list and a pipe, and how everything is torn    *)
(* down while the user, a signal and resolver jobs are still active.  A    *)
(* failed ASSERT is the main thread's place "panic"; the other threads may *)
(* run on for a while.                                                     *)
(*                                                                         *)
(* A request is first put on the receiver's list under the receiver's lock *)
(* and then announced by a byte in its pipe; the receiver empties the pipe *)
(* and then, under its lock, the list.  The pool is seen from outside: a   *)
(* set of jobs that run by themselves (module PoolWorker).                 *)
(***************************************************************************)
EXTENDS Integers, Sequences, FiniteSets

CONSTANTS
    Jobs,          \* resolver jobs that may be queued
    PipeCap,       \* bytes a pipe holds (65536)
    StdinWrites,   \* whether a byte can be written to the standard input
    MaxUpdates,    \* bound on what the main thread publishes to the UI
    MaxKeys,       \* bound on keys pressed
    MaxSignals     \* bound on CTRL-C

ASSUME ThreadsAssumption ==
    /\ PipeCap \in Nat \ {0}
    /\ StdinWrites \subseteq BOOLEAN
    /\ MaxUpdates \in Nat /\ MaxKeys \in Nat /\ MaxSignals \in Nat

VARIABLES
    inuse,         \* btcui->inuse: there is a user interface
    mpc,           \* where the main thread is
    upc,           \* where the UI thread is
    stop,          \* btc->stop
    state,         \* btc->state: "STARTING" for all states before READY
    fd,            \* btc->notifyFd: 0 before bitc_req_init, -1 after bitc_req_exit
    reqList, reqPipe,       \* requests to the main thread, bytes in its pipe
    snapshot,      \* reqList as bitc_process_events read it without the lock
    uiList, uiPipe,         \* kinds of requests to the UI, bytes in its pipe
    uiStop,        \* btcui->stop
    jst,           \* state of each resolver job
    early,         \* payments put on the list before stop was set
    sent,          \* payments executed
    budget

mainVars == <<stop, state, fd, reqList, reqPipe, snapshot>>
uiVars   == <<uiList, uiPipe, uiStop>>
vars == <<inuse, mpc, upc, mainVars, uiVars, jst, early, sent, budget>>

Init ==
    /\ inuse \in BOOLEAN
    /\ mpc = "start" /\ upc = "none"
    /\ stop = 0 /\ state = "STARTING" /\ fd = "unset"
    /\ reqList = <<>> /\ reqPipe = 0 /\ snapshot = <<>>
    /\ uiList = {} /\ uiPipe = 0 /\ uiStop = FALSE
    /\ jst = [j \in Jobs |-> "none"]
    /\ early = 0 /\ sent = 0
    /\ budget = [updates |-> MaxUpdates, keys |-> MaxKeys, signals |-> MaxSignals]

\* write(btc->notifyFd) and the ASSERT on its result.  Before the pipe exists
\* the descriptor is 0, the standard input, which may or may not be writable.
NotifyMain(ok) ==
    \/ fd = "open" /\ reqPipe < PipeCap /\ reqPipe' = reqPipe + 1 /\ ok
    \/ fd = "unset" /\ UNCHANGED reqPipe /\ ok \in StdinWrites
    \/ fd = "closed" /\ UNCHANGED reqPipe /\ ~ok

Payments(reqs) == Cardinality({i \in DOMAIN reqs : reqs[i] = "tx"})

JobsIdle == \A j \in Jobs : jst[j] \in {"none", "done"}

-----------------------------------------------------------------------------
(* The main thread: start *)

\* bitcui_start: the thread is created ...
UiStart ==
    /\ mpc = "start"
    /\ \/ ~inuse /\ mpc' = "init" /\ UNCHANGED upc
       \/ inuse /\ mpc' = "starting" /\ upc' = "init"
    /\ UNCHANGED <<inuse, mainVars, uiVars, jst, early, sent, budget>>

\* ... and its condition variable waited for, without a predicate.
UiStartWait ==
    /\ mpc = "starting"
    /\ mpc' = "blocked"
    /\ UNCHANGED <<inuse, upc, mainVars, uiVars, jst, early, sent, budget>>

\* bitc_init opens the request pipe; opening the stores may fail.
BitcInit ==
    /\ mpc = "init"
    /\ fd' = "open"
    /\ mpc' \in {"loop", "events"}
    /\ UNCHANGED <<inuse, upc, stop, state, reqList, reqPipe, snapshot, uiVars, jst,
                   early, sent, budget>>

-----------------------------------------------------------------------------
(* The main thread: poll_runloop *)

\* The UI is told something new (bitcui_set_*); with peer information, jobs
\* are queued for the peers not seen yet (bitcui_async_resolve_peers).  While
\* the peers are being destroyed, this happens only if state is not EXITING:
\* peergroup_notify_destroy then looks for new peers.
Publish ==
    /\ mpc = "loop" \/ (mpc = "closing" /\ state # "EXITING")
    /\ inuse
    /\ budget.updates > 0
    /\ budget' = [budget EXCEPT !.updates = @ - 1]
    /\ uiList' = uiList \cup {"update"}
    /\ \E new \in SUBSET {j \in Jobs : jst[j] = "none"} :
          jst' = [j \in Jobs |-> IF j \in new THEN "queued" ELSE jst[j]]
    /\ mpc' = IF mpc = "loop" THEN "publishing" ELSE "closingPublish"
    /\ UNCHANGED <<inuse, upc, mainVars, uiPipe, uiStop, early, sent>>

\* bitcui_req_notify: blocks while the UI's pipe is full.
PublishNotify ==
    /\ mpc \in {"publishing", "closingPublish"}
    /\ uiPipe < PipeCap
    /\ uiPipe' = uiPipe + 1
    /\ mpc' = IF mpc = "publishing" THEN "loop" ELSE "closing"
    /\ UNCHANGED <<inuse, upc, mainVars, uiList, uiStop, jst, early, sent, budget>>

\* A poll handler asks for the end of the program (bitc_req_stop).
SelfStop ==
    /\ mpc = "loop" /\ stop = 0
    /\ stop' = 1
    /\ reqList' = Append(reqList, "stop")
    /\ NotifyMain(TRUE)
    /\ UNCHANGED <<inuse, mpc, upc, state, fd, snapshot, uiVars, jst, early, sent, budget>>

\* peergroup_download_complete: from now on the user may open the payment form.
Ready ==
    /\ mpc = "loop" /\ state = "STARTING"
    /\ state' = "READY"
    /\ UNCHANGED <<inuse, mpc, upc, stop, fd, reqList, reqPipe, snapshot, uiVars, jst,
                   early, sent, budget>>

\* Mutant: looks at the list first and empties the pipe afterwards.
ListBeforePipeYes == TRUE

\* The order of the two halves of bitc_req_cb: the pipe is emptied first.
ListBeforePipe == FALSE

HandleReqs(reqs) ==
    /\ sent' = sent + Payments(reqs)
    /\ IF \E i \in DOMAIN reqs : reqs[i] = "stop"
       THEN stop' = 1 /\ state' = "EXITING"
       ELSE stop' = stop /\ state' = IF stop = 2 THEN "EXITING" ELSE state

ReqCbPipe ==
    /\ mpc \in {"loop", "reqCb"}
    /\ (mpc = "loop") = ~ListBeforePipe
    /\ mpc = "loop" => reqPipe > 0
    /\ reqPipe' = 0
    /\ mpc' = IF mpc = "loop" THEN "reqCb" ELSE "loop"
    /\ UNCHANGED <<inuse, upc, stop, state, fd, reqList, snapshot, uiVars, jst, early,
                   sent, budget>>

\* bitc_process_events, under btc->lock.
ReqCbList ==
    /\ mpc \in {"loop", "reqCb"}
    /\ (mpc = "loop") = ListBeforePipe
    /\ mpc = "loop" => reqPipe > 0
    /\ HandleReqs(reqList)
    /\ reqList' = <<>>
    /\ mpc' = IF mpc = "loop" THEN "reqCb" ELSE "loop"
    /\ UNCHANGED <<inuse, upc, fd, reqPipe, snapshot, uiVars, jst, early, budget>>

\* poll_runloop has returned.
LeaveLoop ==
    /\ mpc = "loop" /\ stop # 0
    /\ mpc' = "events"
    /\ UNCHANGED <<inuse, upc, mainVars, uiVars, jst, early, sent, budget>>

\* bitc_sigint_handler runs on the main thread, wherever that is.
Sigint ==
    /\ mpc \notin {"start", "done", "panic"}
    /\ budget.signals > 0
    /\ budget' = [budget EXCEPT !.signals = @ - 1]
    /\ stop' = 2
    /\ \E ok \in BOOLEAN :
          /\ NotifyMain(ok)
          /\ mpc' = IF ok THEN mpc ELSE "panic"
    /\ UNCHANGED <<inuse, upc, state, fd, reqList, snapshot, uiVars, jst, early, sent>>

-----------------------------------------------------------------------------
(* The main thread: exit *)

\* bitc_process_events once more, this time without btc->lock: the head of
\* the list is read here ...
FinalEvents ==
    /\ mpc = "events"
    /\ IF reqList = <<>>
       THEN mpc' = "closing" /\ UNCHANGED snapshot
       ELSE mpc' = "unlink" /\ snapshot' = reqList
    /\ state' = IF stop = 2 THEN "EXITING" ELSE state
    /\ UNCHANGED <<inuse, upc, stop, fd, reqList, reqPipe, uiVars, jst, early, sent, budget>>

\* ... and taken off here: a request added in between may be cut off with it.
FinalUnlink ==
    /\ mpc = "unlink"
    /\ reqList' \in {Tail(reqList), Tail(snapshot)}
    /\ snapshot' = <<>>
    /\ HandleReqs(<<Head(reqList)>>)
    /\ mpc' = "events"
    /\ UNCHANGED <<inuse, upc, fd, reqPipe, uiVars, jst, early, budget>>

\* bitc_exit: peers, stores, the request pipe and the configuration go.
BitcExit ==
    /\ mpc = "closing"
    /\ fd' = "closed"
    /\ mpc' = "uiStop"
    /\ UNCHANGED <<inuse, upc, stop, state, reqList, reqPipe, snapshot, uiVars, jst,
                   early, sent, budget>>

\* Mutant: forgets bitcui_req_exit.
ExitRequestsNone == {"update"}

\* What bitcui_stop sends to the UI.
ExitRequests == {"update", "exit"}

UiStopRequests ==
    /\ mpc = "uiStop"
    /\ IF inuse
       THEN /\ uiPipe + Cardinality(ExitRequests) =< PipeCap
            /\ uiList' = uiList \cup ExitRequests
            /\ uiPipe' = uiPipe + Cardinality(ExitRequests)
            /\ mpc' = "join"
       ELSE mpc' = "poolWait" /\ UNCHANGED <<uiList, uiPipe>>
    /\ UNCHANGED <<inuse, upc, mainVars, uiStop, jst, early, sent, budget>>

\* The UI thread is joined and the UI's lock freed.
UiJoin ==
    /\ mpc = "join"
    /\ upc = "ended"
    /\ mpc' = "poolWait"
    /\ UNCHANGED <<inuse, upc, mainVars, uiVars, jst, early, sent, budget>>

\* poolworker_wait, ipinfo_exit, poolworker_destroy.
PoolWait ==
    /\ mpc = "poolWait"
    /\ JobsIdle
    /\ mpc' = "done"
    /\ UNCHANGED <<inuse, upc, mainVars, uiVars, jst, early, sent, budget>>

-----------------------------------------------------------------------------
(* The UI thread *)

\* bitcui_init; then the condition variable is signalled, heard or not.
UiInit ==
    /\ upc = "init"
    /\ upc' = "loop"
    /\ mpc' = IF mpc = "blocked" THEN "init" ELSE mpc
    /\ UNCHANGED <<inuse, mainVars, uiVars, jst, early, sent, budget>>

\* bitcui_notify_cb: the pipe, then the list.
UiCbPipe ==
    /\ upc = "loop" /\ uiPipe > 0
    /\ uiPipe' = 0
    /\ upc' = "notifyCb"
    /\ UNCHANGED <<inuse, mpc, mainVars, uiList, uiStop, jst, early, sent, budget>>

UiCbList ==
    /\ upc = "notifyCb"
    /\ uiList' = {}
    /\ uiStop' = (uiStop \/ "exit" \in uiList)
    /\ upc' = IF uiStop' THEN "exit" ELSE "loop"
    /\ UNCHANGED <<inuse, mpc, mainVars, uiPipe, jst, early, sent, budget>>

\* A key: ncui_input_cb first shows a status line, a request of the UI to
\* itself.  'q' asks for the end, the payment form for a transaction.
Key(req) ==
    /\ upc = "loop"
    /\ req = "tx" => state # "STARTING"
    /\ budget.keys > 0
    /\ budget' = [budget EXCEPT !.keys = @ - 1]
    /\ uiPipe < PipeCap
    /\ uiList' = uiList \cup {"update"}
    /\ uiPipe' = uiPipe + 1
    /\ stop' = IF req = "stop" THEN 1 ELSE stop
    /\ upc' = IF req = "stop" THEN "reqStop" ELSE "reqTx"
    /\ UNCHANGED <<inuse, mpc, state, fd, reqList, reqPipe, snapshot, uiStop, jst,
                   early, sent>>

\* bitc_req_enqueue, under btc->lock, which bitc_process_events holds too
\* unless it is the one on the exit path.
Enqueue ==
    /\ upc \in {"reqStop", "reqTx"}
    /\ reqList' = Append(reqList, IF upc = "reqStop" THEN "stop" ELSE "tx")
    /\ early' = IF upc = "reqTx" /\ stop = 0 THEN early + 1 ELSE early
    /\ upc' = "notify"
    /\ UNCHANGED <<inuse, mpc, stop, state, fd, reqPipe, snapshot, uiVars, jst, sent,
                   budget>>

\* bitc_req_notify
Notify ==
    /\ upc = "notify"
    /\ \E ok \in BOOLEAN :
          /\ NotifyMain(ok)
          /\ mpc' = IF ok THEN mpc ELSE "panic"
    /\ upc' = "loop"
    /\ UNCHANGED <<inuse, stop, state, fd, reqList, snapshot, uiVars, jst, early, sent,
                   budget>>

\* Mutant: leaves the jobs to main's own poolworker_wait.
UiMayEndAnyway == TRUE

\* bitcui_exit waits for the pool before it takes the UI apart.
UiMayEnd == JobsIdle

UiExit ==
    /\ upc = "exit"
    /\ UiMayEnd
    /\ upc' = "ended"
    /\ uiPipe' = 0 /\ uiList' = {}
    /\ UNCHANGED <<inuse, mpc, mainVars, uiStop, jst, early, sent, budget>>

-----------------------------------------------------------------------------
(* The resolver jobs: ipinfo_resolve_name_cb, ipinfo_resolve_geo_cb *)

JobStart(j) ==
    /\ jst[j] = "queued"
    /\ jst' = [jst EXCEPT ![j] = IF stop # 0 \/ state = "EXITING" THEN "done" ELSE "lookup"]
    /\ UNCHANGED <<inuse, mpc, upc, mainVars, uiVars, early, sent, budget>>

\* The lookup may fail, or end in a request to the UI, made under btcui->lock.
\* It may also never end: ipinfo_resolve_geo_cb gives libcurl no timeout.
JobLookup(j) ==
    /\ jst[j] = "lookup"
    /\ \/ jst' = [jst EXCEPT ![j] = "done"] /\ UNCHANGED uiList
       \/ jst' = [jst EXCEPT ![j] = "notify"] /\ uiList' = uiList \cup {"update"}
    /\ UNCHANGED <<inuse, mpc, upc, mainVars, uiPipe, uiStop, early, sent, budget>>

JobNotify(j) ==
    /\ jst[j] = "notify"
    /\ uiPipe < PipeCap
    /\ uiPipe' = uiPipe + 1
    /\ jst' = [jst EXCEPT ![j] = "done"]
    /\ UNCHANGED <<inuse, mpc, upc, mainVars, uiList, uiStop, early, sent, budget>>

-----------------------------------------------------------------------------
MainStep ==
    \/ UiStart \/ UiStartWait \/ BitcInit \/ PublishNotify \/ ReqCbPipe \/ ReqCbList
    \/ LeaveLoop \/ FinalEvents \/ FinalUnlink \/ BitcExit \/ UiStopRequests
    \/ UiJoin \/ PoolWait

UiStep  == UiInit \/ UiCbPipe \/ UiCbList \/ Enqueue \/ Notify \/ UiExit
JobStep == \E j \in Jobs : JobStart(j) \/ JobLookup(j) \/ JobNotify(j)

Next ==
    \/ MainStep \/ Publish \/ SelfStop \/ Ready \/ Sigint
    \/ UiStep \/ Key("stop") \/ Key("tx")
    \/ JobStep

Spec == Init /\ [][Next]_vars

\* What a job does by itself, outside the lookup.
JobRun(j) == JobStart(j) \/ JobNotify(j)

\* The scheduler runs every thread that can run.  A lookup need not return.
Fairness == /\ WF_vars(MainStep)
            /\ WF_vars(UiStep)
            /\ \A j \in Jobs : WF_vars(JobRun(j))

FairSpec == Spec /\ Fairness

-----------------------------------------------------------------------------
(* Correctness *)

\* The state has the shape the C structures give it.
TypeOK ==
    /\ inuse \in BOOLEAN
    /\ mpc \in {"start", "starting", "blocked", "init", "loop", "publishing", "reqCb",
                "events", "unlink", "closing", "closingPublish", "uiStop", "join",
                "poolWait", "done", "panic"}
    /\ upc \in {"none", "init", "loop", "notifyCb", "reqStop", "reqTx", "notify", "exit",
                "ended"}
    /\ stop \in 0..2 /\ state \in {"STARTING", "READY", "EXITING"}
    /\ fd \in {"unset", "open", "closed"}
    /\ reqList \in Seq({"stop", "tx"}) /\ snapshot \in Seq({"stop", "tx"})
    /\ uiList \subseteq {"update", "exit"}
    /\ reqPipe \in 0..PipeCap /\ uiPipe \in 0..PipeCap
    /\ uiStop \in BOOLEAN
    /\ jst \in [Jobs -> {"none", "queued", "lookup", "notify", "done"}]
    /\ early \in 0..MaxKeys /\ sent \in 0..MaxKeys
    /\ budget \in [updates : 0..MaxUpdates, keys : 0..MaxKeys, signals : 0..MaxSignals]

\* A request on a list is announced: while its receiver waits in its loop,
\* there is a byte in the pipe, somebody is about to write one, or stop is set
\* and ends the loop.  Otherwise a request would sit there until the next,
\* unrelated one.  And a payment asked for before anything asked the program to
\* stop is made before the wallet goes away: bitc_process_events is called once
\* more after the loop.
RequestsReachMain ==
    /\ mpc = "loop" /\ reqList # <<>> => reqPipe > 0 \/ upc = "notify" \/ stop # 0
    /\ upc = "loop" /\ uiList # {} =>
          \/ uiPipe > 0
          \/ mpc \in {"publishing", "closingPublish", "panic"}
          \/ \E j \in Jobs : jst[j] = "notify"
    /\ mpc \in {"closing", "uiStop", "join", "poolWait", "done"} => sent >= early

\* The UI's lock, list and pipe outlive the last resolver job that uses them
\* (bitcui_exit waits for the pool before bitcui_stop frees them).
JobsSeeLiveUi ==
    upc = "ended" => \A j \in Jobs : jst[j] \notin {"lookup", "notify"}

\* Once the program has been asked to stop, both threads and all jobs end,
\* unless an ASSERT ends the process first.  The one thing that may hold the
\* exit is a lookup that never returns, on which poolworker_wait of bitcui_exit
\* waits.
StopEnds ==
    (mpc = "loop" /\ stop # 0)
        ~> (mpc \in {"done", "panic"} \/ \E j \in Jobs : [](jst[j] = "lookup"))

-----------------------------------------------------------------------------
(* A claim of the code that does not hold: see README.md *)

\* The byte that announces a request to the main thread can always be written:
\* ASSERT(res == 1) of bitc_req_notify.
NotifyDelivered == mpc # "panic"

=============================================================================
