--------------------------- MODULE AppThreadsProofs ---------------------------
(***************************************************************************)
(* Proofs about the application's threads, for any number of resolver      *)
(* jobs, any pipe capacity and any number of keys, signals and updates:    *)
(*                                                                         *)
(*   - a request on a list is announced, and a payment asked for before    *)
(*     the program was asked to stop is made (RequestsReachMain);          *)
(*   - no resolver job uses the interface once it is gone (JobsSeeLiveUi). *)
(*                                                                         *)
(* ControlInv says how far each thread can be when the other is at a given *)
(* place; AnnounceInv and PaymentInv extend the two claims to the places   *)
(* between a request's being put on a list and its being handled.  The     *)
(* unlocked bitc_process_events of the exit path loses requests; the       *)
(* payments it loses were all asked for after stop was set.                *)
(***************************************************************************)
EXTENDS AppThreads, FiniteSetTheorems, SequenceTheorems, TLAPS

Req    == {"stop", "tx"}
Before == {"start", "starting", "blocked", "init"}
Open   == {"loop", "publishing", "reqCb", "events", "unlink", "closing", "closingPublish"}
Closed == {"uiStop", "join", "poolWait", "done"}
Past   == {"closing", "closingPublish"} \cup Closed

\* TypeOK without the bounds on the history counters.
Types ==
    /\ inuse \in BOOLEAN
    /\ mpc \in Before \cup Open \cup Closed \cup {"panic"}
    /\ upc \in {"none", "init", "loop", "notifyCb", "reqStop", "reqTx", "notify", "exit",
                "ended"}
    /\ stop \in 0..2 /\ state \in {"STARTING", "READY", "EXITING"}
    /\ fd \in {"unset", "open", "closed"}
    /\ reqList \in Seq(Req) /\ snapshot \in Seq(Req)
    /\ uiList \subseteq {"update", "exit"}
    /\ reqPipe \in 0..PipeCap /\ uiPipe \in 0..PipeCap
    /\ uiStop \in BOOLEAN
    /\ jst \in [Jobs -> {"none", "queued", "lookup", "notify", "done"}]
    /\ early \in Nat /\ sent \in Nat
    /\ budget \in [updates : 0..MaxUpdates, keys : 0..MaxKeys, signals : 0..MaxSignals]

\* The main thread's places and the request pipe, the interface's and its end.
ControlInv ==
    /\ mpc \in Before => fd = "unset" /\ state = "STARTING"
    /\ mpc = "start" => upc = "none"
    /\ mpc \in Open => fd = "open"
    /\ mpc \in Closed => fd = "closed"
    /\ inuse /\ upc \in {"none", "init"} => mpc \in {"start", "starting", "blocked", "panic"}
    /\ ~inuse => upc = "none"
    /\ upc \in {"none", "init"} => uiList = {} /\ \A j \in Jobs : jst[j] = "none"
    /\ uiStop \/ "exit" \in uiList => mpc \in {"join", "poolWait", "done", "panic"}
    /\ upc \in {"exit", "ended"} => uiStop
    /\ upc = "ended" => JobsIdle

\* A listed request is announced wherever its receiver next returns to its loop.
AnnounceInv ==
    /\ mpc \in {"loop", "publishing"} /\ reqList # <<>> =>
          reqPipe > 0 \/ upc = "notify" \/ stop # 0
    /\ state = "STARTING" /\ reqList # <<>> => stop # 0
    /\ upc = "reqStop" => stop # 0
    /\ upc \in {"loop", "reqStop", "reqTx", "notify"} /\ uiList # {} =>
          \/ uiPipe > 0
          \/ mpc \in {"publishing", "closingPublish", "panic"}
          \/ \E j \in Jobs : jst[j] = "notify"

\* The form of a payment that is still in the user interface.
Form == IF upc = "reqTx" THEN 1 ELSE 0

IsStart(s, t) == Len(s) =< Len(t) /\ \A i \in 1..Len(s) : s[i] = t[i]

\* Early payments are sent or listed; the unlocked reader's copy of the list has
\* all that are not sent yet, because it was made after stop was set.
PaymentInv ==
    /\ upc = "reqTx" => state # "STARTING"
    /\ mpc \in {"events", "unlink"} \cup Past => stop # 0 \/ state = "STARTING"
    /\ early + budget.keys + Form =< MaxKeys
    /\ sent + Payments(reqList) + budget.keys + Form =< MaxKeys
    /\ sent + Payments(reqList) >= early
    /\ mpc = "unlink" =>
          /\ snapshot # <<>> /\ IsStart(snapshot, reqList)
          /\ sent + Payments(snapshot) >= early
    /\ mpc \in Past => sent >= early

-----------------------------------------------------------------------------
(* Payments on a list *)

TxAt(s) == {i \in DOMAIN s : s[i] = "tx"}

\* The number of payments on a list is a number.
LEMMA PaymentsType ==
    ASSUME NEW s \in Seq(Req)
    PROVE  /\ Payments(s) = Cardinality(TxAt(s)) /\ Payments(s) \in Nat
           /\ IsFiniteSet(TxAt(s)) /\ TxAt(s) \subseteq 1..Len(s)
<1>1. IsFiniteSet(1..Len(s))
  BY FS_Interval
<1>2. TxAt(s) \subseteq 1..Len(s)
  BY DEF TxAt
<1>3. Payments(s) = Cardinality(TxAt(s))
  BY DEF Payments, TxAt
<1> QED
  BY <1>1, <1>2, <1>3, FS_Subset, FS_CardinalityType

\* An empty list has none.
LEMMA PaymentsEmpty == Payments(<<>>) = 0
<1>1. {i \in DOMAIN <<>> : (<<>>)[i] = "tx"} = {}
  OBVIOUS
<1> QED
  BY <1>1, FS_EmptySet DEF Payments

\* bitc_req_enqueue adds one if the request is a payment.
LEMMA PaymentsAppend ==
    ASSUME NEW s \in Seq(Req), NEW r \in Req
    PROVE  Payments(Append(s, r)) = Payments(s) + IF r = "tx" THEN 1 ELSE 0
<1>1. Append(s, r) \in Seq(Req)
  OBVIOUS
<1>2. Len(s) + 1 \notin TxAt(s)
  BY DEF TxAt
<1>5. /\ Payments(Append(s, r)) = Cardinality(TxAt(Append(s, r)))
      /\ Payments(s) = Cardinality(TxAt(s)) /\ Payments(s) \in Nat /\ IsFiniteSet(TxAt(s))
  BY <1>1, PaymentsType
<1>3. CASE r = "tx"
  <2>1. TxAt(Append(s, r)) = TxAt(s) \cup {Len(s) + 1}
    BY <1>3 DEF TxAt
  <2> QED
    BY <2>1, <1>2, <1>3, <1>5, FS_AddElement, ZenonT(60)
<1>4. CASE r # "tx"
  <2>1. TxAt(Append(s, r)) = TxAt(s)
    BY <1>4 DEF TxAt
  <2> QED
    BY <2>1, <1>4, <1>5
<1> QED
  BY <1>3, <1>4

\* Taking the first request off the list takes it out of the count.
LEMMA PaymentsTail ==
    ASSUME NEW s \in Seq(Req), s # <<>>
    PROVE  Payments(s) = Payments(<<Head(s)>>) + Payments(Tail(s))
<1>1. Tail(s) \in Seq(Req) /\ <<Head(s)>> \in Seq(Req)
  OBVIOUS
<1> DEFINE T == TxAt(s)
           R == TxAt(Tail(s))
           f == [i \in R |-> i + 1]
<1>2. f \in Bijection(R, T \ {1})
  <2>1. f \in [R -> T \ {1}]
    BY DEF TxAt
  <2>2. ASSUME NEW a \in R, NEW b \in R, f[a] = f[b] PROVE a = b
    BY <2>2 DEF TxAt
  <2>3. ASSUME NEW t \in T \ {1} PROVE \E a \in R : f[a] = t
    <3>1. t - 1 \in R /\ f[t - 1] = t
      BY DEF TxAt
    <3> QED
      BY <3>1
  <2> QED
    BY <2>1, <2>2, <2>3, Zenon DEF Bijection, Injection, Surjection, IsInjective
<1>3. IsFiniteSet(T \ {1}) /\ Cardinality(T \ {1}) = Cardinality(R)
  <2>1. ExistsBijection(R, T \ {1})
    BY <1>2, Zenon DEF ExistsBijection
  <2>2. IsFiniteSet(R)
    BY <1>1, PaymentsType
  <2> HIDE DEF R, T
  <2> QED
    BY <2>1, <2>2, FS_Bijection
<1>4. /\ IsFiniteSet(T) /\ Cardinality(T) = Payments(s) /\ Cardinality(T) \in Nat
      /\ Cardinality(R) = Payments(Tail(s))
  BY <1>1, PaymentsType
<1>5. CASE Head(s) = "tx"
  <2>1. TxAt(<<Head(s)>>) = {1} /\ 1 \in T
    BY <1>5 DEF TxAt
  <2>2. Payments(<<Head(s)>>) = 1
    BY <2>1, <1>1, PaymentsType, FS_Singleton
  <2> HIDE DEF R, T
  <2>3. Cardinality(T \ {1}) = Cardinality(T) - 1
    BY <1>4, <2>1, FS_RemoveElement
  <2> QED
    BY <1>3, <1>4, <2>2, <2>3
<1>6. CASE Head(s) # "tx"
  <2>1. TxAt(<<Head(s)>>) = {} /\ 1 \notin T
    BY <1>6 DEF TxAt
  <2>2. Payments(<<Head(s)>>) = 0
    BY <2>1, <1>1, PaymentsType, FS_EmptySet
  <2> HIDE DEF R, T
  <2>3. Cardinality(T \ {1}) = Cardinality(T)
    BY <1>4, <2>1, FS_RemoveElement
  <2> QED
    BY <1>3, <1>4, <2>2, <2>3
<1> QED
  BY <1>5, <1>6

\* The start of a list has no more payments than the list.
LEMMA PaymentsStart ==
    ASSUME NEW s \in Seq(Req), NEW t \in Seq(Req), IsStart(s, t)
    PROVE  Payments(s) =< Payments(t)
<1>1. TxAt(s) \subseteq TxAt(t)
  BY DEF IsStart, TxAt
<1> QED
  BY <1>1, PaymentsType, FS_Subset

-----------------------------------------------------------------------------
(* Types *)

\* bitcui_stop writes two bytes to the pipe of the interface.
LEMMA TwoExitRequests == Cardinality(ExitRequests) = 2
<1>1. IsFiniteSet({"update"}) /\ Cardinality({"update"}) = 1
  BY FS_Singleton
<1>2. Cardinality({"update"} \cup {"exit"}) = 2
  BY <1>1, FS_AddElement
<1>3. ExitRequests = {"update"} \cup {"exit"}
  BY DEF ExitRequests
<1> QED
  BY <1>2, <1>3, Zenon

\* Announcing a request leaves the pipe as it is or adds a byte to it.
LEMMA NotifyPipe ==
    ASSUME NEW ok \in BOOLEAN, NotifyMain(ok)
    PROVE  \/ fd = "open" /\ ok /\ reqPipe < PipeCap /\ reqPipe' = reqPipe + 1
           \/ fd # "open" /\ reqPipe' = reqPipe
BY Zenon DEF NotifyMain

\* Every step of the three kinds of threads keeps the shape of the state.
LEMMA TypesStep == Types /\ PaymentInv /\ [Next]_vars => Types'
<1> SUFFICES ASSUME Types, PaymentInv, [Next]_vars PROVE Types'
  OBVIOUS
<1> USE ThreadsAssumption DEF Types, Req, Before, Open, Closed, mainVars, uiVars
<1>1. ASSUME UiStart \/ UiStartWait \/ BitcInit \/ LeaveLoop \/ FinalEvents \/ BitcExit
             \/ UiJoin \/ PoolWait \/ Ready
      PROVE Types'
  <2>1. CASE UiStart
    BY <2>1, SMTT(30) DEF UiStart
  <2>2. CASE UiStartWait \/ LeaveLoop \/ UiJoin \/ PoolWait
    <3>1. mpc' \in {"blocked", "events", "poolWait", "done"}
      BY <2>2 DEF UiStartWait, LeaveLoop, UiJoin, PoolWait
    <3>2. UNCHANGED <<inuse, upc, mainVars, uiVars, jst, early, sent, budget>>
      BY <2>2, Zenon DEF UiStartWait, LeaveLoop, UiJoin, PoolWait
    <3> QED
      BY <3>1, <3>2
  <2>3. CASE BitcInit
    BY <2>3, SMTT(30) DEF BitcInit
  <2>4. CASE FinalEvents
    BY <2>4, SMTT(30) DEF FinalEvents
  <2>5. CASE BitcExit
    BY <2>5, SMTT(30) DEF BitcExit
  <2>6. CASE Ready
    BY <2>6, SMTT(30) DEF Ready
  <2> QED
    BY <1>1, <2>1, <2>2, <2>3, <2>4, <2>5, <2>6
<1>2. ASSUME Publish PROVE Types'
  <2>1. budget' \in [updates : 0..MaxUpdates, keys : 0..MaxKeys, signals : 0..MaxSignals]
    <3>1. budget \in [updates : 0..MaxUpdates, keys : 0..MaxKeys, signals : 0..MaxSignals]
      OBVIOUS
    <3>2. budget.updates > 0 /\ budget' = [budget EXCEPT !.updates = @ - 1]
      BY <1>2 DEF Publish
    <3> HIDE DEF Types, PaymentInv
    <3> QED
      BY <3>1, <3>2, SMTT(30)
  <2>2. jst' \in [Jobs -> {"none", "queued", "lookup", "notify", "done"}]
    BY <1>2 DEF Publish
  <2>3. uiList' \subseteq {"update", "exit"} /\ mpc' \in Open
    BY <1>2 DEF Publish
  <2>4. UNCHANGED <<inuse, upc, mainVars, uiPipe, uiStop, early, sent>>
    BY <1>2, Zenon DEF Publish
  <2> QED
    BY <2>1, <2>2, <2>3, <2>4
<1>3. ASSUME PublishNotify PROVE Types'
  BY <1>3, SMTT(30) DEF PublishNotify
<1>4. ASSUME SelfStop PROVE Types'
  <2>1. reqList' \in Seq(Req)
    BY <1>4, AppendProperties DEF SelfStop
  <2>2. NotifyMain(TRUE)
    BY <1>4 DEF SelfStop
  <2>4. reqPipe' = reqPipe \/ (reqPipe < PipeCap /\ reqPipe' = reqPipe + 1)
    BY <2>2, NotifyPipe, Zenon
  <2>3. reqPipe' \in 0..PipeCap
    BY <2>4
  <2> QED
    BY <1>4, <2>1, <2>3, SMTT(30) DEF SelfStop
<1>5. ASSUME ReqCbPipe PROVE Types'
  BY <1>5, SMTT(30) DEF ReqCbPipe
<1>6. ASSUME NEW s \in Seq(Req), HandleReqs(s)
      PROVE stop' \in 0..2 /\ state' \in {"STARTING", "READY", "EXITING"} /\ sent' \in Nat
  BY <1>6, PaymentsType, SMTT(30) DEF HandleReqs
<1>7. ASSUME ReqCbList PROVE Types'
  <2>1. stop' \in 0..2 /\ state' \in {"STARTING", "READY", "EXITING"} /\ sent' \in Nat
    BY <1>6, <1>7 DEF ReqCbList
  <2> QED
    BY <2>1, <1>7 DEF ReqCbList
<1>8. ASSUME FinalUnlink, reqList # <<>>, snapshot # <<>> PROVE Types'
  <2>1. <<Head(reqList)>> \in Seq(Req)
    BY <1>8
  <2>2. stop' \in 0..2 /\ state' \in {"STARTING", "READY", "EXITING"} /\ sent' \in Nat
    BY <1>6, <1>8, <2>1 DEF FinalUnlink
  <2>3. Tail(reqList) \in Seq(Req) /\ Tail(snapshot) \in Seq(Req) /\ <<>> \in Seq(Req)
    BY <1>8, HeadTailProperties, EmptySeq
  <2>4. reqList' \in Seq(Req) /\ snapshot' \in Seq(Req)
    BY <1>8, <2>3, Zenon DEF FinalUnlink
  <2> QED
    BY <2>2, <2>4, <1>8, SMTT(30) DEF FinalUnlink
<1>9. ASSUME Sigint PROVE Types'
  BY <1>9, SMTT(30) DEF Sigint, NotifyMain
<1>10. ASSUME UiStopRequests PROVE Types'
  <2>1. Cardinality(ExitRequests) = 2
    BY TwoExitRequests
  <2>2. uiList' \subseteq {"update", "exit"} /\ uiPipe' \in 0..PipeCap
    <3>1. CASE inuse
      <4>1. uiPipe + 2 =< PipeCap /\ uiPipe' = uiPipe + 2
        BY <1>10, <2>1, <3>1, Zenon DEF UiStopRequests
      <4>2. uiList' = uiList \cup {"update", "exit"}
        BY <1>10, <3>1 DEF UiStopRequests, ExitRequests
      <4> QED
        BY <4>1, <4>2
    <3>2. CASE ~inuse
      BY <1>10, <3>2 DEF UiStopRequests
    <3> QED
      BY <3>1, <3>2
  <2> QED
    BY <1>10, <2>2, SMTT(30) DEF UiStopRequests
<1>11. ASSUME UiInit \/ UiCbPipe \/ UiCbList \/ UiExit PROVE Types'
  <2>1. CASE UiInit
    BY <2>1, SMTT(30) DEF UiInit
  <2>2. CASE UiCbPipe
    BY <2>2, SMTT(30) DEF UiCbPipe
  <2>3. CASE UiCbList
    BY <2>3, SMTT(30) DEF UiCbList
  <2>4. CASE UiExit
    BY <2>4, SMTT(30) DEF UiExit
  <2> QED
    BY <1>11, <2>1, <2>2, <2>3, <2>4
<1>12. ASSUME Enqueue PROVE Types'
  BY <1>12, SMTT(30) DEF Enqueue
<1>13. ASSUME Notify PROVE Types'
  BY <1>13, SMTT(30) DEF Notify, NotifyMain
<1>14. ASSUME NEW r \in Req, Key(r) PROVE Types'
  <2>1. budget' \in [updates : 0..MaxUpdates, keys : 0..MaxKeys, signals : 0..MaxSignals]
    <3>1. budget \in [updates : 0..MaxUpdates, keys : 0..MaxKeys, signals : 0..MaxSignals]
      OBVIOUS
    <3>2. budget.keys > 0 /\ budget' = [budget EXCEPT !.keys = @ - 1]
      BY <1>14 DEF Key
    <3> HIDE DEF Types, PaymentInv
    <3> QED
      BY <3>1, <3>2, SMTT(30)
  <2>2. /\ uiList' \subseteq {"update", "exit"} /\ uiPipe' \in 0..PipeCap
        /\ stop' \in 0..2 /\ upc' \in {"reqStop", "reqTx"}
    <3>1. uiList \subseteq {"update", "exit"} /\ uiPipe \in 0..PipeCap /\ stop \in 0..2
      OBVIOUS
    <3> HIDE DEF Types, PaymentInv
    <3> QED
      BY <1>14, <3>1, SMTT(30) DEF Key
  <2>3. UNCHANGED <<inuse, mpc, state, fd, reqList, reqPipe, snapshot, uiStop, jst, early, sent>>
    BY <1>14, Zenon DEF Key
  <2> QED
    BY <2>1, <2>2, <2>3
<1>15. ASSUME NEW j \in Jobs, JobStart(j) \/ JobLookup(j) \/ JobNotify(j) PROVE Types'
  <2>1. CASE JobStart(j)
    <3>1. \/ jst' = [jst EXCEPT ![j] = "done"]
          \/ jst' = [jst EXCEPT ![j] = "lookup"]
      BY <2>1 DEF JobStart
    <3>2. jst' \in [Jobs -> {"none", "queued", "lookup", "notify", "done"}]
      BY <3>1
    <3> QED
      BY <2>1, <3>2 DEF JobStart
  <2>2. CASE JobLookup(j)
    <3>1. \/ jst' = [jst EXCEPT ![j] = "done"]
          \/ jst' = [jst EXCEPT ![j] = "notify"]
      BY <2>2 DEF JobLookup
    <3>2. jst' \in [Jobs -> {"none", "queued", "lookup", "notify", "done"}]
      BY <3>1
    <3>3. uiList' \subseteq {"update", "exit"}
      BY <2>2 DEF JobLookup
    <3> QED
      BY <2>2, <3>2, <3>3 DEF JobLookup
  <2>3. CASE JobNotify(j)
    BY <2>3, SMTT(30) DEF JobNotify
  <2> QED
    BY <1>15, <2>1, <2>2, <2>3
<1>16. ASSUME UNCHANGED vars PROVE Types'
  BY <1>16, SMTT(30) DEF vars
<1>17. mpc = "unlink" => reqList # <<>> /\ snapshot # <<>>
  BY DEF PaymentInv, IsStart
<1>18. ASSUME FinalUnlink PROVE Types'
  BY <1>8, <1>17, <1>18 DEF FinalUnlink
<1> QED
  BY <1>1, <1>2, <1>3, <1>4, <1>5, <1>7, <1>18, <1>9, <1>10, <1>11, <1>12, <1>13, <1>14,
     <1>15, <1>16 DEF Next, MainStep, UiStep, JobStep
-----------------------------------------------------------------------------
(* How far each thread can be *)

\* The two threads start and stop in the order ControlInv says.
LEMMA ControlStep == Types /\ ControlInv /\ [Next]_vars => ControlInv'
<1> SUFFICES ASSUME Types, ControlInv, [Next]_vars PROVE ControlInv'
  OBVIOUS
<1> USE DEF Types, ControlInv, JobsIdle, Req, Before, Open, Closed, mainVars, uiVars
<1>1. ASSUME UiStart PROVE ControlInv'
  BY <1>1, SMTT(30) DEF UiStart
<1>2. ASSUME UiStartWait PROVE ControlInv'
  BY <1>2, SMTT(30) DEF UiStartWait
<1>3. ASSUME BitcInit PROVE ControlInv'
  BY <1>3, SMTT(30) DEF BitcInit
<1>4. ASSUME PublishNotify PROVE ControlInv'
  BY <1>4, SMTT(30) DEF PublishNotify
<1>5. ASSUME ReqCbPipe PROVE ControlInv'
  BY <1>5, SMTT(30) DEF ReqCbPipe, ListBeforePipe
<1>6. ASSUME ReqCbList PROVE ControlInv'
  BY <1>6, SMTT(30) DEF ReqCbList, ListBeforePipe, HandleReqs
<1>7. ASSUME LeaveLoop PROVE ControlInv'
  BY <1>7, SMTT(30) DEF LeaveLoop
<1>8. ASSUME FinalEvents PROVE ControlInv'
  BY <1>8, SMTT(30) DEF FinalEvents
<1>9. ASSUME FinalUnlink PROVE ControlInv'
  BY <1>9, SMTT(30) DEF FinalUnlink, HandleReqs
<1>10. ASSUME BitcExit PROVE ControlInv'
  BY <1>10, SMTT(30) DEF BitcExit
<1>11. ASSUME UiStopRequests PROVE ControlInv'
  <2>1. CASE inuse
    <3>1. mpc = "uiStop" /\ mpc' = "join" /\ uiList' \subseteq uiList \cup {"update", "exit"}
      BY <1>11, <2>1, Zenon DEF UiStopRequests, ExitRequests
    <3>2. upc \notin {"none", "init"}
      BY <2>1, <3>1
    <3> QED
      BY <1>11, <2>1, <3>1, <3>2, SMTT(30) DEF UiStopRequests
  <2>2. CASE ~inuse
    <3>1. mpc = "uiStop" /\ mpc' = "poolWait" /\ uiList' = uiList
      BY <1>11, <2>2, Zenon DEF UiStopRequests
    <3>2. UNCHANGED <<inuse, upc, mainVars, uiStop, jst, early, sent, budget>>
      BY <1>11, Zenon DEF UiStopRequests
    <3> QED
      BY <2>2, <3>1, <3>2, SMTT(30)
  <2> QED
    BY <2>1, <2>2
<1>12. ASSUME UiJoin PROVE ControlInv'
  BY <1>12, SMTT(30) DEF UiJoin
<1>13. ASSUME PoolWait PROVE ControlInv'
  BY <1>13, SMTT(30) DEF PoolWait
<1>14. ASSUME Publish PROVE ControlInv'
  BY <1>14, SMTT(30) DEF Publish
<1>15. ASSUME SelfStop PROVE ControlInv'
  BY <1>15, SMTT(30) DEF SelfStop
<1>16. ASSUME Ready PROVE ControlInv'
  BY <1>16, SMTT(30) DEF Ready
<1>17. ASSUME Sigint PROVE ControlInv'
  BY <1>17, SMTT(30) DEF Sigint
<1>18. ASSUME UiInit PROVE ControlInv'
  BY <1>18, SMTT(30) DEF UiInit
<1>19. ASSUME UiCbPipe PROVE ControlInv'
  BY <1>19, SMTT(30) DEF UiCbPipe
<1>20. ASSUME UiCbList PROVE ControlInv'
  BY <1>20, SMTT(30) DEF UiCbList
<1>21. ASSUME Enqueue PROVE ControlInv'
  BY <1>21, SMTT(30) DEF Enqueue
<1>22. ASSUME Notify PROVE ControlInv'
  BY <1>22, SMTT(30) DEF Notify
<1>23. ASSUME UiExit PROVE ControlInv'
  BY <1>23, SMTT(30) DEF UiExit, UiMayEnd
<1>24. ASSUME NEW r \in Req, Key(r) PROVE ControlInv'
  BY <1>24, SMTT(30) DEF Key
<1>25. ASSUME NEW j \in Jobs, JobStart(j) PROVE ControlInv'
  BY <1>25, SMTT(30) DEF JobStart
<1>26. ASSUME NEW j \in Jobs, JobLookup(j) PROVE ControlInv'
  BY <1>26, SMTT(30) DEF JobLookup
<1>27. ASSUME NEW j \in Jobs, JobNotify(j) PROVE ControlInv'
  BY <1>27, SMTT(30) DEF JobNotify
<1>28. ASSUME UNCHANGED vars PROVE ControlInv'
  BY <1>28 DEF vars
<1> QED
  BY <1>1, <1>2, <1>3, <1>4, <1>5, <1>6, <1>7, <1>8, <1>9, <1>10, <1>11, <1>12, <1>13, <1>14, <1>15, <1>16, <1>17, <1>18, <1>19, <1>20, <1>21, <1>22, <1>23, <1>24, <1>25, <1>26, <1>27, <1>28
     DEF Next, MainStep, UiStep, JobStep

\* A request stays announced until its receiver has seen it.
LEMMA AnnounceStep == Types /\ ControlInv /\ AnnounceInv /\ PaymentInv /\ [Next]_vars => AnnounceInv'
<1> SUFFICES ASSUME Types, ControlInv, AnnounceInv, PaymentInv, [Next]_vars PROVE AnnounceInv'
  OBVIOUS
<1> USE DEF Types, ControlInv, AnnounceInv, Req, Before, Open, Closed, mainVars, uiVars
<1>1. ASSUME UiStart PROVE AnnounceInv'
  BY <1>1, SMTT(30) DEF UiStart
<1>2. ASSUME UiStartWait PROVE AnnounceInv'
  BY <1>2, SMTT(30) DEF UiStartWait
<1>3. ASSUME BitcInit PROVE AnnounceInv'
  BY <1>3, SMTT(30) DEF BitcInit
<1>4. ASSUME PublishNotify PROVE AnnounceInv'
  BY <1>4, SMTT(30) DEF PublishNotify
<1>5. ASSUME ReqCbPipe PROVE AnnounceInv'
  BY <1>5, SMTT(30) DEF ReqCbPipe, ListBeforePipe
<1>6. ASSUME ReqCbList PROVE AnnounceInv'
  BY <1>6, SMTT(30) DEF ReqCbList, ListBeforePipe, HandleReqs
<1>7. ASSUME LeaveLoop PROVE AnnounceInv'
  BY <1>7, SMTT(30) DEF LeaveLoop
<1>8. ASSUME FinalEvents PROVE AnnounceInv'
  BY <1>8, SMTT(30) DEF FinalEvents
<1>9. ASSUME FinalUnlink PROVE AnnounceInv'
  <2>1. reqList # <<>>
    BY <1>9 DEF FinalUnlink, PaymentInv, IsStart
  <2>2. stop # 0 => stop' # 0
    BY <1>9 DEF FinalUnlink, HandleReqs
  <2>3. state' = "STARTING" => state = "STARTING"
    BY <1>9 DEF FinalUnlink, HandleReqs
  <2>4. mpc' = "events" /\ UNCHANGED <<upc, uiVars, jst>>
    BY <1>9 DEF FinalUnlink
  <2>5. mpc = "unlink"
    BY <1>9 DEF FinalUnlink
  <2> QED
    BY <2>1, <2>2, <2>3, <2>4, <2>5
<1>10. ASSUME BitcExit PROVE AnnounceInv'
  BY <1>10, SMTT(30) DEF BitcExit
<1>11. ASSUME UiStopRequests PROVE AnnounceInv'
  <2>1. CASE inuse
    <3>1. mpc' = "join" /\ uiPipe' = uiPipe + 2
      BY <1>11, <2>1, TwoExitRequests, Zenon DEF UiStopRequests
    <3>2. uiPipe' > 0
      BY <3>1
    <3> QED
      BY <1>11, <3>1, <3>2 DEF UiStopRequests
  <2>2. CASE ~inuse
    <3>1. mpc = "uiStop" /\ mpc' = "poolWait" /\ UNCHANGED <<uiList, uiPipe>>
      BY <1>11, <2>2, Zenon DEF UiStopRequests
    <3> QED
      BY <1>11, <3>1 DEF UiStopRequests
  <2> QED
    BY <2>1, <2>2
<1>12. ASSUME UiJoin PROVE AnnounceInv'
  BY <1>12, SMTT(30) DEF UiJoin
<1>13. ASSUME PoolWait PROVE AnnounceInv'
  BY <1>13, SMTT(30) DEF PoolWait
<1>14. ASSUME Publish PROVE AnnounceInv'
  BY <1>14, SMTT(30) DEF Publish
<1>15. ASSUME SelfStop PROVE AnnounceInv'
  BY <1>15, SMTT(30) DEF SelfStop
<1>16. ASSUME Ready PROVE AnnounceInv'
  BY <1>16, SMTT(30) DEF Ready
<1>17. ASSUME Sigint PROVE AnnounceInv'
  BY <1>17, SMTT(30) DEF Sigint
<1>18. ASSUME UiInit PROVE AnnounceInv'
  <2>1. uiList' = {}
    BY <1>18 DEF UiInit
  <2>2. mpc' \in {"init", mpc}
    BY <1>18 DEF UiInit
  <2> QED
    BY <1>18, <2>1, <2>2 DEF UiInit
<1>19. ASSUME UiCbPipe PROVE AnnounceInv'
  BY <1>19, SMTT(30) DEF UiCbPipe
<1>20. ASSUME UiCbList PROVE AnnounceInv'
  BY <1>20, SMTT(30) DEF UiCbList
<1>21. ASSUME Enqueue PROVE AnnounceInv'
  BY <1>21, SMTT(30) DEF Enqueue, PaymentInv
<1>22. ASSUME Notify PROVE AnnounceInv'
  <2>1. PICK ok \in BOOLEAN : NotifyMain(ok) /\ mpc' = IF ok THEN mpc ELSE "panic"
    BY <1>22 DEF Notify
  <2>2. \/ fd = "open" /\ reqPipe < PipeCap /\ reqPipe' = reqPipe + 1
        \/ fd # "open" /\ reqPipe' = reqPipe
    BY <2>1, NotifyPipe, Zenon
  <2>3. mpc' \in {mpc, "panic"}
    BY <2>1, Zenon
  <2> QED
    BY <1>22, <2>2, <2>3, SMTT(30) DEF Notify
<1>23. ASSUME UiExit PROVE AnnounceInv'
  BY <1>23, SMTT(30) DEF UiExit, UiMayEnd
<1>24. ASSUME NEW r \in Req, Key(r) PROVE AnnounceInv'
  BY <1>24, SMTT(30) DEF Key
<1>25. ASSUME NEW j \in Jobs, JobStart(j) PROVE AnnounceInv'
  BY <1>25, SMTT(30) DEF JobStart
<1>26. ASSUME NEW j \in Jobs, JobLookup(j) PROVE AnnounceInv'
  BY <1>26, SMTT(30) DEF JobLookup
<1>27. ASSUME NEW j \in Jobs, JobNotify(j) PROVE AnnounceInv'
  BY <1>27, SMTT(30) DEF JobNotify
<1>28. ASSUME UNCHANGED vars PROVE AnnounceInv'
  BY <1>28 DEF vars
<1> QED
  BY <1>1, <1>2, <1>3, <1>4, <1>5, <1>6, <1>7, <1>8, <1>9, <1>10, <1>11, <1>12, <1>13, <1>14, <1>15, <1>16, <1>17, <1>18, <1>19, <1>20, <1>21, <1>22, <1>23, <1>24, <1>25, <1>26, <1>27, <1>28
     DEF Next, MainStep, UiStep, JobStep

\* No early payment is dropped and none is made twice.
LEMMA PaymentStep == Types /\ ControlInv /\ PaymentInv /\ [Next]_vars => PaymentInv'
<1> SUFFICES ASSUME Types, ControlInv, PaymentInv, [Next]_vars PROVE PaymentInv'
  OBVIOUS
<1> USE DEF Types, PaymentInv, Form, Req, Before, Open, Closed, Past, mainVars, uiVars
<1>0. Payments(reqList) \in Nat /\ Payments(snapshot) \in Nat
  BY PaymentsType
<1>1. ASSUME UiStart PROVE PaymentInv'
  BY <1>1, <1>0, SMTT(30) DEF UiStart, ControlInv
<1>2. ASSUME UiStartWait PROVE PaymentInv'
  BY <1>2, <1>0, SMTT(30) DEF UiStartWait
<1>3. ASSUME BitcInit PROVE PaymentInv'
  BY <1>3, <1>0, SMTT(30) DEF BitcInit, ControlInv
<1>4. ASSUME PublishNotify PROVE PaymentInv'
  BY <1>4, <1>0, SMTT(30) DEF PublishNotify
<1>5. ASSUME ReqCbPipe PROVE PaymentInv'
  BY <1>5, <1>0, SMTT(30) DEF ReqCbPipe, ListBeforePipe
<1>6. ASSUME ReqCbList PROVE PaymentInv'
  <2>1. sent' = sent + Payments(reqList) /\ Payments(reqList') = 0
    BY <1>6, PaymentsEmpty DEF ReqCbList, HandleReqs
  <2>2. state' = "STARTING" => state = "STARTING"
    BY <1>6 DEF ReqCbList, HandleReqs
  <2>3. mpc' = "loop"
    BY <1>6 DEF ReqCbList, ListBeforePipe
  <2> QED
    BY <1>6, <2>1, <2>2, <2>3, SMTT(30) DEF ReqCbList
<1>7. ASSUME LeaveLoop PROVE PaymentInv'
  BY <1>7, <1>0, SMTT(30) DEF LeaveLoop
<1>8. ASSUME FinalEvents PROVE PaymentInv'
  <2>1. reqList = <<>> => Payments(reqList) = 0
    BY PaymentsEmpty
  <2>2. IsStart(reqList, reqList)
    BY DEF IsStart
  <2>3. reqList # <<>> => mpc' = "unlink" /\ snapshot' = reqList
    BY <1>8 DEF FinalEvents
  <2>4. reqList = <<>> => mpc' = "closing"
    BY <1>8 DEF FinalEvents
  <2>5. stop # 0 \/ state' = "STARTING"
    BY <1>8 DEF FinalEvents
  <2> QED
    BY <1>8, <2>1, <2>2, <2>3, <2>4, <2>5, SMTT(30) DEF FinalEvents
<1>9. ASSUME FinalUnlink PROVE PaymentInv'
  <2>1. reqList # <<>> /\ snapshot # <<>> /\ Head(reqList) = Head(snapshot)
    BY <1>9 DEF FinalUnlink, IsStart
  <2> DEFINE h == Payments(<<Head(reqList)>>)
             a == Payments(Tail(reqList))
             b == Payments(Tail(snapshot))
             r == Payments(reqList)
  <2>2. r = h + a /\ Payments(snapshot) = h + b
    BY <2>1, PaymentsTail
  <2>3. h \in Nat /\ a \in Nat /\ b \in Nat
    <3>1. <<Head(reqList)>> \in Seq(Req) /\ Tail(reqList) \in Seq(Req) /\ Tail(snapshot) \in Seq(Req)
      BY <2>1, HeadTailProperties
    <3> QED
      BY <3>1, PaymentsType
  <2>4. Payments(snapshot) =< r /\ sent + Payments(snapshot) >= early
    BY <1>9, PaymentsStart DEF FinalUnlink
  <2>5. sent' = sent + h
    BY <1>9 DEF FinalUnlink, HandleReqs
  <2>6. PICK n \in Nat : n = Payments(reqList') /\ (n = a \/ n = b)
    BY <1>9, <2>3, Zenon DEF FinalUnlink
  <2>8. stop' # 0 \/ state' = "STARTING"
    BY <1>9 DEF FinalUnlink, HandleReqs
  <2>9. state' = "STARTING" => state = "STARTING"
    BY <1>9 DEF FinalUnlink, HandleReqs
  <2>11. mpc' = "events" /\ UNCHANGED <<upc, early, budget>>
    BY <1>9 DEF FinalUnlink
  <2>12. sent \in Nat /\ early \in Nat
    OBVIOUS
  <2>19. sent + r + budget.keys + Form =< MaxKeys
    OBVIOUS
  <2>13. budget.keys \in Nat /\ Form \in Nat /\ MaxKeys \in Nat
    BY ThreadsAssumption
  <2>16. /\ Form' = Form /\ budget'.keys = budget.keys /\ early' = early
         /\ early + budget.keys + Form =< MaxKeys
    BY <2>11
  <2> HIDE DEF h, a, b, r, Types, PaymentInv, Form
  <2>7. sent' + n >= early
    BY <2>2, <2>3, <2>4, <2>5, <2>6, <2>12
  <2>14. sent' + n + budget'.keys + Form' =< MaxKeys
    <3>1. sent + h + n + budget.keys + Form =< MaxKeys
      BY <2>2, <2>3, <2>4, <2>6, <2>12, <2>13, <2>19
    <3> QED
      BY <3>1, <2>5, <2>16, Zenon
  <2>15. early' + budget'.keys + Form' =< MaxKeys
    BY <2>11, <2>16
  <2> USE DEF PaymentInv
  <2> QED
    BY <2>6, <2>7, <2>8, <2>9, <2>11, <2>14, <2>15, <2>16
<1>10. ASSUME BitcExit PROVE PaymentInv'
  BY <1>10, <1>0, SMTT(30) DEF BitcExit
<1>11. ASSUME UiStopRequests PROVE PaymentInv'
  BY <1>11, <1>0, SMTT(30) DEF UiStopRequests
<1>12. ASSUME UiJoin PROVE PaymentInv'
  BY <1>12, <1>0, SMTT(30) DEF UiJoin
<1>13. ASSUME PoolWait PROVE PaymentInv'
  BY <1>13, <1>0, SMTT(30) DEF PoolWait
<1>14. ASSUME Publish PROVE PaymentInv'
  BY <1>14, <1>0, SMTT(30) DEF Publish
<1>15. ASSUME SelfStop PROVE PaymentInv'
  <2>1. Payments(reqList') = Payments(reqList)
    <3>1. Payments(Append(reqList, "stop")) = Payments(reqList)
      BY <1>0, PaymentsAppend
    <3> QED
      BY <1>15, <3>1, Zenon DEF SelfStop
  <2> QED
    BY <1>15, <2>1, SMTT(30) DEF SelfStop
<1>16. ASSUME Ready PROVE PaymentInv'
  BY <1>16, <1>0, SMTT(30) DEF Ready
<1>17. ASSUME Sigint PROVE PaymentInv'
  BY <1>17, <1>0, SMTT(30) DEF Sigint
<1>18. ASSUME UiInit PROVE PaymentInv'
  BY <1>18, <1>0, SMTT(30) DEF UiInit
<1>19. ASSUME UiCbPipe PROVE PaymentInv'
  BY <1>19, <1>0, SMTT(30) DEF UiCbPipe
<1>20. ASSUME UiCbList PROVE PaymentInv'
  BY <1>20, <1>0, SMTT(30) DEF UiCbList
<1>21. ASSUME Enqueue PROVE PaymentInv'
  <2>1. \/ upc = "reqStop" /\ reqList' = Append(reqList, "stop")
        \/ upc = "reqTx" /\ reqList' = Append(reqList, "tx")
    BY <1>21 DEF Enqueue
  <2>2. Payments(reqList') = Payments(reqList) + Form
    BY <2>1, PaymentsAppend
  <2>3. IsStart(snapshot, reqList) => IsStart(snapshot, reqList')
    <3>1. ASSUME NEW q \in Req, IsStart(snapshot, reqList)
          PROVE  IsStart(snapshot, Append(reqList, q))
      BY <3>1, AppendProperties DEF IsStart
    <3> QED
      BY <2>1, <3>1, Zenon
  <2>4. upc' = "notify" /\ UNCHANGED <<mpc, stop, state, snapshot, sent, budget>>
    BY <1>21 DEF Enqueue
  <2>5. mpc \in {"events", "unlink"} \cup Past => early' = early
    BY <1>21 DEF Enqueue
  <2>6. early' = early \/ (early' = early + 1 /\ upc = "reqTx")
    BY <1>21 DEF Enqueue
  <2>9. Form' = 0 /\ Form \in Nat /\ (upc = "reqTx" => Form = 1)
    BY <2>4
  <2>10. /\ early \in Nat /\ sent \in Nat /\ budget.keys \in Nat /\ MaxKeys \in Nat
         /\ early + budget.keys + Form =< MaxKeys
         /\ sent + Payments(reqList) + budget.keys + Form =< MaxKeys
         /\ sent + Payments(reqList) >= early
    BY ThreadsAssumption
  <2>7. /\ early' + budget'.keys + Form' =< MaxKeys
        /\ sent' + Payments(reqList') + budget'.keys + Form' =< MaxKeys
        /\ sent' + Payments(reqList') >= early'
    <3> HIDE DEF Types, PaymentInv, Form
    <3> QED
      BY <2>2, <2>4, <2>6, <2>9, <2>10, <1>0
  <2>8. mpc' = "unlink" =>
          /\ snapshot' # <<>> /\ IsStart(snapshot', reqList')
          /\ sent' + Payments(snapshot') >= early'
    BY <2>3, <2>4, <2>5
  <2> QED
    BY <2>4, <2>5, <2>7, <2>8
<1>22. ASSUME Notify PROVE PaymentInv'
  BY <1>22, <1>0, SMTT(30) DEF Notify
<1>23. ASSUME UiExit PROVE PaymentInv'
  BY <1>23, <1>0, SMTT(30) DEF UiExit, UiMayEnd
<1>24. ASSUME NEW r \in Req, Key(r) PROVE PaymentInv'
  <2>1. /\ upc = "loop" /\ upc' \in {"reqStop", "reqTx"}
        /\ upc' = "reqTx" => state # "STARTING"
        /\ stop # 0 => stop' # 0
        /\ UNCHANGED <<mpc, state, reqList, snapshot, early, sent>>
    BY <1>24 DEF Key
  <2>2. budget.keys \in Nat /\ budget.keys > 0 /\ budget'.keys = budget.keys - 1
    BY <1>24 DEF Key
  <2>3. Form = 0 /\ Form' \in {0, 1}
    BY <2>1
  <2>4. /\ early \in Nat /\ sent \in Nat /\ MaxKeys \in Nat
        /\ early + budget.keys + Form =< MaxKeys
        /\ sent + Payments(reqList) + budget.keys + Form =< MaxKeys
        /\ sent + Payments(reqList) >= early
    BY ThreadsAssumption
  <2>5. Payments(reqList') = Payments(reqList) /\ Payments(snapshot') = Payments(snapshot)
    BY <2>1
  <2>6. /\ early' + budget'.keys + Form' =< MaxKeys
        /\ sent' + Payments(reqList') + budget'.keys + Form' =< MaxKeys
        /\ sent' + Payments(reqList') >= early'
    <3> HIDE DEF Types, PaymentInv, Form
    <3> QED
      BY <2>1, <2>2, <2>3, <2>4, <2>5, <1>0
  <2>7. mpc' = "unlink" =>
          /\ snapshot' # <<>> /\ IsStart(snapshot', reqList')
          /\ sent' + Payments(snapshot') >= early'
    <3>1. mpc = "unlink" => snapshot # <<>> /\ IsStart(snapshot, reqList)
                            /\ sent + Payments(snapshot) >= early
      OBVIOUS
    <3> HIDE DEF Types, PaymentInv, Form
    <3> QED
      BY <2>1, <2>5, <3>1
  <2> QED
    BY <2>1, <2>6, <2>7
<1>25. ASSUME NEW j \in Jobs, JobStart(j) PROVE PaymentInv'
  BY <1>25, <1>0, SMTT(30) DEF JobStart
<1>26. ASSUME NEW j \in Jobs, JobLookup(j) PROVE PaymentInv'
  BY <1>26, <1>0, SMTT(30) DEF JobLookup
<1>27. ASSUME NEW j \in Jobs, JobNotify(j) PROVE PaymentInv'
  BY <1>27, <1>0, SMTT(30) DEF JobNotify
<1>28. ASSUME UNCHANGED vars PROVE PaymentInv'
  BY <1>28 DEF vars
<1> QED
  BY <1>1, <1>2, <1>3, <1>4, <1>5, <1>6, <1>7, <1>8, <1>9, <1>10, <1>11, <1>12, <1>13, <1>14, <1>15, <1>16, <1>17, <1>18, <1>19, <1>20, <1>21, <1>22, <1>23, <1>24, <1>25, <1>26, <1>27, <1>28
     DEF Next, MainStep, UiStep, JobStep

-----------------------------------------------------------------------------
ThreadsInv == Types /\ ControlInv /\ AnnounceInv /\ PaymentInv

\* Whatever the threads, the user and the signals do, ThreadsInv holds.
LEMMA ThreadsInvariant == Spec => []ThreadsInv
<1>1. Init => ThreadsInv
  <2> SUFFICES ASSUME Init PROVE ThreadsInv
    OBVIOUS
  <2> USE ThreadsAssumption DEF Init
  <2>1. Types
    <3>1. budget \in [updates : 0..MaxUpdates, keys : 0..MaxKeys, signals : 0..MaxSignals]
      OBVIOUS
    <3>2. jst \in [Jobs -> {"none", "queued", "lookup", "notify", "done"}]
      OBVIOUS
    <3>3. uiStop \in BOOLEAN /\ inuse \in BOOLEAN
      BY Zenon
    <3> QED
      BY <3>1, <3>2, <3>3 DEF Types, Before, Req
  <2>2. ControlInv
    BY DEF ControlInv, Before, Open, Closed
  <2>3. AnnounceInv
    BY DEF AnnounceInv
  <2>4. PaymentInv
    <3>1. Payments(reqList) = 0
      BY PaymentsEmpty
    <3> QED
      BY <3>1 DEF PaymentInv, Form, Past, Closed
  <2> QED
    BY <2>1, <2>2, <2>3, <2>4 DEF ThreadsInv
<1>2. ThreadsInv /\ [Next]_vars => ThreadsInv'
  BY TypesStep, ControlStep, AnnounceStep, PaymentStep DEF ThreadsInv
<1> QED
  BY <1>1, <1>2, PTL DEF Spec

\* Every variable keeps its type, and no more payments are made than were asked
\* for.
THEOREM ThreadsTypeOK == Spec => []TypeOK
<1>1. ThreadsInv => TypeOK
  <2> SUFFICES ASSUME ThreadsInv PROVE TypeOK
    OBVIOUS
  <2>1. early \in 0..MaxKeys /\ sent \in 0..MaxKeys
    <3>1. Payments(reqList) \in Nat
      BY PaymentsType DEF ThreadsInv, Types
    <3>2. budget.keys \in Nat /\ Form \in Nat /\ early \in Nat /\ sent \in Nat
      BY ThreadsAssumption DEF ThreadsInv, Types, Form
    <3> QED
      BY <3>1, <3>2, ThreadsAssumption DEF ThreadsInv, PaymentInv
  <2> QED
    BY <2>1 DEF ThreadsInv, Types, TypeOK, Before, Open, Closed, Req
<1> QED
  BY <1>1, ThreadsInvariant, PTL

\* A request put on a list by bitc_req_enqueue or by a bitcui_set_* call is
\* announced to its receiver, and a payment asked for before the program was
\* asked to stop is made before the wallet goes away.
THEOREM ThreadsRequestsReachMain == Spec => []RequestsReachMain
<1>1. ThreadsInv => RequestsReachMain
  BY DEF ThreadsInv, AnnounceInv, PaymentInv, Past, Closed, RequestsReachMain
<1> QED
  BY <1>1, ThreadsInvariant, PTL

\* No resolver job is looking up a peer or notifying the interface when
\* bitcui_exit is through.
THEOREM ThreadsJobsSeeLiveUi == Spec => []JobsSeeLiveUi
<1>1. ThreadsInv => JobsSeeLiveUi
  BY DEF ThreadsInv, ControlInv, JobsIdle, JobsSeeLiveUi
<1> QED
  BY <1>1, ThreadsInvariant, PTL
=============================================================================
