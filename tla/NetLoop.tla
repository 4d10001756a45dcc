------------------------------ MODULE NetLoop -------------------------------
(***************************************************************************)
(* The event loop (lib/poll/poll.c) and the sockets that run on it         *)
(* (lib/netasync/netasync.c), with the peers of core/peer.c as their user. *)
(*                                                                         *)
(* A socket is named by its file descriptor, so one that is closed and one *)
(* opened after it may have the same name.  A poll entry is an object with *)
(* a reference count that is used again as soon as the count is 0; which   *)
(* free object is taken does not matter, they are all alike.  The poll     *)
(* loop takes the entries that are ready, then calls their callbacks one   *)
(* by one, here in any order; a callback may close sockets and open new    *)
(* ones.  Timers are not objects of their own: a socket has at most one.   *)
(***************************************************************************)
EXTENDS Integers, Sequences, FiniteSets, FiniteSetsExt

CONSTANTS
    Fd,         \* file descriptors
    Object,     \* poll entries, numbers
    MaxLen,     \* the longest buffer given to netasync_send
    MaxQueue,   \* bound on the buffers a socket has to send
    MaxConnects \* bound on the number of connections

ASSUME NetLoopAssumption ==
    /\ IsFiniteSet(Fd) /\ Object \subseteq Nat /\ IsFiniteSet(Object)
    /\ Cardinality(Object) >= 4 * Cardinality(Fd)
    /\ MaxLen \in Nat \ {0} /\ MaxQueue \in Nat \ {0} /\ MaxConnects \in Nat

VARIABLES
    net,        \* poll entries, sockets and the network, see NetType
    phase,      \* "time": the time queue runs, "fire": the device queue runs
    todo        \* the entries poll_run_device_queue still has to look at

vars == <<net, phase, todo>>

\* A connect and a send entry are both one-shot and for writing: they have the
\* same key.  A receive entry is for reading and permanent.
Kinds   == {"connect", "send", "receive"}
NoObj   == [refs |-> 0, queued |-> FALSE, fd |-> 0, kind |-> "receive"]
ObjType == [refs : 0 .. 2, queued : BOOLEAN, fd : Fd \union {0}, kind : Kinds]
Key(k)  == IF k = "receive" THEN "read" ELSE "write"

\* "connecting": connect_async; a number: the state of the SOCKS handshake;
\* "up": connectCb was called.
NoSock   == [st |-> "closed", proxy |-> FALSE, socks |-> 0, timer |-> FALSE,
             sendq |-> <<>>, recv |-> FALSE]
SockType == [st : {"closed", "connecting", "socks", "up"}, proxy : BOOLEAN,
             socks : 0 .. 5, timer : BOOLEAN, sendq : Seq(1 .. MaxLen), recv : BOOLEAN]

NetType  == [obj : [Object -> ObjType], sock : [Fd -> SockType],
             wire : [Fd -> {"silent", "open", "refused"}],  \* answers to connect
             connects : Nat,
             panic : {"none", "refs", "key", "callback", "send", "receive", "connect",
                      "proxy", "reply", "recvBuf", "sendq", "magic", "timeout"}]

TypeOK == net \in NetType /\ phase \in {"time", "fire"} /\ todo \subseteq Object

-----------------------------------------------------------------------------
(* poll.c.  Operators map the state n of the network to the next one. *)

Fails(n, why) == IF n.panic = "none" THEN [n EXCEPT !.panic = why] ELSE n

\* poll->hash
Find(n, fd, key) ==
    {e \in Object : n.obj[e].queued /\ n.obj[e].fd = fd /\ Key(n.obj[e].kind) = key}

\* poll_entry_unref, poll_entry_put
Unref(n, e) ==
    CASE n.obj[e].refs = 0 -> Fails(n, "refs")
      [] n.obj[e].refs = 1 -> [n EXCEPT !.obj[e] = NoObj]
      [] OTHER             -> [n EXCEPT !.obj[e].refs = @ - 1]

\* poll_callback_device: ASSERT that the key is new.
Register(n, fd, kind) ==
    LET e == Min({o \in Object : n.obj[o].refs = 0})
    IN  IF Find(n, fd, Key(kind)) # {} THEN Fails(n, "key")
        ELSE [n EXCEPT !.obj[e] = [refs |-> 1, queued |-> TRUE, fd |-> fd, kind |-> kind]]

\* poll_callback_device_remove: ASSERTs that the callback is the same.
Remove(n, fd, kind) ==
    IF Find(n, fd, Key(kind)) = {} THEN n
    ELSE LET e == CHOOSE o \in Find(n, fd, Key(kind)) : TRUE
         IN  IF n.obj[e].kind # kind THEN Fails(n, "callback")
             ELSE Unref([n EXCEPT !.obj[e].queued = FALSE], e)

-----------------------------------------------------------------------------
(* netasync.c *)

\* netasync_send: waits until the socket is writable only if it is not
\* already waiting.
Send(n, fd, len) ==
    LET m == [n EXCEPT !.sock[fd].sendq = Append(@, len)]
    IN  IF n.sock[fd].st = "connecting" THEN Fails(n, "send")
        ELSE IF n.sock[fd].sendq = <<>> THEN Register(m, fd, "send") ELSE m

\* netasync_receive: ASSERT(recvBuf == NULL)
Receive(n, fd) ==
    IF n.sock[fd].recv THEN Fails(n, "receive")
    ELSE Register([n EXCEPT !.sock[fd].recv = TRUE], fd, "receive")

\* netasync_connect_stop ASSERTs that the entry was there.
ConnectStop(n, fd) ==
    IF Find(n, fd, "write") = {} THEN Fails(n, "connect") ELSE Remove(n, fd, "connect")

CloseQuietly(n, fd) == [n EXCEPT !.sock[fd] = NoSock]

\* netasync_close: takes everything the socket waits for out of the loop.
Close(n, fd) ==
    LET s == n.sock[fd]
        a == IF s.sendq # <<>> THEN Remove(n, fd, "send") ELSE n
        b == IF s.st = "connecting" THEN ConnectStop(a, fd) ELSE a
        c == IF s.recv THEN Remove(b, fd, "receive") ELSE b
    IN  [c EXCEPT !.sock[fd] = NoSock]

\* peer_connect_cb after a connection was made.
PeerConnected(n, fd) ==
    Send(Receive([n EXCEPT !.sock[fd].st = "up"], fd), fd, MaxLen)

\* netasync_socks_handler: greeting, its answer, request, its answer.
SocksHandler(n, fd) ==
    LET k == n.sock[fd].socks
        m == [n EXCEPT !.sock[fd].socks = k + 1, !.sock[fd].st = "socks"]
    IN  CASE k \in {1, 3} -> Send(m, fd, 1)
          [] k \in {2, 4} -> Receive(m, fd)
          [] k = 5        -> PeerConnected(n, fd)
          [] k = 0        -> Fails(n, "proxy")

\* The same when the proxy has answered: an error it names is taken, but the
\* reserved byte of its last answer is ASSERTed to be 0.
SocksAnswers(n, fd) ==
    {SocksHandler(n, fd)}
    \union (IF n.sock[fd].socks = 5 THEN {Fails(n, "reply")} ELSE {})

\* netasync_connected without an error.
Connected(n, fd) ==
    LET m == [n EXCEPT !.sock[fd].st = "socks", !.sock[fd].timer = FALSE]
    IN  IF n.sock[fd].proxy THEN SocksHandler(m, fd) ELSE PeerConnected(m, fd)

ConnectsUntimed(n, fd, proxy) ==
    LET m == [n EXCEPT !.sock[fd] = [NoSock EXCEPT !.st = "connecting", !.proxy = proxy],
                       !.connects = @ + 1]
    IN  {Register([m EXCEPT !.wire[fd] = "silent", !.sock[fd].socks = 1], fd, "connect")}

\* netasync_connect: connect(2) answers later, makes the connection at once or
\* fails at once, when connectCb destroys the peer and closes the socket (if
\* the group opens another one, that is one of the other two).  A connection to
\* the proxy that is made at once, or a proxy that is not resolved, is taken for
\* made in the state SOCKS_INIT.
Connects(n, fd, proxy) ==
    LET m == [n EXCEPT !.sock[fd] = [NoSock EXCEPT !.st = "connecting", !.proxy = proxy],
                       !.connects = @ + 1]
    IN  {Register([m EXCEPT !.wire[fd] = "silent", !.sock[fd].timer = TRUE,
                            !.sock[fd].socks = IF proxy THEN 1 ELSE 0], fd, "connect"),
         Connected([m EXCEPT !.sock[fd].st = "socks"], fd),
         [n EXCEPT !.connects = @ + 1]}

-----------------------------------------------------------------------------
(* The user of the sockets *)

Closed(n) == {fd \in Fd : n.sock[fd].st = "closed"}

\* peer_destroy: the socket is closed and the group may open another one.
Destroys(n, fd) ==
    LET m == Close(n, fd)
    IN  {m} \union
        (IF n.connects < MaxConnects
           THEN UNION {Connects(m, g, p) : g \in Closed(m), p \in BOOLEAN} ELSE {})

\* peer_receive_cb: the next part is asked for, an answer may be sent, or the
\* message is bad and the peer is destroyed; another peer may be dropped too.
PeerReceives(n, fd) ==
    {Receive(n, fd)} \union Destroys(n, fd)
    \union (IF Len(n.sock[fd].sendq) < MaxQueue
              THEN {Receive(Send(n, fd, l), fd) : l \in 1 .. MaxLen} ELSE {})
    \union UNION {Destroys(Receive(n, fd), g) : g \in Fd \ (Closed(n) \union {fd})}

-----------------------------------------------------------------------------
(* Callbacks of the device queue *)

\* netasync_receive_cb: nothing yet or a part (the entry stays), the end of the
\* stream or an error, or all of it.
ReceiveCb(n, fd) ==
    LET m == Remove([n EXCEPT !.sock[fd].recv = FALSE], fd, "receive")
    IN  IF ~n.sock[fd].recv THEN {Fails(n, "recvBuf")}
        ELSE {n} \union Destroys(n, fd)
             \union (IF n.sock[fd].st = "socks"
                       THEN SocksAnswers(m, fd) \union Destroys(m, fd)
                       ELSE PeerReceives(m, fd))

\* netasync_send_ready_cb: an error, a part of the first buffer, or the rest of
\* it, which calls back; the socket waits again if there was a next buffer.
SendReady(n, fd) ==
    LET q == n.sock[fd].sendq
        m == [n EXCEPT !.sock[fd].sendq = Tail(q)]
        called == IF n.sock[fd].st = "socks" THEN SocksHandler(m, fd) ELSE m
    IN  IF q = <<>> THEN {Fails(n, "sendq")}
        ELSE Destroys(n, fd)
             \union {Register([n EXCEPT !.sock[fd].sendq[1] = l], fd, "send") : l \in 1 .. q[1]}
             \union {IF Len(q) > 1 THEN Register(called, fd, "send") ELSE called}

\* netasync_connected from the loop: SO_ERROR says how the connection went.
ConnectReady(n, fd) ==
    IF n.wire[fd] = "refused"
      THEN Destroys([n EXCEPT !.sock[fd].st = "socks", !.sock[fd].timer = FALSE], fd)
      ELSE {Connected(n, fd)}

Callback(n, fd, kind) ==
    CASE n.sock[fd].st = "closed" -> {Fails(n, "magic")}
      [] kind = "receive" -> ReceiveCb(n, fd)
      [] kind = "send"    -> SendReady(n, fd)
      [] kind = "connect" -> ConnectReady(n, fd)

-----------------------------------------------------------------------------
Init ==
    /\ net = [obj |-> [e \in Object |-> NoObj], sock |-> [fd \in Fd |-> NoSock],
              wire |-> [fd \in Fd |-> "silent"], connects |-> 0, panic |-> "none"]
    /\ phase = "time" /\ todo = {}

Alive == net.panic = "none"

\* The network answers a connection that is being made.
Answer(fd, a) ==
    /\ Alive /\ net.sock[fd].st = "connecting" /\ net.wire[fd] = "silent"
    /\ net' = [net EXCEPT !.wire[fd] = a] /\ UNCHANGED <<phase, todo>>

\* poll_run_time_queue: netasync_connect_timeout_cb...
ConnectTimeout(fd) ==
    /\ Alive /\ phase = "time" /\ net.sock[fd].timer
    /\ net' \in IF net.sock[fd].st # "connecting" THEN {Fails(net, "timeout")}
                ELSE Destroys(ConnectStop([net EXCEPT !.sock[fd].timer = FALSE,
                                                      !.sock[fd].st = "socks"], fd), fd)
    /\ UNCHANGED <<phase, todo>>

\* ... and the timers of the peer group, which open, use and drop connections.
PeriodicConnect(fd, proxy) ==
    /\ Alive /\ phase = "time" /\ fd \in Closed(net) /\ net.connects < MaxConnects
    /\ net' \in Connects(net, fd, proxy) /\ UNCHANGED <<phase, todo>>

PeriodicSend(fd, len) ==
    /\ Alive /\ phase = "time" /\ net.sock[fd].st = "up" /\ Len(net.sock[fd].sendq) < MaxQueue
    /\ net' = Send(net, fd, len) /\ UNCHANGED <<phase, todo>>

PeriodicDrop(fd) ==
    /\ Alive /\ phase = "time" /\ fd \notin Closed(net)
    /\ net' \in Destroys(net, fd) /\ UNCHANGED <<phase, todo>>

\* poll_run_device_queue takes a reference on each entry that is ready.
Taken(n, R) ==
    [n EXCEPT !.obj = [e \in Object |-> IF e \in R THEN [n.obj[e] EXCEPT !.refs = @ + 1]
                                                   ELSE n.obj[e]]]

Ready(e) ==
    /\ net.obj[e].queued
    /\ net.obj[e].kind = "connect" => net.wire[net.obj[e].fd] # "silent"

\* poll_device_poll
Poll ==
    /\ Alive /\ phase = "time" /\ phase' = "fire"
    /\ \E R \in SUBSET {e \in Object : Ready(e)} \ {{}} :
           todo' = R /\ net' = Taken(net, R)

FireAll(e) ==
    /\ Alive /\ phase = "fire" /\ e \in todo
    /\ LET o == net.obj[e]
           m == IF o.kind = "receive" \/ ~o.queued THEN net
                ELSE Unref([net EXCEPT !.obj[e].queued = FALSE], e)
       IN  net' \in {Unref(r, e) : r \in Callback(m, o.fd, o.kind)}
    /\ todo' = todo \ {e}
    /\ phase' = IF todo' = {} THEN "time" ELSE "fire"

\* An entry that was removed since is skipped; a one-shot entry is removed
\* before its callback is called.
Fire(e) ==
    /\ Alive /\ phase = "fire" /\ e \in todo
    /\ LET o == net.obj[e]
           m == IF o.kind = "receive" THEN net
                ELSE Unref([net EXCEPT !.obj[e].queued = FALSE], e)
       IN  net' \in {Unref(r, e) : r \in IF o.queued THEN Callback(m, o.fd, o.kind) ELSE {net}}
    /\ todo' = todo \ {e}
    /\ phase' = IF todo' = {} THEN "time" ELSE "fire"

Next ==
    \/ \E fd \in Fd : \E a \in {"open", "refused"} : Answer(fd, a)
    \/ \E fd \in Fd : ConnectTimeout(fd) \/ PeriodicDrop(fd)
    \/ \E fd \in Fd, proxy \in BOOLEAN : PeriodicConnect(fd, proxy)
    \/ \E fd \in Fd, len \in 1 .. MaxLen : PeriodicSend(fd, len)
    \/ Poll \/ \E e \in Object : Fire(e)

\* Every iteration of the loop runs the time queue and all the entries that
\* were taken: WF of Fire, and SF of ConnectTimeout(fd), which is enabled in
\* exactly the states TimerRuns(fd).
TimerRuns(fd) == Alive /\ phase = "time" /\ net.sock[fd].timer
Fairness ==
    /\ []<>(phase = "fire" => ~Alive)
    /\ \A fd \in Fd : []<>TimerRuns(fd) => []<><<ConnectTimeout(fd)>>_vars

Spec == Init /\ [][Next]_vars /\ Fairness

-----------------------------------------------------------------------------
(* Properties *)

\* No ASSERT of poll.c or netasync.c about the sockets and what the loop waits
\* for fails, whatever a callback closes or opens while other callbacks are
\* due.  Two depend on the proxy alone and do fail: a connection to it that is
\* made at once (Connects), and its last answer (ProxyReplyOK).
AssertsHold == net.panic \in {"none", "proxy", "reply"}

Waits(fd, kind) ==
    \E e \in Object : net.obj[e].queued /\ net.obj[e].fd = fd /\ net.obj[e].kind = kind

\* Between two callbacks the loop waits for exactly what each socket needs: no
\* buffer is left without a wake-up, no closed socket has one.
LoopMatchesSockets ==
    Alive => \A fd \in Fd :
        /\ Waits(fd, "connect") <=> net.sock[fd].st = "connecting"
        /\ Waits(fd, "send") <=> net.sock[fd].sendq # <<>>
        /\ Waits(fd, "receive") <=> net.sock[fd].recv
        /\ net.sock[fd].timer <=> net.sock[fd].st = "connecting"

\* A connection that the network never answers is given up.  This is about
\* connect(2) alone: the handshake with a proxy that follows has no timer.
ConnectEnds ==
    \A fd \in Fd : net.sock[fd].st = "connecting" ~> net.sock[fd].st # "connecting" \/ ~Alive

-----------------------------------------------------------------------------
(* A claim of the code that does not hold *)

\* netasync_socks_handler ASSERTs that the reserved byte of the proxy's last
\* answer is 0, as if it had checked it like the two bytes before it.
ProxyReplyOK == net.panic # "reply"
=============================================================================
