--------------------------- MODULE BootstrapClient --------------------------
(***************************************************************************)
(* Bootstrap_Client in detail: a TCP socket and a WebSocket to the same    *)
(* server, the queue of commands that wait for either, and the timers that *)
(* bring a lost connection back.  BootstrapLink is what it promises.       *)
(*                                                                         *)
(* conn[s] is the state of socket s; a host lookup counts as connecting,   *)
(* see Ensure.                                                             *)
(* wire[s] holds the commands written to s that have no answer yet: it is  *)
(* no variable of the program, it is lost with the connection.  armed is   *)
(* the set of running timers, the two singleShot calls included.           *)
(***************************************************************************)
EXTENDS Contacts

CONSTANTS
    Requests,  \* the commands the core may give
    MaxAsked   \* bound: no further command is given past as many without an answer

VARIABLES
    conn,      \* m_socket, m_ws_socket: the state of each
    wire,      \* commands written to each socket and not answered
    queue,     \* m_queue
    useWs,     \* m_use_ws
    armed,     \* timers that run
    stale,     \* m_last_response_time is more than six seconds ago
    first,     \* m_first_connect
    findNick   \* m_pending_find_nickname

netState == <<conn, wire>>
vars == <<conn, wire, queue, useWs, armed, stale, first, findNick>>

Sockets == {"tcp", "ws"}
Timers == {"fallback", "reconnect", "ping", "force", "ensure"}

On(s) == conn[s] = "on"
Asked == wire["tcp"] \o wire["ws"] \o queue
Linked == On("tcp") \/ On("ws")
BothOn == On("tcp") /\ On("ws")

Lane == INSTANCE BootstrapLink WITH asked <- Asked, linked <- Linked

ASSUME RequestsAssumption == Requests \subseteq Lane!Command

Init ==
    /\ conn = [s \in Sockets |-> "off"]
    /\ wire = [s \in Sockets |-> << >>]
    /\ queue = << >>
    /\ useWs = FALSE
    /\ armed = {}
    /\ stale = FALSE
    /\ first = TRUE
    /\ findNick = None

-----------------------------------------------------------------------------
\* Mutant: the queue is not cleared.
Flush_KeepsQueue(cmds, tcpOn) ==
    /\ UNCHANGED queue
    /\ wire' = [wire EXCEPT ![IF tcpOn THEN "tcp" ELSE "ws"] = @ \o cmds]

\* Mutant: every connected socket gets the commands.
Flush_ToBoth(cmds, tcpOn) ==
    /\ queue' = << >>
    /\ wire' = [s \in Sockets |->
                  IF On(s) \/ s = (IF tcpOn THEN "tcp" ELSE "ws") THEN wire[s] \o cmds ELSE wire[s]]

\* flush_queue of the commands cmds: to TCP if it is connected, else to the WebSocket.
Flush(cmds, tcpOn) ==
    /\ queue' = << >>
    /\ wire' = [wire EXCEPT ![IF tcpOn THEN "tcp" ELSE "ws"] = @ \o cmds]

\* Mutants: no fallback to the WebSocket, and one for a socket that is connected.
Ensure_NoFallback(timers) ==
    /\ armed' = timers
    /\ conn' = IF conn["tcp"] = "off" /\ ~On("ws") THEN [conn EXCEPT !["tcp"] = "connecting"]
                                                 ELSE conn

Ensure_FallbackAlways(timers) ==
    /\ armed' = timers \cup {"fallback"}
    /\ conn' = IF conn["tcp"] = "off" /\ ~On("ws") THEN [conn EXCEPT !["tcp"] = "connecting"]
                                                 ELSE conn

\* ensure_connected, with the timers running that are in the set timers.  While TCP looks
\* its host up the code does not return: connectToHost refuses a socket that has begun,
\* and the fallback timer, which then runs already (TypeOK), is started anew.  So no more
\* than the time it has left changes, which is not kept here.
Ensure(timers) ==
    IF conn["tcp"] = "off" /\ ~On("ws")
    THEN /\ conn' = [conn EXCEPT !["tcp"] = "connecting"]
         /\ armed' = timers \cup {"fallback"}
    ELSE armed' = timers /\ UNCHANGED conn

EnsureConnected == Ensure(armed) /\ UNCHANGED <<wire, queue, useWs, stale, first, findNick>>

\* What enqueue takes for connected.
Usable == IF useWs THEN On("ws") ELSE On("tcp")

\* enqueue: the first command after six seconds of silence stays in the queue, because
\* the socket may be dead; with no usable socket the command waits for one.
Enqueue(c) ==
    /\ Len(Asked) < MaxAsked
    /\ findNick' = IF c.op = "FIND" THEN c.peer ELSE findNick
    /\ \/ /\ Usable /\ stale /\ queue = << >>
          /\ queue' = <<c>>
          /\ armed' = armed \cup {"force"}
          /\ UNCHANGED netState
       \/ /\ Usable /\ ~(stale /\ queue = << >>)
          /\ Flush(Append(queue, c), On("tcp"))
          /\ UNCHANGED <<conn, armed>>
       \/ /\ ~Usable
          /\ queue' = Append(queue, c)
          /\ Ensure(armed)
          /\ UNCHANGED wire
    /\ UNCHANGED <<useWs, stale, first>>

-----------------------------------------------------------------------------
\* on_connected: the slot of reconnected registers the user, if one is signed in.
Connected(s) ==
    /\ conn[s] = "connecting"
    /\ conn' = [conn EXCEPT ![s] = "on"]
    /\ useWs' = (s = "ws")
    /\ armed' = IF s = "ws" THEN (armed \ {"reconnect"}) \cup {"ping"}
                            ELSE armed \ {"reconnect", "ping", "fallback"}
    /\ \E greeting \in {<< >>, <<Lane!Register>>} :
          /\ first => greeting = << >>
          /\ Flush(queue \o greeting, s = "tcp" \/ On("tcp"))
    /\ stale' = FALSE
    /\ first' = FALSE
    /\ UNCHANGED findNick

\* Mutant: the ping timer is not stopped.
Disconnected_KeepsPing(inUse, timers) ==
    /\ armed' = IF inUse THEN timers \cup {"reconnect"} ELSE timers
    /\ first' = (first /\ ~inUse)

\* on_disconnected, if the lost socket is the one in use.
Disconnected(inUse, timers) ==
    /\ armed' = IF inUse THEN (timers \ {"ping"}) \cup {"reconnect"} ELSE timers
    /\ first' = (first /\ ~inUse)

\* A socket loses its connection.  A QWebSocket says so of a failed attempt as well.
Closed(s) ==
    /\ On(s) \/ (s = "ws" /\ conn[s] = "connecting")
    /\ conn' = [conn EXCEPT ![s] = "off"]
    /\ wire' = [wire EXCEPT ![s] = << >>]
    /\ Disconnected(useWs = (s = "ws"), armed)
    /\ useWs' = (useWs /\ s # "ws")
    /\ UNCHANGED <<queue, stale, findNick>>

\* errorOccurred of an attempt over TCP: no slot of disconnected runs.
TcpRefused ==
    /\ conn["tcp"] = "connecting"
    /\ conn' = [conn EXCEPT !["tcp"] = "off"]
    /\ UNCHANGED <<wire, queue, useWs, armed, stale, first, findNick>>

\* Three seconds after an attempt over TCP.  QWebSocket::open drops the socket it had
\* without a signal.
FallbackTimeout ==
    /\ "fallback" \in armed
    /\ armed' = armed \ {"fallback"}
    /\ IF On("tcp") THEN UNCHANGED netState
       ELSE /\ conn' = [tcp |-> "off", ws |-> "connecting"]
            /\ wire' = [wire EXCEPT !["ws"] = << >>]
    /\ UNCHANGED <<queue, useWs, stale, first, findNick>>

\* Two seconds after on_disconnected, and half a second after force_reconnect.
EnsureTimeout(t) ==
    /\ t \in armed
    /\ Ensure(armed \ {t})
    /\ UNCHANGED <<wire, queue, useWs, stale, first, findNick>>

\* force_reconnect, from the event loop after enqueue found the socket silent.  Aborting
\* a socket signals disconnected as losing it does.
ForceReconnect ==
    /\ "force" \in armed
    /\ conn' = [s \in Sockets |-> "off"]
    /\ wire' = [s \in Sockets |-> << >>]
    /\ Disconnected(IF useWs THEN conn["ws"] # "off" ELSE On("tcp"),
                    (armed \ {"force", "fallback", "ping"}) \cup {"ensure"})
    /\ useWs' = FALSE
    /\ UNCHANGED <<queue, stale, findNick>>

\* A line of an answer arrives; after the lines but the last of an answer to FETCH the
\* command stays the oldest.
Answer(s) ==
    /\ On(s) /\ wire[s] # << >>
    /\ \/ wire' = [wire EXCEPT ![s] = Tail(@)]
       \/ Head(wire[s]) = Lane!Fetch /\ UNCHANGED wire
    /\ stale' = FALSE
    /\ UNCHANGED <<conn, queue, useWs, armed, first, findNick>>

\* Six seconds pass without an answer.
Silence ==
    /\ ~stale /\ stale' = TRUE
    /\ UNCHANGED <<conn, wire, queue, useWs, armed, first, findNick>>

Timeout == FallbackTimeout \/ ForceReconnect \/ \E t \in {"reconnect", "ensure"} : EnsureTimeout(t)

Next ==
    \/ EnsureConnected
    \/ \E c \in Requests : Enqueue(c)
    \/ \E s \in Sockets : Connected(s) \/ Closed(s) \/ Answer(s)
    \/ TcpRefused
    \/ Timeout
    \/ Silence

\* Cloudflare closes a WebSocket nobody pings.
Idle == "ping" \notin armed /\ Closed("ws")

(***************************************************************************)
(* What the code's scheduling justifies: a running timer fires, and from   *)
(* sign-in on the core's poll timer calls ensure_connected again and       *)
(* again.  Of the network only that the WebSocket can be reached: of       *)
(* infinitely many attempts one connects, and an idle one is closed.  TCP  *)
(* may never connect, as without IPv6.                                     *)
(***************************************************************************)
Fairness ==
    /\ WF_vars(FallbackTimeout) /\ WF_vars(ForceReconnect)
    /\ \A t \in {"reconnect", "ensure"} : WF_vars(EnsureTimeout(t))
    /\ WF_vars(EnsureConnected)
    /\ WF_vars(Idle)
    /\ SF_vars(Connected("ws"))

Spec == Init /\ [][Next]_vars /\ Fairness

-----------------------------------------------------------------------------
\* Types, and that commands are on the wire of a connected socket only, and the fallback
\* is armed only while TCP has no connection, and always while it tries for one.
TypeOK ==
    /\ conn \in [Sockets -> {"off", "connecting", "on"}]
    /\ wire \in [Sockets -> Seq(Lane!Command)]
    /\ queue \in Seq(Lane!Command)
    /\ {useWs, stale, first} \subseteq BOOLEAN
    /\ armed \subseteq Timers
    /\ findNick \in Peers \cup {None}
    /\ \A s \in Sockets : On(s) \/ wire[s] = << >>
    /\ "fallback" \in armed => ~On("tcp")
    /\ conn["tcp"] = "connecting" => "fallback" \in armed

\* The keep-alive ping runs exactly while the WebSocket is the transport in use, over
\* every order of connections, losses, fallbacks and forced reconnects: otherwise
\* Cloudflare would close a socket in use.
PingFollowsTransport == useWs <=> "ping" \in armed

\* The steps BootstrapLink allows.
LaneStep ==
    \/ \E c \in Requests : IF c.op = "FIND" THEN Lane!AskFinds(<<c.peer>>) ELSE Lane!Ask(<<c>>)
    \/ \E op \in {"FIND", "STORE", "FETCH", "REGISTER"} : Lane!Answered(op, << >>)
    \/ \E k \in 0..Len(Asked) : Lane!Break(k)
    \/ \E greeting \in {<< >>, <<Lane!Register>>} : Lane!Relink(greeting)

\* Two transports, a queue and five timers look like one lane to the core: but for the
\* moments in which both sockets are connected, every step gives a command, answers the
\* oldest, or cuts the written ones off with the link; none is repeated or overtaken.
LaneKept == [][BothOn \/ BothOn' \/ LaneStep]_<<Asked, Linked, findNick>>

\* What a step may do to the commands on socket s without writing to it: nothing, an
\* answer to the oldest, or a cut of all of them, together with the socket.
Served(s) ==
    \/ wire'[s] = wire[s]
    \/ wire[s] # << >> /\ wire'[s] = Tail(wire[s])
    \/ ~On(s)' /\ wire'[s] = << >>

Additions == {<< >>} \cup {<<c>> : c \in Requests \cup {Lane!Register}}
HeldBack(new) == queue' = queue \o new /\ \A s \in Sockets : Served(s)
WrittenTo(s, new) ==
    /\ On(s)' /\ queue' = << >>
    /\ wire'[s] = wire[s] \o (queue \o new)
    /\ \A t \in Sockets \ {s} : wire'[t] = wire[t]

\* Also while both sockets are connected, when the transport in use and the one written
\* to may differ: a command joins the end of the queue, and the queue leaves only as a
\* whole, in order, behind what one connected socket carries; each socket is answered in
\* order, and none but a lost one forgets a command.
WrittenOnce ==
    [][\E new \in Additions : HeldBack(new) \/ \E s \in Sockets : WrittenTo(s, new)]_<<wire, queue>>

\* Whatever is lost, refused or silent, a queued command is written in the end.
QueueDrains == queue # << >> ~> queue = << >>

\* The reconnect timer starts an attempt, finds one under way, or finds a socket in use.
RetryRetries ==
    [][EnsureTimeout("reconnect") => (Usable \/ \E s \in Sockets : conn[s] = "connecting")']_vars
=============================================================================
