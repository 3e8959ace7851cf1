------------------------ MODULE BootstrapClientProofs -----------------------
(***************************************************************************)
(* The two transports of Bootstrap_Client keep the promise of BootstrapLink *)
(* for any commands, any bound, and any order of events.                   *)
(***************************************************************************)
EXTENDS BootstrapClient, SequenceTheorems, TLAPS

Cmds == Lane!Command

LEMMA RegisterIsCommand == Lane!Register \in Cmds /\ Lane!Register.op = "REGISTER"
BY DEF Cmds, Lane!Command, Lane!Register

\* What a lane is taken apart and put together with.
LEMMA ConcatFacts ==
    ASSUME NEW s \in Seq(Cmds), NEW t \in Seq(Cmds)
    PROVE  /\ s \o t \in Seq(Cmds)
           /\ << >> \o s = s /\ s \o << >> = s
           /\ \A u \in Seq(Cmds) : (s \o t) \o u = s \o (t \o u)
           /\ \A c \in Cmds : Append(s, c) = s \o <<c>> /\ <<c>> \in Seq(Cmds)
           /\ << >> \in Seq(Cmds)
<1>1. s \o t \in Seq(Cmds)
  BY ConcatProperties
<1>2. << >> \o s = s /\ s \o << >> = s
  BY ConcatEmptySeq
<1>3. \A u \in Seq(Cmds) : (s \o t) \o u = s \o (t \o u)
  BY ConcatAssociative
<1>4. \A c \in Cmds : Append(s, c) = s \o <<c>>
  BY AppendIsConcat
<1>5. \A c \in Cmds : <<c>> \in Seq(Cmds)
  OBVIOUS
<1> QED BY <1>1, <1>2, <1>3, <1>4, <1>5, EmptySeq

\* A lane of which one socket carries nothing.
LEMMA LaneOfOne ==
    ASSUME NEW w \in Seq(Cmds), NEW q \in Seq(Cmds)
    PROVE  (w \o << >>) \o q = w \o q /\ (<< >> \o w) \o q = w \o q
BY ConcatFacts

\* Cutting the first of two sequences off, and taking the head of it.
LEMMA CutFacts ==
    ASSUME NEW s \in Seq(Cmds), NEW t \in Seq(Cmds)
    PROVE  /\ Len(s) \in 0..Len(s \o t)
           /\ SubSeq(s \o t, Len(s) + 1, Len(s \o t)) = t
           /\ s # << >> => /\ s \o t # << >>
                           /\ Head(s \o t) = Head(s)
                           /\ Tail(s \o t) = Tail(s) \o t
                           /\ Head(s) \in Cmds
                           /\ Tail(s) \in Seq(Cmds)
<1> DEFINE u == s \o t
<1>1. /\ Len(s) \in Nat /\ Len(t) \in Nat
      /\ u \in Seq(Cmds) /\ Len(u) = Len(s) + Len(t)
      /\ \A i \in 1..Len(u) : u[i] = IF i <= Len(s) THEN s[i] ELSE t[i - Len(s)]
  BY LenProperties, ConcatProperties
<1>2. SubSeq(u, Len(s) + 1, Len(u)) = t
  <2> DEFINE v == SubSeq(u, Len(s) + 1, Len(u))
  <2>1. \A i \in (Len(s) + 1)..Len(u) : u[i] \in Cmds
    BY <1>1, ElementOfSeq
  <2>2. /\ v \in Seq(Cmds)
        /\ Len(v) = IF Len(s) + 1 <= Len(u) THEN Len(u) - (Len(s) + 1) + 1 ELSE 0
        /\ \A i \in 1..(Len(u) - (Len(s) + 1) + 1) : v[i] = u[(Len(s) + 1) + i - 1]
    <3> HIDE DEF u
    <3>1. Len(s) + 1 \in Int /\ Len(u) \in Int
      BY <1>1
    <3> QED BY <3>1, <2>1, SubSeqProperties
  <2>3. Len(v) = Len(t)
    BY <1>1, <2>2
  <2>4. \A i \in 1..Len(v) : v[i] = t[i]
    <3> HIDE DEF u, v
    <3> TAKE i \in 1..Len(v)
    <3>1. i \in 1..(Len(u) - (Len(s) + 1) + 1) /\ v[i] = u[(Len(s) + 1) + i - 1]
      BY <1>1, <2>2, <2>3
    <3>2. (Len(s) + 1) + i - 1 = Len(s) + i /\ Len(s) + i \in 1..Len(u)
      BY <1>1, <2>3
    <3>3. u[Len(s) + i] = t[(Len(s) + i) - Len(s)] /\ (Len(s) + i) - Len(s) = i
      BY <1>1, <2>3, <3>2
    <3> QED BY <3>1, <3>2, <3>3
  <2> HIDE DEF v
  <2> QED BY <2>2, <2>3, <2>4, SeqEqual DEF v
<1>3. ASSUME s # << >>
      PROVE  /\ u # << >> /\ Head(u) = Head(s) /\ Tail(u) = Tail(s) \o t
             /\ Head(s) \in Cmds /\ Tail(s) \in Seq(Cmds)
  <2>1. Len(s) \in Nat \ {0}
    BY <1>3, EmptySeq
  <2>2. u # << >>
    BY <1>1, <2>1, EmptySeq
  <2>3. Head(u) = Head(s)
    BY <1>1, <1>3, <2>1, <2>2
  <2>4. /\ Tail(s) \in Seq(Cmds) /\ Len(Tail(s)) = Len(s) - 1
        /\ \A i \in 1..Len(Tail(s)) : Tail(s)[i] = s[i + 1]
        /\ Head(s) \in Cmds
    BY <1>3, HeadTailProperties
  <2>5. /\ Tail(u) \in Seq(Cmds) /\ Len(Tail(u)) = Len(u) - 1
        /\ \A i \in 1..Len(Tail(u)) : Tail(u)[i] = u[i + 1]
    BY <1>1, <2>2, HeadTailProperties
  <2> DEFINE w == Tail(s) \o t
  <2>6. /\ w \in Seq(Cmds) /\ Len(w) = Len(Tail(s)) + Len(t)
        /\ \A i \in 1..Len(w) :
              w[i] = IF i <= Len(Tail(s)) THEN Tail(s)[i] ELSE t[i - Len(Tail(s))]
    BY <2>4, ConcatProperties
  <2> HIDE DEF u, w
  <2>7. Len(Tail(u)) = Len(w)
    BY <1>1, <2>4, <2>5, <2>6
  <2>8. \A i \in 1..Len(w) : Tail(u)[i] = w[i]
    <3> TAKE i \in 1..Len(w)
    <3>1. Tail(u)[i] = u[i + 1] /\ i + 1 \in 1..Len(u) /\ i \in Nat
      BY <1>1, <2>1, <2>4, <2>5, <2>6, <2>7
    <3>2. CASE i + 1 <= Len(s)
      <4>1. u[i + 1] = s[i + 1]
        BY <1>1, <3>1, <3>2
      <4>2. i \in 1..Len(Tail(s))
        BY <2>1, <2>4, <3>1, <3>2
      <4>3. w[i] = Tail(s)[i]
        BY <2>6, <4>2
      <4> QED BY <2>4, <3>1, <4>1, <4>2, <4>3
    <3>3. CASE ~(i + 1 <= Len(s))
      <4>1. u[i + 1] = t[(i + 1) - Len(s)]
        BY <1>1, <3>1, <3>3
      <4>2. ~(i <= Len(Tail(s))) /\ i - Len(Tail(s)) = (i + 1) - Len(s)
        BY <2>1, <2>4, <3>1, <3>3
      <4> QED BY <2>6, <3>1, <4>1, <4>2
    <3> QED BY <3>2, <3>3
  <2>9. Tail(u) = w
    BY <2>5, <2>6, <2>7, <2>8, SeqEqual
  <2> QED BY <2>2, <2>3, <2>4, <2>9 DEF w
<1>4. Len(s) \in 0..Len(u)
  BY <1>1
<1> QED BY <1>2, <1>3, <1>4

-----------------------------------------------------------------------------
\* The state of the sockets, without the timers: what an action that changes neither the
\* sockets nor what is written to them keeps.
SocketsOK ==
    /\ conn \in [Sockets -> {"off", "connecting", "on"}]
    /\ wire \in [Sockets -> Seq(Cmds)]
    /\ \A s \in Sockets : On(s) \/ wire[s] = << >>

\* flush_queue writes to one socket.
LEMMA FlushType ==
    ASSUME TypeOK, NEW cmds \in Seq(Cmds), NEW tcpOn \in BOOLEAN, Flush(cmds, tcpOn)
    PROVE  /\ queue' = << >> /\ queue' \in Seq(Cmds)
           /\ wire' \in [Sockets -> Seq(Cmds)]
           /\ wire'["tcp"] = IF tcpOn THEN wire["tcp"] \o cmds ELSE wire["tcp"]
           /\ wire'["ws"] = IF tcpOn THEN wire["ws"] ELSE wire["ws"] \o cmds
<1>1. wire \in [Sockets -> Seq(Cmds)] /\ {"tcp", "ws"} = Sockets
  BY DEF TypeOK, Cmds, Sockets
<1>2. \A s \in Sockets : wire[s] \o cmds \in Seq(Cmds)
  BY <1>1, ConcatFacts
<1>3. << >> \in Seq(Cmds)
  BY EmptySeq
<1> QED BY <1>1, <1>2, <1>3 DEF Flush, Sockets

\* ensure_connected starts an attempt over TCP or changes nothing.
LEMMA EnsureType ==
    ASSUME TypeOK, NEW timers \in SUBSET Timers, Ensure(timers)
    PROVE  /\ conn' \in [Sockets -> {"off", "connecting", "on"}]
           /\ \A s \in Sockets : conn'[s] = "on" <=> On(s)
           /\ armed' \in SUBSET Timers
           /\ armed' \ {"fallback"} = timers \ {"fallback"}
           /\ armed' = timers \/ ~On("tcp")
           /\ (conn["tcp"] = "connecting" => "fallback" \in timers)
                  => (conn'["tcp"] = "connecting" => "fallback" \in armed')
BY DEF TypeOK, Ensure, On, Sockets, Timers

LEMMA TypeInit == Init => TypeOK /\ PingFollowsTransport
<1> SUFFICES ASSUME Init PROVE TypeOK /\ PingFollowsTransport
  OBVIOUS
<1>1. << >> \in Seq(Cmds)
  BY EmptySeq
<1> QED BY <1>1 DEF Init, TypeOK, PingFollowsTransport, Cmds, Sockets, Timers, On

\* Every step keeps the types and the keep-alive.
LEMMA TypeStep ==
    TypeOK /\ PingFollowsTransport /\ [Next]_vars => (TypeOK /\ PingFollowsTransport)'
<1> SUFFICES ASSUME TypeOK, PingFollowsTransport, [Next]_vars
             PROVE  (TypeOK /\ PingFollowsTransport)'
  OBVIOUS
<1> USE DEF PingFollowsTransport
<1>0. /\ SocketsOK /\ queue \in Seq(Cmds) /\ armed \in SUBSET Timers
      /\ useWs \in BOOLEAN /\ stale \in BOOLEAN /\ first \in BOOLEAN
      /\ "fallback" \in armed => ~On("tcp")
      /\ conn["tcp"] = "connecting" => "fallback" \in armed
      /\ findNick \in Peers \cup {None}
  BY DEF TypeOK, SocketsOK, Cmds
<1>1. CASE EnsureConnected
  <2>1. /\ conn' \in [Sockets -> {"off", "connecting", "on"}]
        /\ \A s \in Sockets : conn'[s] = "on" <=> On(s)
        /\ armed' \in SUBSET Timers /\ armed' \ {"fallback"} = armed \ {"fallback"}
        /\ armed' = armed \/ ~On("tcp")
        /\ conn'["tcp"] = "connecting" => "fallback" \in armed'
    BY <1>0, <1>1, EnsureType DEF EnsureConnected
  <2> QED BY <1>0, <1>1, <2>1 DEF EnsureConnected, TypeOK, SocketsOK, Cmds, On, Sockets
<1>2. ASSUME NEW c \in Requests, Enqueue(c) PROVE (TypeOK /\ PingFollowsTransport)'
  <2>1. c \in Cmds /\ (c.op = "FIND" => c.peer \in Peers)
    BY RequestsAssumption DEF Cmds, Lane!Command, Lane!Fetch, Lane!Register
  <2>2. findNick' \in Peers \cup {None} /\ UNCHANGED <<useWs, stale, first>>
    BY <1>0, <1>2, <2>1 DEF Enqueue
  <2>3. Append(queue, c) \in Seq(Cmds) /\ <<c>> \in Seq(Cmds)
    BY <1>0, <2>1
  <2>4. CASE /\ Usable /\ stale /\ queue = << >> /\ queue' = <<c>>
             /\ armed' = armed \cup {"force"} /\ UNCHANGED netState
    BY <1>0, <2>2, <2>3, <2>4 DEF TypeOK, SocketsOK, Cmds, On, Sockets, Timers, netState
  <2>5. CASE /\ Usable /\ Flush(Append(queue, c), On("tcp")) /\ UNCHANGED <<conn, armed>>
    <3>1. On("tcp") \in BOOLEAN
      BY DEF On
    <3>2. /\ queue' \in Seq(Cmds) /\ wire' \in [Sockets -> Seq(Cmds)]
          /\ wire'["tcp"] = IF On("tcp") THEN wire["tcp"] \o Append(queue, c) ELSE wire["tcp"]
          /\ wire'["ws"] = IF On("tcp") THEN wire["ws"] ELSE wire["ws"] \o Append(queue, c)
      BY <2>3, <2>5, <3>1, FlushType
    <3>3. \A s \in Sockets : On(s) \/ wire'[s] = << >>
      BY <1>0, <2>5, <3>2 DEF SocketsOK, Usable, Sockets
    <3> QED BY <1>0, <2>2, <2>5, <3>2, <3>3 DEF TypeOK, SocketsOK, Cmds, On
  <2>6. CASE /\ ~Usable /\ queue' = Append(queue, c) /\ Ensure(armed) /\ UNCHANGED wire
    <3>1. /\ conn' \in [Sockets -> {"off", "connecting", "on"}]
          /\ \A s \in Sockets : conn'[s] = "on" <=> On(s)
          /\ armed' \in SUBSET Timers /\ armed' \ {"fallback"} = armed \ {"fallback"}
          /\ armed' = armed \/ ~On("tcp")
          /\ conn'["tcp"] = "connecting" => "fallback" \in armed'
      BY <1>0, <2>6, EnsureType
    <3> QED BY <1>0, <2>2, <2>3, <2>6, <3>1 DEF TypeOK, SocketsOK, Cmds, On, Sockets
  <2> QED BY <1>2, <2>4, <2>5, <2>6 DEF Enqueue
<1>3. ASSUME NEW s \in Sockets, Connected(s) PROVE (TypeOK /\ PingFollowsTransport)'
  <2>1. PICK greeting \in {<< >>, <<Lane!Register>>} :
            Flush(queue \o greeting, s = "tcp" \/ On("tcp"))
    BY <1>3 DEF Connected
  <2>2. queue \o greeting \in Seq(Cmds)
    BY <1>0, RegisterIsCommand, ConcatFacts, EmptySeq
  <2>3. (s = "tcp" \/ On("tcp")) \in BOOLEAN
    OBVIOUS
  <2>4. /\ queue' \in Seq(Cmds) /\ wire' \in [Sockets -> Seq(Cmds)]
        /\ wire'["tcp"] = IF s = "tcp" \/ On("tcp") THEN wire["tcp"] \o (queue \o greeting)
                                                    ELSE wire["tcp"]
        /\ wire'["ws"] = IF s = "tcp" \/ On("tcp") THEN wire["ws"]
                                                   ELSE wire["ws"] \o (queue \o greeting)
    BY <2>1, <2>2, <2>3, FlushType
  <2>5. /\ conn' = [conn EXCEPT ![s] = "on"] /\ useWs' = (s = "ws")
        /\ armed' = IF s = "ws" THEN (armed \ {"reconnect"}) \cup {"ping"}
                                ELSE armed \ {"reconnect", "ping", "fallback"}
        /\ stale' = FALSE /\ first' = FALSE /\ findNick' = findNick
        /\ conn[s] = "connecting"
    BY <1>3 DEF Connected
  <2>6. \A r \in Sockets : conn'[r] = "on" \/ wire'[r] = << >>
    BY <1>0, <2>4, <2>5 DEF SocketsOK, On, Sockets
  <2> QED BY <1>0, <2>4, <2>5, <2>6 DEF TypeOK, SocketsOK, Cmds, On, Sockets, Timers
<1>4. ASSUME NEW s \in Sockets, Closed(s) PROVE (TypeOK /\ PingFollowsTransport)'
  <2>1. << >> \in Seq(Cmds)
    BY EmptySeq
  <2> QED BY <1>0, <1>4, <2>1
          DEF Closed, Disconnected, TypeOK, SocketsOK, Cmds, On, Sockets, Timers
<1>5. ASSUME NEW s \in Sockets, Answer(s) PROVE (TypeOK /\ PingFollowsTransport)'
  <2>1. wire[s] \in Seq(Cmds) /\ Tail(wire[s]) \in Seq(Cmds)
    BY <1>0, <1>5, HeadTailProperties DEF Answer, SocketsOK
  <2>2. wire' \in [Sockets -> Seq(Cmds)] /\ \A r \in Sockets : On(r) \/ wire'[r] = << >>
    BY <1>0, <1>5, <2>1 DEF Answer, SocketsOK, Sockets
  <2> QED BY <1>0, <1>5, <2>2 DEF Answer, TypeOK, SocketsOK, Cmds, On
<1>6. CASE TcpRefused
  BY <1>0, <1>6 DEF TcpRefused, TypeOK, SocketsOK, Cmds, On, Sockets
<1>7. CASE FallbackTimeout
  <2>1. << >> \in Seq(Cmds)
    BY EmptySeq
  <2> QED BY <1>0, <1>7, <2>1
          DEF FallbackTimeout, TypeOK, SocketsOK, Cmds, On, Sockets, netState
<1>8. CASE ForceReconnect
  <2>1. << >> \in Seq(Cmds)
    BY EmptySeq
  <2> QED BY <1>0, <1>8, <2>1
          DEF ForceReconnect, Disconnected, TypeOK, SocketsOK, Cmds, On, Sockets, Timers
<1>9. ASSUME NEW t \in {"reconnect", "ensure"}, EnsureTimeout(t)
      PROVE (TypeOK /\ PingFollowsTransport)'
  <2>1. armed \ {t} \in SUBSET Timers
    BY <1>0
  <2>2. /\ conn' \in [Sockets -> {"off", "connecting", "on"}]
        /\ \A s \in Sockets : conn'[s] = "on" <=> On(s)
        /\ armed' \in SUBSET Timers
        /\ armed' \ {"fallback"} = (armed \ {t}) \ {"fallback"}
        /\ armed' = armed \ {t} \/ ~On("tcp")
        /\ conn'["tcp"] = "connecting" => "fallback" \in armed'
    <3>1. conn["tcp"] = "connecting" => "fallback" \in armed \ {t}
      BY <1>0
    <3> QED BY <1>9, <2>1, <3>1, EnsureType DEF EnsureTimeout
  <2> QED BY <1>0, <1>9, <2>2 DEF EnsureTimeout, TypeOK, SocketsOK, Cmds, On, Sockets
<1>10. CASE Silence
  BY <1>0, <1>10 DEF Silence, TypeOK, SocketsOK, Cmds, On
<1>11. CASE UNCHANGED vars
  BY <1>0, <1>11 DEF vars, TypeOK, SocketsOK, Cmds, On
<1> QED BY <1>1, <1>2, <1>3, <1>4, <1>5, <1>6, <1>7, <1>8, <1>9, <1>10, <1>11 DEF Next, Timeout

\* The types of Bootstrap_Client, and that only a connected socket carries commands.
THEOREM ClientTypeCorrect == Spec => []TypeOK
<1>1. TypeOK /\ PingFollowsTransport /\ [Next]_vars => (TypeOK /\ PingFollowsTransport)'
  BY TypeStep
<1> QED BY <1>1, TypeInit, PTL DEF Spec

\* The keep-alive ping runs exactly while the WebSocket is in use.
THEOREM KeepAlive == Spec => []PingFollowsTransport
<1>1. TypeOK /\ PingFollowsTransport /\ [Next]_vars => (TypeOK /\ PingFollowsTransport)'
  BY TypeStep
<1> QED BY <1>1, TypeInit, PTL DEF Spec

-----------------------------------------------------------------------------
\* Commands that wait for an answer, once one of the sockets carries none.
LEMMA AskedByOne ==
    ASSUME TypeOK
    PROVE  /\ queue \in Seq(Cmds) /\ \A s \in Sockets : wire[s] \in Seq(Cmds)
           /\ \A s \in Sockets : ~On(s) => wire[s] = << >>
           /\ wire["ws"] = << >> => Asked = wire["tcp"] \o queue
           /\ wire["tcp"] = << >> => Asked = wire["ws"] \o queue
           /\ Asked \in Seq(Cmds)
<1>1. /\ queue \in Seq(Cmds) /\ wire["tcp"] \in Seq(Cmds) /\ wire["ws"] \in Seq(Cmds)
      /\ \A s \in Sockets : wire[s] \in Seq(Cmds) /\ (~On(s) => wire[s] = << >>)
  BY DEF TypeOK, Cmds, Sockets
<1>2. wire["tcp"] \o << >> = wire["tcp"] /\ << >> \o wire["ws"] = wire["ws"]
  BY <1>1, ConcatFacts
<1>3. wire["tcp"] \o wire["ws"] \in Seq(Cmds)
  BY <1>1, ConcatFacts
<1>4. Asked \in Seq(Cmds)
  BY <1>1, <1>3, ConcatFacts DEF Asked
<1> QED BY <1>1, <1>2, <1>4 DEF Asked

\* A single command given to the lane.
LEMMA AskOne ==
    ASSUME NEW c \in Requests, Asked' = Asked \o <<c>>, Linked' = Linked,
           findNick' = IF c.op = "FIND" THEN c.peer ELSE findNick
    PROVE  LaneStep
<1>1. CASE c.op # "FIND"
  BY <1>1 DEF LaneStep, Lane!Ask
<1>2. CASE c.op = "FIND"
  <2>1. c = Lane!Find(c.peer)
    BY <1>2, RequestsAssumption DEF Lane!Command, Lane!Find, Lane!Fetch, Lane!Register
  <2>2. Lane!Finds(<<c.peer>>) = <<c>>
    <3>1. DOMAIN <<c.peer>> = 1..1 /\ DOMAIN <<c>> = 1..1
      OBVIOUS
    <3>2. Lane!Finds(<<c.peer>>) = [k \in 1..1 |-> Lane!Find(<<c.peer>>[k])]
      BY <3>1 DEF Lane!Finds
    <3>3. <<c>> = [k \in 1..1 |-> <<c>>[k]]
      BY <3>1
    <3>4. \A k \in 1..1 : <<c>>[k] = Lane!Find(<<c.peer>>[k])
      BY <2>1
    <3> QED BY <3>2, <3>3, <3>4
  <2>3. <<c.peer>> # << >> /\ Len(<<c.peer>>) = 1 /\ <<c.peer>>[1] = c.peer
    OBVIOUS
  <2>4. Lane!AskFinds(<<c.peer>>)
    BY <1>2, <2>2, <2>3 DEF Lane!AskFinds
  <2> QED BY <1>2, <2>4 DEF LaneStep
<1> QED BY <1>1, <1>2

\* A link goes, and what was written to the socket s with it.
LEMMA BreakOff ==
    ASSUME TypeOK, NEW s \in Sockets, On(s), ~BothOn, ~Linked',
           wire' = [r \in Sockets |-> << >>], queue' = queue, findNick' = findNick
    PROVE  LaneStep
<1>1. /\ Asked = wire[s] \o queue /\ queue \in Seq(Cmds) /\ wire[s] \in Seq(Cmds)
      /\ Asked \in Seq(Cmds)
  BY AskedByOne DEF BothOn, Sockets
<1>2. Asked' = queue
  BY <1>1, ConcatFacts, EmptySeq DEF Asked, Sockets
<1>3. Len(wire[s]) \in 0..Len(Asked) /\ SubSeq(Asked, Len(wire[s]) + 1, Len(Asked)) = queue
  BY <1>1, CutFacts
<1>4. Linked
  BY DEF Linked, Sockets
<1>5. Len(wire[s]) <= Len(Asked)
  BY <1>1, <1>3, LenProperties
<1>6. Linked' = FALSE
  BY DEF Linked, On
<1>7. Asked' = SubSeq(Asked, Len(wire[s]) + 1, Len(Asked))
  BY <1>2, <1>3
<1>8. Lane!Break(Len(wire[s]))
  BY <1>4, <1>5, <1>6, <1>7 DEF Lane!Break
<1> QED BY <1>3, <1>8 DEF LaneStep

\* No socket carried a command, and none is connected anew: the lane does not see it.
LEMMA Unseen ==
    ASSUME wire' = wire, queue' = queue, findNick' = findNick,
           \A s \in Sockets : On(s)' <=> On(s)
    PROVE  UNCHANGED <<Asked, Linked, findNick>>
BY DEF Asked, Linked, Sockets

LEMMA LaneStepKept ==
    ASSUME TypeOK, TypeOK', Next, ~BothOn, ~BothOn'
    PROVE  LaneStep \/ UNCHANGED <<Asked, Linked, findNick>>
<1>0. /\ queue \in Seq(Cmds) /\ \A s \in Sockets : wire[s] \in Seq(Cmds)
      /\ \A s \in Sockets : ~On(s) => wire[s] = << >>
      /\ conn \in [Sockets -> {"off", "connecting", "on"}]
      /\ wire \in [Sockets -> Seq(Cmds)]
      /\ armed \in SUBSET Timers
  BY AskedByOne DEF TypeOK, Cmds
<1>1. CASE EnsureConnected
  <2>1. \A s \in Sockets : conn'[s] = "on" <=> On(s)
    BY <1>0, <1>1, EnsureType DEF EnsureConnected
  <2> QED BY <1>1, <2>1, Unseen DEF EnsureConnected, On
<1>2. ASSUME NEW c \in Requests, Enqueue(c) PROVE LaneStep
  <2>1. c \in Cmds /\ <<c>> \in Seq(Cmds) /\ Append(queue, c) = queue \o <<c>>
        /\ Append(queue, c) \in Seq(Cmds)
    BY <1>0, RequestsAssumption, ConcatFacts DEF Cmds
  <2>2. /\ \A w \in Seq(Cmds) : (w \o queue) \o <<c>> = w \o Append(queue, c)
        /\ wire["tcp"] \o wire["ws"] \in Seq(Cmds)
    BY <1>0, <2>1, ConcatFacts DEF Sockets
  <2>3. findNick' = IF c.op = "FIND" THEN c.peer ELSE findNick
    BY <1>2 DEF Enqueue
  <2>4. CASE /\ queue' = Append(queue, c) /\ wire' = wire
             /\ \A s \in Sockets : conn'[s] = "on" <=> On(s)
    <3>1. Asked' = Asked \o <<c>>
      BY <2>2, <2>4 DEF Asked
    <3>2. Linked' = Linked
      BY <2>4 DEF Linked, On, Sockets
    <3> QED BY <2>3, <3>1, <3>2, AskOne
  <2>5. CASE queue = << >> /\ queue' = <<c>> /\ UNCHANGED netState
    <3>1. queue' = Append(queue, c)
      BY <2>5
    <3>2. wire' = wire /\ \A s \in Sockets : conn'[s] = "on" <=> On(s)
      BY <2>5 DEF netState, On
    <3> QED BY <2>4, <3>1, <3>2
  <2>6. CASE Usable /\ Flush(Append(queue, c), On("tcp")) /\ UNCHANGED <<conn, armed>>
    <3>1. On("tcp") \in BOOLEAN
      BY DEF On
    <3>2. /\ queue' = << >>
          /\ wire'["tcp"] = IF On("tcp") THEN wire["tcp"] \o Append(queue, c) ELSE wire["tcp"]
          /\ wire'["ws"] = IF On("tcp") THEN wire["ws"] ELSE wire["ws"] \o Append(queue, c)
      BY <2>1, <2>6, <3>1, FlushType
    <3>3. Linked' = Linked
      BY <2>6 DEF Linked, On
    <3>4. CASE On("tcp")
      <4>1. wire["ws"] = << >> /\ wire'["ws"] = << >>
        BY <1>0, <3>2, <3>4 DEF BothOn, Sockets
      <4>2. wire["tcp"] \in Seq(Cmds) /\ wire'["tcp"] \in Seq(Cmds)
        BY <1>0, <2>1, <3>2, <3>4, ConcatFacts DEF Sockets
      <4>3. Asked' = (wire'["tcp"] \o << >>) \o << >>
        BY <3>2, <4>1 DEF Asked
      <4>4. Asked = wire["tcp"] \o queue /\ Asked' = wire'["tcp"] \o << >>
        BY <4>1, <4>2, <4>3, AskedByOne, LaneOfOne, EmptySeq
      <4>5. Asked' = Asked \o <<c>>
        BY <2>2, <3>2, <3>4, <4>4, <4>2, ConcatFacts
      <4> QED BY <2>3, <3>3, <4>5, AskOne
    <3>5. CASE ~On("tcp")
      <4>1. wire["tcp"] = << >> /\ wire'["tcp"] = << >>
        BY <1>0, <3>2, <3>5 DEF Sockets
      <4>2. wire["ws"] \in Seq(Cmds) /\ wire'["ws"] \in Seq(Cmds)
        BY <1>0, <2>1, <3>2, <3>5, ConcatFacts DEF Sockets
      <4>3. Asked = wire["ws"] \o queue /\ Asked' = wire'["ws"] \o << >>
        BY <3>2, <4>1, <4>2, AskedByOne, ConcatFacts DEF Asked
      <4>4. Asked' = Asked \o <<c>>
        BY <2>2, <3>2, <3>5, <4>2, <4>3, ConcatFacts
      <4> QED BY <2>3, <3>3, <4>4, AskOne
    <3> QED BY <3>4, <3>5
  <2>7. CASE ~Usable /\ queue' = Append(queue, c) /\ Ensure(armed) /\ UNCHANGED wire
    <3>1. \A s \in Sockets : conn'[s] = "on" <=> On(s)
      BY <1>0, <2>7, EnsureType
    <3> QED BY <2>4, <2>7, <3>1
  <2> QED BY <1>2, <2>5, <2>6, <2>7 DEF Enqueue
<1>3. ASSUME NEW s \in Sockets, Connected(s) PROVE LaneStep
  <2>1. PICK greeting \in {<< >>, <<Lane!Register>>} :
            Flush(queue \o greeting, s = "tcp" \/ On("tcp"))
    BY <1>3 DEF Connected
  <2>2. queue \o greeting \in Seq(Cmds) /\ greeting \in Seq(Cmds)
    BY <1>0, RegisterIsCommand, ConcatFacts, EmptySeq
  <2>3. (s = "tcp" \/ On("tcp")) \in BOOLEAN
    OBVIOUS
  <2>4. /\ queue' = << >>
        /\ wire'["tcp"] = IF s = "tcp" \/ On("tcp") THEN wire["tcp"] \o (queue \o greeting)
                                                    ELSE wire["tcp"]
        /\ wire'["ws"] = IF s = "tcp" \/ On("tcp") THEN wire["ws"]
                                                   ELSE wire["ws"] \o (queue \o greeting)
    BY <2>1, <2>2, <2>3, FlushType
  <2>5. ~On("tcp") /\ ~On("ws") /\ Linked' /\ findNick' = findNick
    BY <1>0, <1>3 DEF Connected, BothOn, Linked, On, Sockets
  <2>6. wire["tcp"] = << >> /\ wire["ws"] = << >> /\ Asked = queue
    BY <1>0, <2>5, AskedByOne, ConcatFacts DEF Sockets
  <2> DEFINE new == queue \o greeting
  <2>7. Asked' = new
    <3>1. << >> \o new = new /\ new \o << >> = new
      BY <2>2, ConcatFacts
    <3>2. wire' ["tcp"] = (IF s = "tcp" THEN new ELSE << >>)
          /\ wire' ["ws"] = (IF s = "tcp" THEN << >> ELSE new)
      BY <2>4, <2>5, <2>6, <3>1
    <3> HIDE DEF new
    <3>3. Asked' = (IF s = "tcp" THEN (new \o << >>) \o << >> ELSE (<< >> \o new) \o << >>)
      BY <2>4, <3>2 DEF Asked
    <3> QED BY <3>1, <3>3
  <2>8. Lane!Relink(greeting)
    <3>1. Linked' = TRUE
      BY <2>5 DEF Linked, On
    <3> QED BY <2>5, <2>6, <2>7, <3>1 DEF Lane!Relink, Linked
  <2> QED BY <2>8 DEF LaneStep
<1>4. ASSUME NEW s \in Sockets, Closed(s)
      PROVE  LaneStep \/ UNCHANGED <<Asked, Linked, findNick>>
  <2>1. /\ conn' = [conn EXCEPT ![s] = "off"] /\ wire' = [wire EXCEPT ![s] = << >>]
        /\ queue' = queue /\ findNick' = findNick
    BY <1>4 DEF Closed
  <2>2. CASE On(s)
    <3>1. ~Linked'
      BY <1>0, <2>1, <2>2 DEF BothOn, Linked, On, Sockets
    <3>2. wire' = [r \in Sockets |-> << >>]
      BY <1>0, <2>1, <2>2 DEF BothOn, Sockets
    <3> QED BY <2>1, <2>2, <3>1, <3>2, BreakOff
  <2>3. CASE ~On(s)
    BY <1>0, <2>1, <2>3, Unseen DEF On, Sockets
  <2> QED BY <2>2, <2>3
<1>5. ASSUME NEW s \in Sockets, Answer(s)
      PROVE  LaneStep \/ UNCHANGED <<Asked, Linked, findNick>>
  <2>1. On(s) /\ wire[s] # << >> /\ UNCHANGED <<conn, queue, findNick>>
    BY <1>5 DEF Answer
  <2>2. CASE UNCHANGED wire
    BY <2>1, <2>2, Unseen DEF On
  <2>3. CASE wire' = [wire EXCEPT ![s] = Tail(@)]
    <3>1. Asked = wire[s] \o queue /\ wire[s] \in Seq(Cmds)
      BY <1>0, <2>1, AskedByOne DEF BothOn, Sockets
    <3>2. /\ Asked # << >> /\ Head(Asked) = Head(wire[s])
          /\ Tail(Asked) = Tail(wire[s]) \o queue /\ Head(wire[s]) \in Cmds
          /\ Tail(wire[s]) \in Seq(Cmds)
      BY <1>0, <2>1, <3>1, CutFacts
    <3>3. Asked' = Tail(wire[s]) \o queue
      <4>1. CASE s = "tcp"
        <5>1. wire'["tcp"] = Tail(wire[s]) /\ wire'["ws"] = << >> /\ queue' = queue
          BY <1>0, <2>1, <2>3, <4>1 DEF BothOn, Sockets
        <5> QED BY <1>0, <3>2, <5>1, LaneOfOne DEF Asked
      <4>2. CASE s = "ws"
        <5>1. wire'["ws"] = Tail(wire[s]) /\ wire'["tcp"] = << >> /\ queue' = queue
          BY <1>0, <2>1, <2>3, <4>2 DEF BothOn, Sockets
        <5> QED BY <1>0, <3>2, <5>1, LaneOfOne DEF Asked
      <4> QED BY <4>1, <4>2 DEF Sockets
    <3>4. Asked' = Tail(Asked) \o << >>
      BY <1>0, <3>2, <3>3, ConcatFacts
    <3>5. Head(Asked).op \in {"FIND", "STORE", "FETCH", "REGISTER"}
      BY <3>2 DEF Cmds, Lane!Command, Lane!Fetch, Lane!Register
    <3>6. Linked /\ Linked' = Linked
      BY <2>1 DEF Linked, On, Sockets
    <3>7. Lane!Answered(Head(Asked).op, << >>)
      BY <2>1, <3>2, <3>4, <3>6 DEF Lane!Answered, Lane!Due
    <3> QED BY <3>5, <3>7 DEF LaneStep
  <2> QED BY <1>5, <2>2, <2>3 DEF Answer
<1>6. CASE TcpRefused
  <2>1. \A s \in Sockets : On(s)' <=> On(s)
    BY <1>0, <1>6 DEF TcpRefused, On, Sockets
  <2> QED BY <1>6, <2>1, Unseen DEF TcpRefused
<1>7. CASE FallbackTimeout
  <2>1. ~On("tcp")
    BY <1>7 DEF FallbackTimeout, TypeOK
  <2>2. /\ conn' = [tcp |-> "off", ws |-> "connecting"]
        /\ wire' = [wire EXCEPT !["ws"] = << >>]
        /\ queue' = queue /\ findNick' = findNick
    BY <1>7, <2>1 DEF FallbackTimeout
  <2>3. wire' = [r \in Sockets |-> << >>] /\ ~Linked'
    BY <1>0, <2>1, <2>2 DEF Linked, On, Sockets
  <2>4. CASE On("ws")
    BY <2>2, <2>3, <2>4, BreakOff DEF Sockets
  <2>5. CASE ~On("ws")
    <3>1. wire' = wire
      BY <1>0, <2>1, <2>2, <2>5 DEF Sockets
    <3> QED BY <2>1, <2>2, <2>5, <3>1, Unseen DEF On, Sockets
  <2> QED BY <2>4, <2>5
<1>8. CASE ForceReconnect
  <2>1. /\ conn' = [s \in Sockets |-> "off"] /\ wire' = [s \in Sockets |-> << >>]
        /\ queue' = queue /\ findNick' = findNick
    BY <1>8 DEF ForceReconnect
  <2>2. ~Linked'
    BY <2>1 DEF Linked, On, Sockets
  <2>3. CASE \E s \in Sockets : On(s)
    BY <2>1, <2>2, <2>3, BreakOff
  <2>4. CASE \A s \in Sockets : ~On(s)
    <3>1. wire' = wire
      BY <1>0, <2>1, <2>4
    <3> QED BY <2>1, <2>4, <3>1, Unseen DEF On
  <2> QED BY <2>3, <2>4
<1>9. ASSUME NEW t \in {"reconnect", "ensure"}, EnsureTimeout(t)
      PROVE UNCHANGED <<Asked, Linked, findNick>>
  <2>1. armed \ {t} \in SUBSET Timers
    BY <1>0
  <2>2. \A s \in Sockets : conn'[s] = "on" <=> On(s)
    BY <1>9, <2>1, EnsureType DEF EnsureTimeout
  <2> QED BY <1>9, <2>2, Unseen DEF EnsureTimeout, On
<1>10. CASE Silence
  BY <1>10, Unseen DEF Silence, On
<1> QED BY <1>1, <1>2, <1>3, <1>4, <1>5, <1>6, <1>7, <1>8, <1>9, <1>10 DEF Next, Timeout

\* For any commands, any bound and any order of losses, refusals, fallbacks and forced
\* reconnects, the client is one lane while not both sockets are connected.
THEOREM LaneIsKept == Spec => LaneKept
<1>1. TypeOK /\ TypeOK' /\ [Next]_vars
      => [BothOn \/ BothOn' \/ LaneStep]_<<Asked, Linked, findNick>>
  <2>1. CASE UNCHANGED vars
    BY <2>1 DEF vars, Asked, Linked, On
  <2> QED BY <2>1, LaneStepKept
<1>2. Spec => []TypeOK
  BY ClientTypeCorrect
<1> QED BY <1>1, <1>2, PTL DEF Spec, LaneKept

-----------------------------------------------------------------------------
\* A step that writes nothing: the queue stays, or a command joins it.
LEMMA NothingWritten ==
    ASSUME NEW new \in Additions, queue' = queue \o new, \A s \in Sockets : Served(s)
    PROVE  \E n \in Additions : HeldBack(n) \/ \E s \in Sockets : WrittenTo(s, n)
BY DEF HeldBack

\* A flush writes the queue and what is added to it to one socket.
LEMMA FlushWrites ==
    ASSUME TypeOK, NEW new \in Additions, new \in Seq(Cmds), NEW tcpOn \in BOOLEAN,
           Flush(queue \o new, tcpOn), tcpOn => On("tcp")', ~tcpOn => On("ws")'
    PROVE  \E n \in Additions : HeldBack(n) \/ \E s \in Sockets : WrittenTo(s, n)
<1> DEFINE s == IF tcpOn THEN "tcp" ELSE "ws"
<1>1. queue \in Seq(Cmds)
  BY DEF TypeOK, Cmds
<1>2. queue \o new \in Seq(Cmds)
  BY <1>1, ConcatFacts
<1>3. /\ queue' = << >>
      /\ wire'["tcp"] = IF tcpOn THEN wire["tcp"] \o (queue \o new) ELSE wire["tcp"]
      /\ wire'["ws"] = IF tcpOn THEN wire["ws"] ELSE wire["ws"] \o (queue \o new)
  BY <1>2, FlushType
<1>4. s \in Sockets /\ WrittenTo(s, new)
  BY <1>3 DEF WrittenTo, Sockets
<1> QED BY <1>4

LEMMA WrittenStep ==
    ASSUME TypeOK, Next
    PROVE  \E new \in Additions : HeldBack(new) \/ \E s \in Sockets : WrittenTo(s, new)
<1>0. /\ queue \in Seq(Cmds) /\ \A s \in Sockets : wire[s] \in Seq(Cmds)
      /\ \A s \in Sockets : ~On(s) => wire[s] = << >>
      /\ conn \in [Sockets -> {"off", "connecting", "on"}]
      /\ wire \in [Sockets -> Seq(Cmds)]
      /\ armed \in SUBSET Timers
  BY AskedByOne DEF TypeOK, Cmds
<1>a. << >> \in Additions /\ queue \o << >> = queue
  BY <1>0, ConcatFacts DEF Additions
<1>b. \A s \in Sockets : wire'[s] = wire[s] => Served(s)
  BY DEF Served
<1>1. CASE UNCHANGED <<wire, queue>>
  BY <1>1, <1>a, <1>b, NothingWritten
<1>2. ASSUME NEW c \in Requests, Enqueue(c)
      PROVE  \E new \in Additions : HeldBack(new) \/ \E s \in Sockets : WrittenTo(s, new)
  <2>1. c \in Cmds /\ <<c>> \in Seq(Cmds) /\ Append(queue, c) = queue \o <<c>>
        /\ << >> \o <<c>> = <<c>>
    BY <1>0, RequestsAssumption, ConcatFacts DEF Cmds
  <2>2. <<c>> \in Additions
    BY DEF Additions
  <2>3. CASE queue = << >> /\ queue' = <<c>> /\ UNCHANGED netState
    BY <1>b, <2>1, <2>2, <2>3, NothingWritten DEF netState
  <2>4. CASE Usable /\ Flush(Append(queue, c), On("tcp")) /\ UNCHANGED <<conn, armed>>
    <3>1. On("tcp") \in BOOLEAN /\ (On("tcp") => On("tcp")') /\ (~On("tcp") => On("ws")')
      BY <2>4 DEF On, Usable
    <3>2. Flush(queue \o <<c>>, On("tcp"))
      BY <2>1, <2>4
    <3> QED BY <2>1, <2>2, <3>1, <3>2, FlushWrites
  <2>5. CASE queue' = Append(queue, c) /\ UNCHANGED wire
    BY <1>b, <2>1, <2>2, <2>5, NothingWritten
  <2> QED BY <1>2, <2>3, <2>4, <2>5 DEF Enqueue
<1>3. ASSUME NEW s \in Sockets, Connected(s)
      PROVE  \E new \in Additions : HeldBack(new) \/ \E r \in Sockets : WrittenTo(r, new)
  <2>1. PICK greeting \in {<< >>, <<Lane!Register>>} :
            Flush(queue \o greeting, s = "tcp" \/ On("tcp"))
    BY <1>3 DEF Connected
  <2>2. greeting \in Seq(Cmds) /\ greeting \in Additions
    BY <1>0, RegisterIsCommand, ConcatFacts, EmptySeq DEF Additions
  <2>3. (s = "tcp" \/ On("tcp")) \in BOOLEAN
    OBVIOUS
  <2>4. (s = "tcp" \/ On("tcp") => On("tcp")') /\ (~(s = "tcp" \/ On("tcp")) => On("ws")')
    BY <1>0, <1>3 DEF Connected, On, Sockets
  <2> QED BY <2>1, <2>2, <2>3, <2>4, FlushWrites
<1>4. ASSUME NEW s \in Sockets, Closed(s)
      PROVE  \E new \in Additions : HeldBack(new) \/ \E r \in Sockets : WrittenTo(r, new)
  <2>1. \A r \in Sockets : Served(r)
    BY <1>0, <1>4 DEF Closed, Served, On, Sockets
  <2> QED BY <1>4, <1>a, <2>1, NothingWritten DEF Closed
<1>5. ASSUME NEW s \in Sockets, Answer(s)
      PROVE  \E new \in Additions : HeldBack(new) \/ \E r \in Sockets : WrittenTo(r, new)
  <2>1. \A r \in Sockets : Served(r)
    BY <1>0, <1>5 DEF Answer, Served, Sockets
  <2> QED BY <1>5, <1>a, <2>1, NothingWritten DEF Answer
<1>6. CASE FallbackTimeout
  <2>1. \A s \in Sockets : Served(s)
    BY <1>0, <1>6 DEF FallbackTimeout, Served, On, Sockets, netState
  <2> QED BY <1>6, <1>a, <2>1, NothingWritten DEF FallbackTimeout
<1>7. CASE ForceReconnect
  <2>1. \A s \in Sockets : Served(s)
    BY <1>0, <1>7 DEF ForceReconnect, Served, On, Sockets
  <2> QED BY <1>7, <1>a, <2>1, NothingWritten DEF ForceReconnect
<1>8. CASE EnsureConnected \/ TcpRefused \/ Silence
           \/ \E t \in {"reconnect", "ensure"} : EnsureTimeout(t)
  BY <1>1, <1>8 DEF EnsureConnected, TcpRefused, Silence, EnsureTimeout
<1> QED BY <1>2, <1>3, <1>4, <1>5, <1>6, <1>7, <1>8 DEF Next, Timeout

\* Whichever sockets are connected, every command is written once, to one of them, in the
\* order of the queue, and leaves it by its answer or with the socket.
THEOREM QueueIsWrittenOnce == Spec => WrittenOnce
<1>1. TypeOK /\ [Next]_vars
      => [\E new \in Additions :
             HeldBack(new) \/ \E s \in Sockets : WrittenTo(s, new)]_<<wire, queue>>
  <2>1. CASE UNCHANGED vars
    BY <2>1 DEF vars
  <2> QED BY <2>1, WrittenStep
<1>2. Spec => []TypeOK
  BY ClientTypeCorrect
<1> QED BY <1>1, <1>2, PTL DEF Spec, WrittenOnce
=============================================================================
