---------------------------- MODULE TcpConnection ---------------------------
(***************************************************************************)
(* One direction of a Tcp_Connection: an end that writes frames, and the   *)
(* end that reads them and watches over the silence.  The reader may be    *)
(* the dialling end, which is constructed before the socket is connected.  *)
(*                                                                         *)
(* A byte is its position in the stream, so m_buffer is what lies between  *)
(* the positions taken and arrived, and what is on its way lies between    *)
(* arrived and written.  A frame is a size in a header of HeaderSize bytes *)
(* and as many bytes; a frame of size 0 is a ping, or an empty message.    *)
(* Time passes in ticks.                                                   *)
(***************************************************************************)
EXTENDS Integers, Sequences

CONSTANTS
    HeaderSize,  \* sizeof(qint32)
    PingPeriod,  \* of m_pingTimer
    Patience,    \* silence checkPing bears
    DialLimit,   \* P2P_TIMEOUT_MS
    MaxDelay,    \* bytes are on their way no longer, while the path is healthy
    MaxSize,     \* bound: bytes of a message
    MaxFrames    \* bound: frames written

ASSUME SizesAssumption == HeaderSize \in Nat \ {0} /\ MaxSize \in Nat

\* A path counts as healthy if the slowest dial, the accept at the other end and its first
\* ping fit into the patience together.
ASSUME TimesAssumption ==
    /\ {PingPeriod, Patience, DialLimit, MaxDelay} \subseteq Nat
    /\ MaxDelay < PingPeriod
    /\ DialLimit + PingPeriod + 2 * MaxDelay <= Patience

VARIABLES
    frames,     \* frames written: position, size, messages up to it, ticks left to arrive
    arrived,    \* bytes the reader's socket has handed over
    taken,      \* bytes removed from m_buffer
    expected,   \* m_expectedSize
    reading,    \* the loop of onReadyRead runs
    delivered,  \* messages emitted: the number of each, 0 for bytes of no one message
    link,       \* state of the reader's socket
    lost,       \* the path is broken, whether an end has noticed it or not
    age,        \* ticks since m_lastActivity
    checkIn,    \* ticks to the reader's next checkPing
    pingIn      \* ticks to the writer's next checkPing

streamVars == <<frames, arrived, taken, expected, reading, delivered>>
linkVars == <<link, lost>>
timeVars == <<age, checkIn, pingIn>>
vars == <<streamVars, linkVars, timeVars>>

End(f) == frames[f].start + HeaderSize + frames[f].size
Written == IF frames = << >> THEN 0 ELSE End(Len(frames))
Messages == IF frames = << >> THEN 0 ELSE frames[Len(frames)].no
Underway == {f \in DOMAIN frames : arrived < End(f)}

Init ==
    /\ frames = << >> /\ delivered = << >>
    /\ arrived = 0 /\ taken = 0 /\ expected = -1 /\ reading = FALSE
    /\ link = "connecting" /\ lost = FALSE
    /\ age = 0 /\ checkIn = PingPeriod /\ pingIn = 0

-----------------------------------------------------------------------------
\* The socket connects in time; the other end accepts, and constructs its Tcp_Connection,
\* up to MaxDelay later.
Connect ==
    /\ link = "connecting" /\ ~lost
    /\ link' = "open"
    /\ pingIn' \in PingPeriod..(PingPeriod + MaxDelay)
    /\ UNCHANGED <<streamVars, lost, age, checkIn>>

\* The path breaks, which the reader's socket may report or not.
Lose ==
    /\ link # "closed" /\ ~lost /\ ~reading
    /\ lost' = TRUE
    /\ link' \in {link, "closed"}
    /\ UNCHANGED <<streamVars, timeVars>>

\* A frame is written: its header and its bytes at once.
Write(size) ==
    /\ Len(frames) < MaxFrames
    /\ frames' = Append(frames, [start |-> Written, size |-> size, left |-> MaxDelay,
                                 no |-> Messages + (IF size = 0 THEN 0 ELSE 1)])
    /\ UNCHANGED <<arrived, taken, expected, reading, delivered, linkVars, age, checkIn>>

Sending == link = "open" /\ pingIn <= PingPeriod /\ ~reading

\* sendMessage of the writing end.
Send(size) == Sending /\ Write(size) /\ UNCHANGED pingIn

\* checkPing of the writing end.
Ping == Sending /\ pingIn = 0 /\ Write(0) /\ pingIn' = PingPeriod

\* Mutants: the silence it bears is one tick shorter; only an open connection is watched.
CheckPing_TickEarly ==
    /\ link # "closed" /\ ~reading /\ checkIn = 0
    /\ link' = IF age >= Patience THEN "closed" ELSE link
    /\ checkIn' = PingPeriod
    /\ UNCHANGED <<streamVars, lost, age, pingIn>>

CheckPing_IfOpen ==
    /\ link # "closed" /\ ~reading /\ checkIn = 0
    /\ link' = IF link = "open" /\ age > Patience THEN "closed" ELSE link
    /\ checkIn' = PingPeriod
    /\ UNCHANGED <<streamVars, lost, age, pingIn>>

\* checkPing of the reading end.  Its own ping is the other direction.
CheckPing ==
    /\ link # "closed" /\ ~reading /\ checkIn = 0
    /\ link' = IF age > Patience THEN "closed" ELSE link
    /\ checkIn' = PingPeriod
    /\ UNCHANGED <<streamVars, lost, age, pingIn>>

Tick ==
    /\ link # "closed" /\ ~reading /\ checkIn > 0
    /\ link = "connecting" => lost \/ age < DialLimit
    /\ link = "open" => lost \/ (pingIn > 0 /\ \A f \in Underway : frames[f].left > 0)
    /\ age' = age + 1
    /\ checkIn' = checkIn - 1
    /\ pingIn' = IF pingIn > 0 THEN pingIn - 1 ELSE 0
    /\ frames' = [f \in DOMAIN frames |->
                    [frames[f] EXCEPT !.left = IF @ > 0 THEN @ - 1 ELSE 0]]
    /\ UNCHANGED <<arrived, taken, expected, reading, delivered, linkVars>>

-----------------------------------------------------------------------------
\* readyRead: as many of the next bytes as have come, however they divide the frames.
Arrive ==
    /\ link = "open" /\ ~lost /\ ~reading
    /\ arrived' \in (arrived + 1)..Written
    /\ age' = 0
    /\ reading' = TRUE
    /\ UNCHANGED <<frames, taken, expected, delivered, linkVars, checkIn, pingIn>>

\* The size a header says, or any if the bytes are not those of one header.
Headers(p) ==
    LET at == {f \in DOMAIN frames : frames[f].start = p}
    IN  IF at = {} THEN 0..MaxSize ELSE {frames[f].size : f \in at}

\* The message whose bytes are the n bytes from p on, or 0.
Payload(p, n) ==
    LET whole == {f \in DOMAIN frames : frames[f].start + HeaderSize = p /\ frames[f].size = n}
    IN  IF whole = {} THEN 0 ELSE frames[CHOOSE f \in whole : TRUE].no

\* Mutant: the bytes taken still count.
Buffered_Untaken == arrived

Buffered == arrived - taken

\* Mutants: the header is read but not removed; the loop ends after each frame.
ReadHeader_KeepsHeader ==
    /\ reading /\ expected = -1 /\ Buffered >= HeaderSize
    /\ expected' \in Headers(taken)
    /\ UNCHANGED <<taken, reading, delivered>>

ReadLater_EachFrame ==
    /\ reading
    /\ expected = -1 \/ (expected > 0 /\ Buffered < expected)
    /\ reading' = FALSE
    /\ UNCHANGED <<taken, expected, delivered>>

\* The steps of onReadyRead's loop: a header, a ping, a message, and the two breaks.
ReadHeader ==
    /\ reading /\ expected = -1 /\ Buffered >= HeaderSize
    /\ expected' \in Headers(taken)
    /\ taken' = taken + HeaderSize
    /\ UNCHANGED <<reading, delivered>>

ReadPing ==
    /\ reading /\ expected = 0
    /\ expected' = -1
    /\ UNCHANGED <<taken, reading, delivered>>

ReadMessage ==
    /\ reading /\ expected > 0 /\ Buffered >= expected
    /\ delivered' = Append(delivered, Payload(taken, expected))
    /\ taken' = taken + expected
    /\ expected' = -1
    /\ UNCHANGED reading

ReadLater ==
    /\ reading
    /\ \/ expected = -1 /\ Buffered < HeaderSize
       \/ expected > 0 /\ Buffered < expected
    /\ reading' = FALSE
    /\ UNCHANGED <<taken, expected, delivered>>

Read == /\ ReadHeader \/ ReadPing \/ ReadMessage \/ ReadLater
        /\ UNCHANGED <<frames, arrived, linkVars, timeVars>>

Next ==
    \/ Connect \/ Lose
    \/ \E size \in 0..MaxSize : Send(size)
    \/ Ping \/ CheckPing \/ Tick
    \/ Arrive \/ Read

Spec == Init /\ [][Next]_vars

-----------------------------------------------------------------------------
\* Types, and that no byte is read before it is written.
TypeOK ==
    /\ frames \in Seq([start : Nat, size : 0..MaxSize, no : Nat, left : 0..MaxDelay])
    /\ arrived \in 0..Written
    /\ taken \in 0..arrived
    /\ expected \in -1..MaxSize
    /\ {reading, lost} \subseteq BOOLEAN
    /\ delivered \in Seq(Nat)
    /\ link \in {"connecting", "open", "closed"}
    /\ age \in Nat
    /\ checkIn \in 0..PingPeriod
    /\ pingIn \in 0..(PingPeriod + MaxDelay)

\* The zombie check never closes a connection whose path is healthy, not even one whose
\* dial, accept and first ping took as long as they may.
HealthyStaysOpen == link = "closed" => lost

\* It closes a connection at the latest one check after the silence it bears, whatever
\* was being dialled, sent or read when the path broke.
SilenceIsNoticed == link # "closed" => age <= Patience + PingPeriod

\* However the stream was cut into pieces, when onReadyRead returns every message whose
\* last byte has arrived is delivered.
NothingLeft ==
    ~reading => \A f \in DOMAIN frames :
                    End(f) <= arrived => frames[f].no <= Len(delivered)

\* Framing implements the stream of messages: none is lost, repeated, merged or cut.
FirstMessages(n) == [i \in 1..n |-> i]
Stream == INSTANCE FrameStream WITH given <- FirstMessages(Messages), received <- delivered
InOrder == Stream!Spec
=============================================================================
