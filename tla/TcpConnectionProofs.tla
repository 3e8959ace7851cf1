------------------------- MODULE TcpConnectionProofs ------------------------
(***************************************************************************)
(* The framing and the zombie check of Tcp_Connection, for any header, any *)
(* messages, and any times that meet TimesAssumption.                      *)
(***************************************************************************)
EXTENDS TcpConnection, SequenceTheorems, TLAPS

Frame == [start : Nat, size : 0..MaxSize, no : Nat, left : 0..MaxDelay]

\* Where frame f ends and how many messages there are up to it; frame 0 is the start.
EndOf(f) == IF f = 0 THEN 0 ELSE End(f)
NoOf(f) == IF f = 0 THEN 0 ELSE frames[f].no
One(f) == IF frames[f].size = 0 THEN 0 ELSE 1

\* The frames lie one behind the other and number the messages.
FramesOK ==
    /\ \A f \in DOMAIN frames :
          frames[f].start = EndOf(f - 1) /\ frames[f].no = NoOf(f - 1) + One(f)
    /\ \A f, g \in DOMAIN frames :
          f < g => End(f) <= frames[g].start /\ frames[f].no + One(g) <= frames[g].no

\* The reader has read f frames and perhaps the header of the next.
ReadTo(f) ==
    /\ delivered = FirstMessages(NoOf(f))
    /\ \/ expected = -1 /\ taken = EndOf(f)
       \/ /\ f < Len(frames)
          /\ expected = frames[f + 1].size
          /\ taken = frames[f + 1].start + HeaderSize

LoopDone ==
    \/ expected = -1 /\ Buffered < HeaderSize
    \/ expected > 0 /\ Buffered < expected

StreamInv ==
    /\ FramesOK
    /\ \E f \in 0..Len(frames) : ReadTo(f)
    /\ reading \/ LoopDone

\* On a healthy path the next ping comes in time, or the last one is on its way.
NextInTime == age + pingIn + MaxDelay <= Patience
LastInTime(f) ==
    age + frames[f].left <= Patience /\ frames[f].left + (PingPeriod - pingIn) <= MaxDelay
TimeInv ==
    /\ link # "closed" => age + checkIn <= Patience + PingPeriod
    /\ link = "connecting" => frames = << >> /\ arrived = 0
    /\ ~lost => /\ link # "closed"
                /\ link = "connecting" => age <= DialLimit
                /\ link = "open" => NextInTime \/ \E f \in Underway : LastInTime(f)

IInv == TypeOK /\ StreamInv /\ TimeInv
-----------------------------------------------------------------------------
\* The first n messages are a sequence of length n that ends in n.
LEMMA FirstMessagesSeq ==
    ASSUME NEW n \in Nat
    PROVE  /\ FirstMessages(n) \in Seq(Nat) /\ Len(FirstMessages(n)) = n
           /\ \A i \in 1..n : FirstMessages(n)[i] = i
           /\ FirstMessages(n + 1) = Append(FirstMessages(n), n + 1)
<1>1. /\ FirstMessages(n) \in Seq(Nat) /\ Len(FirstMessages(n)) = n
      /\ \A i \in 1..n : FirstMessages(n)[i] = i
  BY DEF FirstMessages
<1>2. FirstMessages(n + 1) \in Seq(Nat) /\ Len(FirstMessages(n + 1)) = n + 1
  BY DEF FirstMessages
<1>3. /\ Append(FirstMessages(n), n + 1) \in Seq(Nat)
      /\ Len(Append(FirstMessages(n), n + 1)) = n + 1
  BY <1>1
<1>4. ASSUME NEW i \in 1..(n + 1)
      PROVE  FirstMessages(n + 1)[i] = Append(FirstMessages(n), n + 1)[i]
  <2>1. FirstMessages(n + 1)[i] = i
    BY DEF FirstMessages
  <2>2. Append(FirstMessages(n), n + 1)[i] = i
    BY <1>1
  <2> QED BY <2>1, <2>2
<1>5. FirstMessages(n + 1) = Append(FirstMessages(n), n + 1)
  BY <1>2, <1>3, <1>4, SeqEqual
<1> QED BY <1>1, <1>5

\* The types of one frame, and the extent of the stream.
LEMMA FrameTypes ==
    ASSUME TypeOK
    PROVE  /\ Len(frames) \in Nat /\ DOMAIN frames = 1..Len(frames)
           /\ \A f \in DOMAIN frames :
                 /\ frames[f] \in Frame
                 /\ frames[f].start \in Nat /\ frames[f].size \in 0..MaxSize
                 /\ frames[f].no \in Nat /\ frames[f].left \in 0..MaxDelay
                 /\ End(f) \in Nat /\ One(f) \in {0, 1}
                 /\ frames[f].start + HeaderSize <= End(f)
           /\ Written \in Nat /\ Messages \in Nat
           /\ Written = EndOf(Len(frames)) /\ Messages = NoOf(Len(frames))
<1>1. /\ frames \in Seq(Frame) /\ Len(frames) \in Nat /\ DOMAIN frames = 1..Len(frames)
      /\ \A f \in DOMAIN frames : frames[f] \in Frame
  <2>1. frames \in Seq(Frame)
    BY DEF TypeOK, Frame
  <2> QED BY <2>1
<1>2. ASSUME NEW f \in DOMAIN frames
      PROVE  /\ frames[f].start \in Nat /\ frames[f].size \in 0..MaxSize
             /\ frames[f].no \in Nat /\ frames[f].left \in 0..MaxDelay
             /\ End(f) \in Nat /\ One(f) \in {0, 1}
             /\ frames[f].start + HeaderSize <= End(f)
  <2>1. /\ frames[f].start \in Nat /\ frames[f].size \in 0..MaxSize
        /\ frames[f].no \in Nat /\ frames[f].left \in 0..MaxDelay
    BY <1>1, <1>2 DEF Frame
  <2> QED BY <2>1, SizesAssumption DEF End, One
<1>3. frames = << >> <=> Len(frames) = 0
  BY <1>1, EmptySeq
<1>4. Written = EndOf(Len(frames)) /\ Messages = NoOf(Len(frames))
  BY <1>3 DEF Written, Messages, EndOf, NoOf
<1>5. Written \in Nat /\ Messages \in Nat
  BY <1>1, <1>2, <1>4 DEF EndOf, NoOf
<1> QED BY <1>1, <1>2, <1>4, <1>5

\* What a written frame adds: it starts where the last one ends.
LEMMA WriteAppends ==
    ASSUME TypeOK, NEW size \in 0..MaxSize, Write(size)
    PROVE  LET F == Len(frames) + 1
           IN  /\ frames' \in Seq(Frame) /\ Len(frames') = F /\ DOMAIN frames' = 1..F
               /\ \A f \in DOMAIN frames :
                     f \in DOMAIN frames' /\ f # F /\ frames'[f] = frames[f]
               /\ frames'[F] = [start |-> Written, size |-> size, left |-> MaxDelay,
                                no |-> Messages + (IF size = 0 THEN 0 ELSE 1)]
               /\ Written' = Written + HeaderSize + size
               /\ Messages' = Messages + (IF size = 0 THEN 0 ELSE 1)
<1> DEFINE F == Len(frames) + 1
           new == [start |-> Written, size |-> size, left |-> MaxDelay,
                   no |-> Messages + (IF size = 0 THEN 0 ELSE 1)]
<1>1. new \in Frame
  BY FrameTypes, SizesAssumption, TimesAssumption DEF Frame
<1>2. frames \in Seq(Frame) /\ frames' = Append(frames, new)
  BY DEF TypeOK, Frame, Write
<1> HIDE DEF new
<1>3. /\ frames' \in Seq(Frame) /\ Len(frames') = F /\ DOMAIN frames' = 1..F
      /\ frames'[F] = new
      /\ \A f \in 1..Len(frames) : frames'[f] = frames[f]
  BY <1>1, <1>2
<1>4. frames' # << >>
  BY <1>3, FrameTypes, EmptySeq
<1>5. Written' = frames'[F].start + HeaderSize + frames'[F].size /\ Messages' = frames'[F].no
  BY <1>3, <1>4 DEF Written, Messages, End
<1> QED BY <1>3, <1>5, FrameTypes DEF new

\* A tick changes nothing of a frame but the time it has left.
LEMMA TickFrames ==
    ASSUME TypeOK, Tick
    PROVE  /\ frames' \in Seq(Frame) /\ Len(frames') = Len(frames)
           /\ DOMAIN frames' = DOMAIN frames
           /\ \A f \in DOMAIN frames :
                 /\ frames'[f].start = frames[f].start /\ frames'[f].size = frames[f].size
                 /\ frames'[f].no = frames[f].no
                 /\ frames'[f].left = IF frames[f].left > 0 THEN frames[f].left - 1 ELSE 0
                 /\ End(f)' = End(f) /\ One(f)' = One(f)
           /\ Written' = Written /\ Messages' = Messages
<1>1. /\ frames \in Seq(Frame) /\ DOMAIN frames = 1..Len(frames) /\ Len(frames) \in Nat
      /\ \A f \in DOMAIN frames : frames[f] \in Frame
  BY FrameTypes DEF TypeOK, Frame
<1>2. frames' = [f \in DOMAIN frames |->
                    [frames[f] EXCEPT !.left = IF @ > 0 THEN @ - 1 ELSE 0]]
  BY DEF Tick
<1>3. ASSUME NEW f \in DOMAIN frames
      PROVE  /\ frames'[f] \in Frame
             /\ frames'[f].start = frames[f].start /\ frames'[f].size = frames[f].size
             /\ frames'[f].no = frames[f].no
             /\ frames'[f].left = IF frames[f].left > 0 THEN frames[f].left - 1 ELSE 0
  <2> DEFINE left == IF frames[f].left > 0 THEN frames[f].left - 1 ELSE 0
  <2>1. frames[f] \in Frame /\ left \in 0..MaxDelay
    <3>1. frames[f].left \in 0..MaxDelay
      BY FrameTypes, <1>3
    <3> QED BY <1>1, <3>1, TimesAssumption
  <2>2. frames'[f] = [frames[f] EXCEPT !.left = left]
    BY <1>2
  <2> HIDE DEF left
  <2>3. /\ frames'[f] \in Frame
        /\ frames'[f].start = frames[f].start /\ frames'[f].size = frames[f].size
        /\ frames'[f].no = frames[f].no /\ frames'[f].left = left
    BY <2>1, <2>2 DEF Frame
  <2> QED BY <2>3 DEF left
<1>4. DOMAIN frames' = 1..Len(frames)
  BY <1>1, <1>2
<1>5. frames' \in Seq(Frame) /\ Len(frames') = Len(frames)
  <2>1. frames' \in [1..Len(frames) -> Frame]
    BY <1>1, <1>2, <1>3, <1>4
  <2> QED BY <2>1, <1>1
<1>6. ASSUME NEW f \in DOMAIN frames
      PROVE  End(f)' = End(f) /\ One(f)' = One(f)
  BY <1>3, <1>6 DEF End, One
<1>7. frames' = << >> <=> frames = << >>
  BY <1>1, <1>5, EmptySeq
<1>8. Written' = Written /\ Messages' = Messages
  <2>1. CASE frames = << >>
    BY <1>7, <2>1 DEF Written, Messages
  <2>2. CASE frames # << >>
    <3>1. Len(frames) \in DOMAIN frames
      BY <1>1, <2>2, EmptySeq
    <3>2. /\ Written = End(Len(frames)) /\ Written' = frames'[Len(frames)].start + HeaderSize
                                                      + frames'[Len(frames)].size
          /\ Messages = frames[Len(frames)].no /\ Messages' = frames'[Len(frames)].no
      BY <1>5, <1>7, <2>2 DEF Written, Messages, End
    <3> QED BY <1>3, <3>1, <3>2 DEF End
  <2> QED BY <2>1, <2>2
<1> QED BY <1>1, <1>2, <1>3, <1>4, <1>5, <1>6, <1>8

-----------------------------------------------------------------------------
\* What no frame can lose: a step that only appends frames, or only ages them, keeps the
\* numbering and how far the reader is.
FramesKept ==
    /\ Len(frames') \in Nat /\ Len(frames) <= Len(frames') /\ DOMAIN frames' = 1..Len(frames')
    /\ \A f \in DOMAIN frames :
          /\ frames'[f].start = frames[f].start /\ frames'[f].size = frames[f].size
          /\ frames'[f].no = frames[f].no
          /\ End(f)' = End(f) /\ One(f)' = One(f)

LEMMA ReaderKept ==
    ASSUME TypeOK, FramesKept, UNCHANGED <<taken, expected, delivered>>,
           \E f \in 0..Len(frames) : ReadTo(f)
    PROVE  \E f \in 0..Len(frames') : ReadTo(f)'
<1>1. PICK f \in 0..Len(frames) : ReadTo(f)
  OBVIOUS
<1>2. DOMAIN frames = 1..Len(frames) /\ Len(frames) \in Nat
  BY FrameTypes
<1>3. f \in 0..Len(frames') /\ (f # 0 => f \in DOMAIN frames)
      /\ (f < Len(frames) => f + 1 \in DOMAIN frames /\ f < Len(frames'))
  BY <1>1, <1>2 DEF FramesKept
<1>4. EndOf(f)' = EndOf(f) /\ NoOf(f)' = NoOf(f)
  BY <1>3 DEF FramesKept, EndOf, NoOf
<1>5. f < Len(frames) => /\ frames'[f + 1].size = frames[f + 1].size
                         /\ frames'[f + 1].start = frames[f + 1].start
  BY <1>3 DEF FramesKept
<1>6. ReadTo(f)'
  BY <1>1, <1>3, <1>4, <1>5 DEF ReadTo, FirstMessages
<1> QED BY <1>3, <1>6

\* Writing a frame keeps the frames in place behind one another.
LEMMA WriteKeepsFrames ==
    ASSUME TypeOK, FramesOK, NEW size \in 0..MaxSize, Write(size)
    PROVE  FramesKept /\ FramesOK'
<1> PICK L \in Nat : L = Len(frames)
  BY FrameTypes
<1> PICK F \in Nat : F = L + 1
  OBVIOUS
<1>1. /\ L \in Nat /\ DOMAIN frames = 1..L
      /\ Len(frames') = F /\ DOMAIN frames' = 1..F
      /\ \A f \in DOMAIN frames : frames'[f] = frames[f]
  BY FrameTypes, WriteAppends
<1>2. /\ frames'[F].start = Written /\ frames'[F].size = size
      /\ frames'[F].no = Messages + (IF size = 0 THEN 0 ELSE 1)
  <2>1. frames'[F] = [start |-> Written, size |-> size, left |-> MaxDelay,
                      no |-> Messages + (IF size = 0 THEN 0 ELSE 1)]
    BY WriteAppends
  <2> QED BY <2>1
<1>3. \A f \in DOMAIN frames : End(f)' = End(f) /\ One(f)' = One(f)
  BY <1>1 DEF End, One
<1>4. FramesKept
  BY <1>1, <1>3 DEF FramesKept
<1>5. One(F)' = (IF size = 0 THEN 0 ELSE 1)
  BY <1>2 DEF One
<1>6. \A f \in 0..L : EndOf(f)' = EndOf(f) /\ NoOf(f)' = NoOf(f)
  BY <1>1, <1>3 DEF EndOf, NoOf
<1>7. Written = EndOf(L) /\ Messages = NoOf(L) /\ Written \in Nat /\ Messages \in Nat
  BY FrameTypes
<1>8. ASSUME NEW f \in 1..F
      PROVE  frames'[f].start = EndOf(f - 1)' /\ frames'[f].no = NoOf(f - 1)' + One(f)'
  <2>1. CASE f = F
    <3>1. EndOf(F - 1)' = EndOf(L) /\ NoOf(F - 1)' = NoOf(L)
      BY <1>1, <1>6
    <3> QED BY <1>2, <1>5, <1>7, <2>1, <3>1
  <2>2. CASE f \in 1..L
    <3>1. f \in DOMAIN frames /\ f - 1 \in 0..L
      BY <1>1, <2>2
    <3>2. frames[f].start = EndOf(f - 1) /\ frames[f].no = NoOf(f - 1) + One(f)
      BY <3>1 DEF FramesOK
    <3> QED BY <1>1, <1>3, <1>6, <3>1, <3>2
  <2> QED BY <1>1, <2>1, <2>2
<1>9. ASSUME NEW f \in 1..L
      PROVE  End(f) <= Written /\ frames[f].no <= Messages
  <2>1. CASE f = L
    <3>1. EndOf(L) = End(L) /\ NoOf(L) = frames[L].no
      BY <1>1, <2>1 DEF EndOf, NoOf
    <3>2. End(L) \in Nat /\ frames[L].no \in Nat
      BY FrameTypes, <1>1, <2>1
    <3> QED BY <1>7, <2>1, <3>1, <3>2
  <2>2. CASE f < L
    <3>1. f \in DOMAIN frames /\ L \in DOMAIN frames /\ L # 0
      BY <1>1, <2>2
    <3>2. End(f) <= frames[L].start /\ frames[f].no + One(L) <= frames[L].no
      BY <2>2, <3>1 DEF FramesOK
    <3>3. /\ frames[L].start + HeaderSize <= End(L) /\ One(L) \in {0, 1}
          /\ End(f) \in Nat /\ End(L) \in Nat /\ frames[L].start \in Nat
          /\ frames[L].no \in Nat /\ frames[f].no \in Nat
      BY FrameTypes, <3>1
    <3>4. EndOf(L) = End(L) /\ NoOf(L) = frames[L].no
      BY <3>1 DEF EndOf, NoOf
    <3>5. Written = End(L) /\ Messages = frames[L].no
      BY <1>7, <3>4
    <3>6. End(f) <= Written
      BY <3>2, <3>3, <3>5, SizesAssumption
    <3>7. frames[f].no <= Messages
      BY <3>2, <3>3, <3>5
    <3> QED BY <3>6, <3>7
  <2> QED BY <1>1, <2>1, <2>2
<1>10. ASSUME NEW f \in 1..F, NEW g \in 1..F, f < g
       PROVE  End(f)' <= frames'[g].start /\ frames'[f].no + One(g)' <= frames'[g].no
  <2>1. f \in DOMAIN frames /\ f \in 1..L
    BY <1>1, <1>10
  <2>2. CASE g = F
    <3>1. frames[f].no \in Nat
      BY FrameTypes, <2>1
    <3>2. End(f)' = End(f) /\ frames'[f].no = frames[f].no
      BY <1>1, <1>3, <2>1
    <3> QED BY <1>2, <1>5, <1>7, <1>9, <2>1, <2>2, <3>1, <3>2
  <2>3. CASE g \in 1..L
    <3>1. End(f) <= frames[g].start /\ frames[f].no + One(g) <= frames[g].no
      BY <1>1, <1>10, <2>1, <2>3 DEF FramesOK
    <3> QED BY <1>1, <1>3, <2>1, <2>3, <3>1
  <2> QED BY <1>1, <2>2, <2>3
<1>11. FramesOK'
  BY <1>1, <1>8, <1>10 DEF FramesOK
<1> QED BY <1>4, <1>11

\* Time passing keeps them in place too.
LEMMA TickKeepsFrames ==
    ASSUME TypeOK, FramesOK, Tick
    PROVE  FramesKept /\ FramesOK'
<1>1. /\ Len(frames) \in Nat /\ DOMAIN frames = 1..Len(frames)
      /\ Len(frames') = Len(frames) /\ DOMAIN frames' = DOMAIN frames
      /\ \A f \in DOMAIN frames :
            /\ frames'[f].start = frames[f].start /\ frames'[f].size = frames[f].size
            /\ frames'[f].no = frames[f].no
            /\ End(f)' = End(f) /\ One(f)' = One(f)
  BY FrameTypes, TickFrames
<1>2. FramesKept
  BY <1>1 DEF FramesKept
<1>3. \A f \in 0..Len(frames) : EndOf(f)' = EndOf(f) /\ NoOf(f)' = NoOf(f)
  BY <1>1 DEF EndOf, NoOf
<1>4. ASSUME NEW f \in DOMAIN frames
      PROVE  frames'[f].start = EndOf(f - 1)' /\ frames'[f].no = NoOf(f - 1)' + One(f)'
  <2>1. f - 1 \in 0..Len(frames)
    BY <1>1
  <2>2. frames[f].start = EndOf(f - 1) /\ frames[f].no = NoOf(f - 1) + One(f)
    BY DEF FramesOK
  <2> QED BY <1>1, <1>3, <2>1, <2>2
<1>5. ASSUME NEW f \in DOMAIN frames, NEW g \in DOMAIN frames, f < g
      PROVE  End(f)' <= frames'[g].start /\ frames'[f].no + One(g)' <= frames'[g].no
  <2>1. End(f) <= frames[g].start /\ frames[f].no + One(g) <= frames[g].no
    BY <1>5 DEF FramesOK
  <2> QED BY <1>1, <2>1
<1>6. FramesOK'
  BY <1>1, <1>4, <1>5 DEF FramesOK
<1> QED BY <1>2, <1>6

-----------------------------------------------------------------------------
\* The next frame of a reader at the end of frame f: where it lies and what number it has.
LEMMA NextFrame ==
    ASSUME TypeOK, FramesOK, NEW f \in 0..Len(frames), f < Len(frames)
    PROVE  /\ f + 1 \in DOMAIN frames /\ f + 1 \in 0..Len(frames)
           /\ EndOf(f) \in Nat /\ NoOf(f) \in Nat
           /\ frames[f + 1].start = EndOf(f)
           /\ EndOf(f + 1) = EndOf(f) + HeaderSize + frames[f + 1].size
           /\ frames[f + 1].no = NoOf(f) + One(f + 1) /\ NoOf(f + 1) = frames[f + 1].no
           /\ frames[f + 1].size \in 0..MaxSize
           /\ \A g \in DOMAIN frames :
                 frames[g].start = EndOf(f) \/ frames[g].start = frames[f + 1].start => g = f + 1
<1>1. f + 1 \in DOMAIN frames /\ f + 1 \in 0..Len(frames) /\ f + 1 # 0 /\ f + 1 - 1 = f
      /\ (f # 0 => f \in DOMAIN frames)
  BY FrameTypes
<1>2. EndOf(f) \in Nat /\ NoOf(f) \in Nat /\ frames[f + 1].size \in 0..MaxSize
  BY <1>1, FrameTypes DEF EndOf, NoOf
<1>3. frames[f + 1].start = EndOf(f) /\ frames[f + 1].no = NoOf(f) + One(f + 1)
  <2>1. \A g \in DOMAIN frames :
           frames[g].start = EndOf(g - 1) /\ frames[g].no = NoOf(g - 1) + One(g)
    BY DEF FramesOK
  <2>2. /\ frames[f + 1].start = EndOf(f + 1 - 1)
        /\ frames[f + 1].no = NoOf(f + 1 - 1) + One(f + 1)
    BY <1>1, <2>1
  <2> QED BY <1>1, <2>2
<1>4. EndOf(f + 1) = EndOf(f) + HeaderSize + frames[f + 1].size
      /\ NoOf(f + 1) = frames[f + 1].no
  BY <1>1, <1>3 DEF EndOf, NoOf, End
<1>5. ASSUME NEW g \in DOMAIN frames, frames[g].start = frames[f + 1].start
      PROVE  g = f + 1
  <2>1. /\ frames[g].start \in Nat /\ frames[f + 1].start \in Nat
        /\ End(g) \in Nat /\ frames[g].start + HeaderSize <= End(g)
        /\ End(f + 1) \in Nat /\ frames[f + 1].start + HeaderSize <= End(f + 1)
    BY FrameTypes, <1>1, <1>5
  <2>2. ~(g < f + 1)
    <3>1. g < f + 1 => End(g) <= frames[f + 1].start
      BY <1>1, <1>5 DEF FramesOK
    <3> QED BY <1>5, <2>1, <3>1, SizesAssumption
  <2>3. ~(f + 1 < g)
    <3>1. f + 1 < g => End(f + 1) <= frames[g].start
      BY <1>1, <1>5 DEF FramesOK
    <3> QED BY <1>5, <2>1, <3>1, SizesAssumption
  <2>4. g \in Nat /\ f \in Nat
    BY FrameTypes, <1>5
  <2> QED BY <2>2, <2>3, <2>4
<1> QED BY <1>1, <1>2, <1>3, <1>4, <1>5

\* A header is read where the next frame starts, and tells that frame's size.
LEMMA HeaderStep ==
    ASSUME TypeOK, FramesOK, NEW f \in 0..Len(frames), ReadTo(f), ReadHeader, UNCHANGED frames
    PROVE  /\ f < Len(frames) /\ ReadTo(f)'
           /\ taken' \in 0..arrived /\ expected' \in 0..MaxSize
<1>1. /\ expected = -1 /\ arrived - taken >= HeaderSize
      /\ taken' = taken + HeaderSize /\ expected' \in Headers(taken)
      /\ UNCHANGED <<reading, delivered>>
  BY DEF ReadHeader, Buffered
<1>2. arrived \in 0..Written /\ taken \in 0..arrived /\ Len(frames) \in Nat
      /\ Written \in Nat /\ Written = EndOf(Len(frames))
  BY FrameTypes DEF TypeOK
<1>3. delivered = FirstMessages(NoOf(f)) /\ taken = EndOf(f)
  <2>1. f < Len(frames) => frames[f + 1].size \in 0..MaxSize
    BY NextFrame
  <2> QED BY <1>1, <2>1, SizesAssumption DEF ReadTo
<1>4. f < Len(frames)
  <2>1. f = Len(frames) => taken = Written
    BY <1>2, <1>3
  <2> QED BY <1>1, <1>2, <2>1, SizesAssumption
<1>5. Headers(taken) = {frames[f + 1].size}
  <2>1. {g \in DOMAIN frames : frames[g].start = taken} = {f + 1}
    BY <1>3, <1>4, NextFrame
  <2> QED BY <2>1 DEF Headers
<1>6. expected' = frames[f + 1].size /\ taken' = frames[f + 1].start + HeaderSize
  BY <1>1, <1>3, <1>4, <1>5, NextFrame
<1>7. ReadTo(f)'
  <2>1. NoOf(f)' = NoOf(f) /\ delivered' = delivered
    BY <1>1 DEF NoOf
  <2> QED BY <1>3, <1>4, <1>6, <2>1 DEF ReadTo, FirstMessages
<1>8. taken' \in 0..arrived /\ expected' \in 0..MaxSize
  BY <1>1, <1>2, <1>4, <1>6, NextFrame, SizesAssumption
<1> QED BY <1>4, <1>7, <1>8

\* A ping is passed over without being taken for a message.
LEMMA PingStep ==
    ASSUME TypeOK, FramesOK, NEW f \in 0..Len(frames), ReadTo(f), ReadPing, UNCHANGED frames
    PROVE  f + 1 \in 0..Len(frames) /\ ReadTo(f + 1)'
<1>1. /\ expected = 0 /\ expected' = -1 /\ UNCHANGED <<taken, reading, delivered>>
  BY DEF ReadPing
<1>2. /\ delivered = FirstMessages(NoOf(f)) /\ f < Len(frames)
      /\ frames[f + 1].size = 0 /\ taken = frames[f + 1].start + HeaderSize
  BY <1>1 DEF ReadTo
<1>3. /\ f + 1 \in 0..Len(frames) /\ NoOf(f) \in Nat /\ EndOf(f) \in Nat
      /\ taken = EndOf(f + 1) /\ NoOf(f + 1) = NoOf(f)
  BY <1>2, NextFrame, SizesAssumption DEF One
<1>4. EndOf(f + 1)' = EndOf(f + 1) /\ NoOf(f + 1)' = NoOf(f + 1)
  BY DEF EndOf, NoOf, End
<1>5. ReadTo(f + 1)'
  BY <1>1, <1>2, <1>3, <1>4 DEF ReadTo, FirstMessages
<1> QED BY <1>3, <1>5

\* A message is delivered whole and is the next in number.
LEMMA MessageStep ==
    ASSUME TypeOK, FramesOK, NEW f \in 0..Len(frames), ReadTo(f), ReadMessage,
           UNCHANGED frames
    PROVE  /\ f + 1 \in 0..Len(frames) /\ ReadTo(f + 1)' /\ taken' \in 0..arrived
           /\ delivered' = Append(delivered, NoOf(f) + 1) /\ NoOf(f + 1) = NoOf(f) + 1
<1>1. /\ expected > 0 /\ arrived - taken >= expected /\ expected' = -1
      /\ delivered' = Append(delivered, Payload(taken, expected))
      /\ taken' = taken + expected /\ UNCHANGED reading
  BY DEF ReadMessage, Buffered
<1>2. /\ delivered = FirstMessages(NoOf(f)) /\ f < Len(frames)
      /\ expected = frames[f + 1].size /\ taken = frames[f + 1].start + HeaderSize
  BY <1>1 DEF ReadTo
<1>3. /\ f + 1 \in 0..Len(frames) /\ f + 1 \in DOMAIN frames
      /\ NoOf(f) \in Nat /\ EndOf(f) \in Nat
      /\ frames[f + 1].start = EndOf(f) /\ frames[f + 1].size \in 0..MaxSize
      /\ EndOf(f + 1) = EndOf(f) + HeaderSize + frames[f + 1].size
      /\ NoOf(f + 1) = NoOf(f) + 1 /\ frames[f + 1].no = NoOf(f) + 1
  <2>1. One(f + 1) = 1
    BY <1>1, <1>2, NextFrame DEF One
  <2> QED BY <1>2, <2>1, NextFrame
<1>4. Payload(taken, expected) = NoOf(f) + 1
  <2>1. ASSUME NEW g \in DOMAIN frames, frames[g].start + HeaderSize = taken
        PROVE  g = f + 1
    <3>1. frames[g].start \in Nat
      BY FrameTypes, <2>1
    <3>2. frames[g].start = frames[f + 1].start
      BY <1>2, <1>3, <2>1, <3>1, SizesAssumption
    <3> QED BY <1>2, <3>2, NextFrame
  <2>2. {g \in DOMAIN frames : frames[g].start + HeaderSize = taken /\ frames[g].size = expected}
          = {f + 1}
    BY <1>2, <1>3, <2>1
  <2>3. \A g \in {f + 1} : frames[g].no = NoOf(f) + 1
    BY <1>3
  <2>4. (CHOOSE g \in {f + 1} : TRUE) \in {f + 1}
    OBVIOUS
  <2> QED BY <2>2, <2>3, <2>4 DEF Payload
<1>5. taken' = EndOf(f + 1)
  BY <1>1, <1>2, <1>3, SizesAssumption
<1>6. delivered' = FirstMessages(NoOf(f + 1))
  BY <1>1, <1>2, <1>3, <1>4, FirstMessagesSeq
<1>7. EndOf(f + 1)' = EndOf(f + 1) /\ NoOf(f + 1)' = NoOf(f + 1)
  BY DEF EndOf, NoOf, End
<1>8. ReadTo(f + 1)'
  BY <1>1, <1>5, <1>6, <1>7 DEF ReadTo, FirstMessages
<1>9. taken' \in 0..arrived
  <2>1. arrived \in Nat /\ taken \in 0..arrived
    BY FrameTypes DEF TypeOK
  <2>2. expected \in Nat
    BY <1>2, <1>3, SizesAssumption
  <2> QED BY <1>1, <2>1, <2>2
<1> QED BY <1>1, <1>3, <1>4, <1>8, <1>9

-----------------------------------------------------------------------------
\* The silence bounds what a check can find, and a frame that is underway stays so.
LEMMA WriteTimes ==
    ASSUME TypeOK, NEW size \in 0..MaxSize, Write(size)
    PROVE  /\ UNCHANGED <<arrived, age, checkIn, linkVars>>
           /\ \A f \in Underway : f \in Underway' /\ frames'[f].left = frames[f].left
           /\ \E f \in Underway' : frames'[f].left = MaxDelay
<1>1. UNCHANGED <<arrived, age, checkIn, linkVars>>
  BY DEF Write
<1>2. ASSUME NEW f \in Underway
      PROVE  f \in Underway' /\ frames'[f].left = frames[f].left
  <2>1. f \in DOMAIN frames /\ arrived < End(f)
    BY DEF Underway
  <2>2. f \in DOMAIN frames' /\ frames'[f] = frames[f]
    BY <2>1, WriteAppends
  <2> QED BY <1>1, <2>1, <2>2 DEF Underway, End
<1> PICK F \in Nat : F = Len(frames) + 1
  BY FrameTypes
<1>3. F \in DOMAIN frames' /\ frames'[F].left = MaxDelay
      /\ frames'[F].start = Written /\ frames'[F].size = size
  <2>1. /\ frames'[F] = [start |-> Written, size |-> size, left |-> MaxDelay,
                         no |-> Messages + (IF size = 0 THEN 0 ELSE 1)]
        /\ DOMAIN frames' = 1..F
    BY WriteAppends
  <2>2. F \in 1..F
    BY FrameTypes
  <2> QED BY <2>1, <2>2
<1>4. F \in Underway'
  <2>1. arrived' \in 0..Written /\ Written \in Nat
    BY <1>1, FrameTypes DEF TypeOK
  <2>2. arrived' < End(F)'
    BY <1>3, <2>1, SizesAssumption DEF End
  <2> QED BY <1>3, <2>2 DEF Underway
<1> QED BY <1>1, <1>2, <1>3, <1>4

LEMMA Typed ==
    ASSUME IInv, [Next]_vars
    PROVE  TypeOK'
<1> USE DEF IInv
<1>1. /\ HeaderSize \in Nat \ {0} /\ MaxSize \in Nat
      /\ PingPeriod \in Nat /\ Patience \in Nat /\ DialLimit \in Nat /\ MaxDelay \in Nat
  BY SizesAssumption, TimesAssumption
<1>2. /\ Len(frames) \in Nat /\ Written \in Nat /\ arrived \in 0..Written
      /\ taken \in 0..arrived /\ frames \in Seq(Frame)
  BY FrameTypes DEF TypeOK, Frame
<1>3. ASSUME UNCHANGED frames
      PROVE  frames' \in Seq(Frame) /\ Written' = Written
  BY <1>2, <1>3 DEF Written, End
<1>4. ASSUME UNCHANGED <<taken, expected, delivered>>
      PROVE  expected' \in -1..MaxSize /\ delivered' \in Seq(Nat) /\ taken' \in Nat
             /\ taken' \in 0..arrived
  BY <1>2, <1>4 DEF TypeOK
<1>5. CASE Connect
  BY <1>1, <1>2, <1>3, <1>4, <1>5 DEF Connect, TypeOK, Frame, streamVars
<1>6. CASE Lose
  BY <1>1, <1>2, <1>3, <1>4, <1>6 DEF Lose, TypeOK, Frame, streamVars, timeVars
<1>7. ASSUME NEW size \in 0..MaxSize, Send(size)
      PROVE  TypeOK'
  <2>1. Write(size) /\ UNCHANGED pingIn
    BY <1>7 DEF Send
  <2>2. frames' \in Seq(Frame) /\ Written' = Written + HeaderSize + size
    BY <2>1, WriteAppends
  <2>3. arrived' \in 0..Written'
    BY <1>1, <1>2, <2>1, <2>2 DEF Write
  <2> QED BY <1>2, <2>1, <2>2, <2>3 DEF Write, TypeOK, Frame, linkVars
<1>8. CASE Ping
  <2>1. 0 \in 0..MaxSize /\ Write(0) /\ pingIn' = PingPeriod
    BY <1>1, <1>8 DEF Ping
  <2>2. frames' \in Seq(Frame) /\ Written' = Written + HeaderSize + 0
    BY <2>1, WriteAppends
  <2>3. arrived' \in 0..Written' /\ pingIn' \in 0..(PingPeriod + MaxDelay)
    BY <1>1, <1>2, <2>1, <2>2 DEF Write
  <2> QED BY <1>2, <2>1, <2>2, <2>3 DEF Write, TypeOK, Frame, linkVars
<1>9. CASE CheckPing
  BY <1>1, <1>2, <1>3, <1>4, <1>9 DEF CheckPing, TypeOK, Frame, streamVars
<1>10. CASE Tick
  <2>1. frames' \in Seq(Frame) /\ Written' = Written
    BY <1>10, TickFrames
  <2>2. /\ age' \in Nat /\ checkIn' \in 0..PingPeriod
        /\ pingIn' \in 0..(PingPeriod + MaxDelay)
    <3>1. /\ checkIn > 0 /\ checkIn' = checkIn - 1 /\ age' = age + 1
          /\ pingIn' = IF pingIn > 0 THEN pingIn - 1 ELSE 0
      BY <1>10 DEF Tick
    <3>2. age \in Nat /\ checkIn \in 0..PingPeriod /\ pingIn \in 0..(PingPeriod + MaxDelay)
      BY DEF TypeOK
    <3> QED BY <1>1, <3>1, <3>2
  <2> QED BY <1>2, <1>10, <2>1, <2>2 DEF Tick, TypeOK, Frame, linkVars
<1>11. CASE Arrive
  <2>1. arrived' \in 0..Written /\ taken \in 0..arrived'
    BY <1>1, <1>2, <1>11 DEF Arrive
  <2> QED BY <1>1, <1>2, <1>3, <1>11, <2>1 DEF Arrive, TypeOK, Frame, linkVars
<1>12. CASE Read
  <2>1. UNCHANGED <<frames, arrived, linkVars, timeVars>>
    BY <1>12 DEF Read
  <2>2. PICK f \in 0..Len(frames) : ReadTo(f)
    BY DEF StreamInv
  <2>3. /\ reading' \in BOOLEAN /\ taken' \in 0..arrived
        /\ expected' \in -1..MaxSize /\ delivered' \in Seq(Nat)
    <3>1. CASE ReadHeader
      BY <1>1, <2>1, <2>2, <3>1, HeaderStep DEF ReadHeader, StreamInv, TypeOK
    <3>2. CASE ReadPing
      BY <1>1, <3>1, <3>2 DEF ReadPing, TypeOK
    <3>3. CASE ReadMessage
      <4>1. taken' \in 0..arrived /\ delivered' = Append(delivered, NoOf(f) + 1)
            /\ NoOf(f + 1) = NoOf(f) + 1 /\ f \in 0..Len(frames)
        BY <2>1, <2>2, <3>3, MessageStep DEF StreamInv
      <4>2. NoOf(f) \in Nat
        BY FrameTypes, <4>1 DEF NoOf
      <4> QED BY <1>1, <3>3, <4>1, <4>2 DEF ReadMessage, TypeOK
    <3>4. CASE ReadLater
      BY <3>4 DEF ReadLater, TypeOK
    <3> QED BY <1>12, <3>1, <3>2, <3>3, <3>4 DEF Read
  <2> QED BY <1>2, <1>3, <2>1, <2>3 DEF TypeOK, Frame, linkVars, timeVars
<1>13. CASE UNCHANGED vars
  BY <1>2, <1>3, <1>4, <1>13 DEF TypeOK, Frame, vars, streamVars, linkVars, timeVars
<1> QED BY <1>5, <1>6, <1>7, <1>8, <1>9, <1>10, <1>11, <1>12, <1>13 DEF Next

\* The stream stays in order: one step of the reader at a time, or none.
LEMMA StreamKept ==
    ASSUME IInv, [Next]_vars
    PROVE  StreamInv'
<1> USE DEF IInv
<1>1. FramesOK /\ TypeOK /\ \E f \in 0..Len(frames) : ReadTo(f)
  BY DEF StreamInv
<1>2. ASSUME UNCHANGED frames
      PROVE  FramesKept /\ FramesOK'
  <2>1. FramesOK'
    BY <1>1, <1>2 DEF FramesOK, EndOf, NoOf, One, End
  <2>2. FramesKept
    BY <1>2, FrameTypes DEF FramesKept, End, One
  <2> QED BY <2>1, <2>2
<1>3. ASSUME FramesKept, FramesOK', UNCHANGED <<taken, expected, delivered>>,
             reading' \/ UNCHANGED <<arrived, reading>>
      PROVE  StreamInv'
  <2>1. \E f \in 0..Len(frames') : ReadTo(f)'
    BY <1>1, <1>3, ReaderKept
  <2>2. reading' \/ LoopDone'
    BY <1>3 DEF StreamInv, LoopDone, Buffered
  <2> QED BY <1>3, <2>1, <2>2 DEF StreamInv
<1>4. ASSUME NEW size \in 0..MaxSize, Write(size)
      PROVE  StreamInv'
  <2>1. FramesKept /\ FramesOK'
    BY <1>1, <1>4, WriteKeepsFrames
  <2>2. UNCHANGED <<arrived, taken, expected, reading, delivered>>
    BY <1>4 DEF Write
  <2> QED BY <1>3, <2>1, <2>2
<1>5. CASE UNCHANGED streamVars
  BY <1>2, <1>3, <1>5 DEF streamVars
<1>6. CASE Connect \/ Lose \/ CheckPing
  BY <1>5, <1>6 DEF Connect, Lose, CheckPing
<1>7. ASSUME NEW size \in 0..MaxSize, Send(size)
      PROVE  StreamInv'
  BY <1>4, <1>7 DEF Send
<1>8. CASE Ping
  BY <1>4, <1>8, SizesAssumption DEF Ping
<1>9. CASE Tick
  <2>1. FramesKept /\ FramesOK'
    BY <1>1, <1>9, TickKeepsFrames
  <2>2. UNCHANGED <<arrived, taken, expected, reading, delivered>>
    BY <1>9 DEF Tick
  <2> QED BY <1>3, <2>1, <2>2
<1>10. CASE Arrive
  BY <1>2, <1>3, <1>10 DEF Arrive
<1>11. CASE Read
  <2>1. UNCHANGED frames /\ UNCHANGED arrived /\ FramesOK' /\ Len(frames') = Len(frames)
    BY <1>2, <1>11 DEF Read
  <2>2. PICK f \in 0..Len(frames) : ReadTo(f)
    BY <1>1
  <2>3. CASE ReadHeader
    <3>1. ReadTo(f)' /\ reading'
      BY <1>1, <2>1, <2>2, <2>3, HeaderStep DEF ReadHeader
    <3> QED BY <2>1, <2>2, <3>1 DEF StreamInv
  <2>4. CASE ReadPing
    <3>1. ReadTo(f + 1)' /\ reading' /\ f + 1 \in 0..Len(frames)
      BY <1>1, <2>1, <2>2, <2>4, PingStep DEF ReadPing
    <3> QED BY <2>1, <2>2, <3>1 DEF StreamInv
  <2>5. CASE ReadMessage
    <3>1. ReadTo(f + 1)' /\ reading' /\ f + 1 \in 0..Len(frames)
      BY <1>1, <2>1, <2>2, <2>5, MessageStep DEF ReadMessage
    <3> QED BY <2>1, <2>2, <3>1 DEF StreamInv
  <2>6. CASE ReadLater
    <3>1. LoopDone' /\ UNCHANGED <<taken, expected, delivered>>
      BY <2>1, <2>6 DEF ReadLater, LoopDone, Buffered
    <3>2. ReadTo(f)'
      BY <2>1, <2>2, <3>1 DEF ReadTo, EndOf, NoOf, End, FirstMessages
    <3> QED BY <2>1, <2>2, <3>1, <3>2 DEF StreamInv
  <2> QED BY <1>11, <2>3, <2>4, <2>5, <2>6 DEF Read
<1>12. CASE UNCHANGED vars
  BY <1>5, <1>12 DEF vars
<1> QED BY <1>6, <1>7, <1>8, <1>9, <1>10, <1>11, <1>12 DEF Next

\* A dial, an accept and a first ping that take as long as they may.
LEMMA FitsPatience ==
    ASSUME NEW dial \in Nat, NEW ping \in Nat, NEW limit \in Nat, NEW period \in Nat,
           NEW delay \in Nat, NEW patience \in Nat, dial <= limit, ping <= period + delay,
           limit + period + 2 * delay <= patience
    PROVE  dial + ping + delay <= patience
OBVIOUS

\* The times keep their bounds.  On a healthy path it is the next ping, or the last frame
\* on its way, that will end the silence soon enough.
LEMMA TimesKept ==
    ASSUME IInv, [Next]_vars
    PROVE  TimeInv'
<1> USE DEF IInv
<1>1. /\ PingPeriod \in Nat /\ Patience \in Nat /\ DialLimit \in Nat /\ MaxDelay \in Nat
      /\ MaxDelay < PingPeriod /\ DialLimit + PingPeriod + 2 * MaxDelay <= Patience
  BY TimesAssumption
<1>2. /\ age \in Nat /\ checkIn \in 0..PingPeriod /\ pingIn \in 0..(PingPeriod + MaxDelay)
      /\ link \in {"connecting", "open", "closed"} /\ lost \in BOOLEAN
  BY DEF TypeOK
<1>3. /\ link # "closed" => age + checkIn <= Patience + PingPeriod
      /\ link = "connecting" => frames = << >> /\ arrived = 0
      /\ ~lost => /\ link # "closed"
                  /\ link = "connecting" => age <= DialLimit
                  /\ link = "open" => NextInTime \/ \E f \in Underway : LastInTime(f)
  BY DEF TimeInv
<1>4. CASE Connect
  <2>1. /\ link = "connecting" /\ ~lost /\ link' = "open" /\ UNCHANGED <<lost, age, checkIn>>
        /\ pingIn' \in PingPeriod..(PingPeriod + MaxDelay)
    BY <1>4 DEF Connect
  <2>2. NextInTime'
    <3>1. age' \in Nat /\ age' <= DialLimit
      BY <1>2, <1>3, <2>1
    <3>2. pingIn' \in Nat /\ pingIn' <= PingPeriod + MaxDelay
      BY <1>1, <2>1
    <3>3. age' + pingIn' + MaxDelay <= Patience
      BY <1>1, <3>1, <3>2, FitsPatience
    <3> QED BY <3>3 DEF NextInTime
  <2> QED BY <1>3, <2>1, <2>2 DEF TimeInv
<1>5. CASE Lose
  BY <1>3, <1>5 DEF Lose, TimeInv, streamVars, timeVars
<1>6. ASSUME NEW size \in 0..MaxSize, Write(size), Sending,
             (pingIn = 0 /\ pingIn' = PingPeriod) \/ UNCHANGED pingIn
      PROVE  TimeInv'
  <2>1. /\ UNCHANGED <<arrived, age, checkIn, link, lost>>
        /\ \A f \in Underway : f \in Underway' /\ frames'[f].left = frames[f].left
    BY <1>6, WriteTimes DEF linkVars
  <2>2. link = "open" /\ pingIn <= PingPeriod
    BY <1>6 DEF Sending
  <2>3. ASSUME ~lost
        PROVE  NextInTime' \/ \E f \in Underway' : LastInTime(f)'
    <3>1. CASE UNCHANGED pingIn
      <4>1. NextInTime => NextInTime'
        BY <2>1, <3>1 DEF NextInTime
      <4>2. \A f \in Underway : LastInTime(f) => f \in Underway' /\ LastInTime(f)'
        BY <2>1, <3>1 DEF LastInTime
      <4> QED BY <1>3, <2>2, <2>3, <4>1, <4>2
    <3>2. CASE pingIn = 0 /\ pingIn' = PingPeriod
      <4>1. ~\E f \in Underway : LastInTime(f)
        <5>1. ASSUME NEW f \in Underway, LastInTime(f)
              PROVE  FALSE
          <6>1. frames[f].left \in 0..MaxDelay
            BY FrameTypes, <5>1 DEF Underway
          <6>2. frames[f].left + (PingPeriod - pingIn) <= MaxDelay
            BY <5>1 DEF LastInTime
          <6> QED BY <1>1, <3>2, <6>1, <6>2
        <5> QED BY <5>1
      <4>2. age + MaxDelay <= Patience
        BY <1>1, <1>2, <1>3, <2>2, <2>3, <3>2, <4>1 DEF NextInTime
      <4>3. PICK f \in Underway' : frames'[f].left = MaxDelay
        BY <1>6, WriteTimes
      <4>4. LastInTime(f)'
        BY <1>1, <2>1, <3>2, <4>2, <4>3 DEF LastInTime
      <4> QED BY <4>4
    <3> QED BY <1>6, <3>1, <3>2
  <2> QED BY <1>3, <2>1, <2>2, <2>3 DEF TimeInv
<1>7. ASSUME NEW size \in 0..MaxSize, Send(size)
      PROVE  TimeInv'
  BY <1>6, <1>7 DEF Send
<1>8. CASE Ping
  BY <1>6, <1>8, SizesAssumption DEF Ping
<1>9. CASE CheckPing
  <2>1. /\ link' = (IF age > Patience THEN "closed" ELSE link) /\ link # "closed"
        /\ checkIn' = PingPeriod /\ UNCHANGED <<frames, arrived, lost, age, pingIn>>
    BY <1>9 DEF CheckPing, streamVars
  <2>2. ~lost => age <= Patience
    <3>1. CASE link = "connecting"
      BY <1>1, <1>2, <1>3, <3>1
    <3>2. CASE link = "open"
      <4>1. NextInTime => age <= Patience
        BY <1>1, <1>2 DEF NextInTime
      <4>2. ASSUME NEW f \in Underway, LastInTime(f)
            PROVE  age <= Patience
        <5>1. frames[f].left \in 0..MaxDelay
          BY FrameTypes, <4>2 DEF Underway
        <5> QED BY <1>1, <1>2, <4>2, <5>1 DEF LastInTime
      <4> QED BY <1>3, <3>2, <4>1, <4>2
    <3> QED BY <1>2, <2>1, <3>1, <3>2
  <2>3. link' # "closed" => age' + checkIn' <= Patience + PingPeriod
    BY <1>1, <1>2, <2>1
  <2>4. /\ NextInTime' <=> NextInTime
        /\ Underway' = Underway /\ \A f \in Underway : LastInTime(f)' <=> LastInTime(f)
    BY <2>1 DEF NextInTime, LastInTime, Underway, End
  <2>5. ~lost => link' = link
    BY <1>1, <1>2, <2>1, <2>2
  <2>6. link' = "connecting" => link = "connecting"
    BY <2>1
  <2> QED BY <1>3, <2>1, <2>3, <2>4, <2>5, <2>6 DEF TimeInv
<1>10. CASE Tick
  <2>1. /\ link # "closed" /\ checkIn > 0
        /\ link = "connecting" => lost \/ age < DialLimit
        /\ link = "open" => lost \/ (pingIn > 0 /\ \A f \in Underway : frames[f].left > 0)
        /\ age' = age + 1 /\ checkIn' = checkIn - 1
        /\ pingIn' = (IF pingIn > 0 THEN pingIn - 1 ELSE 0)
        /\ UNCHANGED <<arrived, link, lost>>
    BY <1>10 DEF Tick, linkVars
  <2>2. link = "connecting" => frames' = << >>
    BY <1>3, <1>10, TickFrames, FrameTypes, EmptySeq
  <2>3. age' + checkIn' <= Patience + PingPeriod
    BY <1>1, <1>2, <1>3, <2>1
  <2>4. ASSUME ~lost, link = "open"
        PROVE  NextInTime' \/ \E f \in Underway' : LastInTime(f)'
    <3>1. NextInTime => NextInTime'
      BY <1>1, <1>2, <2>1, <2>4 DEF NextInTime
    <3>2. ASSUME NEW f \in Underway, LastInTime(f)
          PROVE  f \in Underway' /\ LastInTime(f)'
      <4>1. f \in DOMAIN frames /\ arrived < End(f) /\ frames[f].left > 0
        BY <2>1, <2>4 DEF Underway
      <4>2. /\ f \in DOMAIN frames' /\ End(f)' = End(f)
            /\ frames'[f].left = frames[f].left - 1 /\ frames[f].left \in 0..MaxDelay
        BY <1>10, <4>1, TickFrames, FrameTypes
      <4>3. LastInTime(f)'
        BY <1>1, <1>2, <2>1, <2>4, <3>2, <4>1, <4>2 DEF LastInTime
      <4> QED BY <2>1, <4>1, <4>2, <4>3 DEF Underway
    <3> QED BY <1>3, <2>4, <3>1, <3>2
  <2>5. ~lost /\ link = "connecting" => age' <= DialLimit
    BY <1>1, <1>2, <2>1
  <2> QED BY <1>3, <2>1, <2>2, <2>3, <2>4, <2>5 DEF TimeInv
<1>11. CASE Arrive
  <2>1. link = "open" /\ ~lost /\ age' = 0 /\ UNCHANGED <<frames, link, lost, checkIn, pingIn>>
    BY <1>11 DEF Arrive, linkVars
  <2>2. NextInTime'
    BY <1>1, <1>2, <2>1 DEF NextInTime
  <2>3. age' + checkIn' <= Patience + PingPeriod
    BY <1>1, <1>2, <2>1
  <2> QED BY <2>1, <2>2, <2>3 DEF TimeInv
<1>12. CASE UNCHANGED <<frames, arrived, linkVars, timeVars>>
  <2>1. UNCHANGED <<frames, arrived, link, lost, age, checkIn, pingIn>>
    BY <1>12 DEF linkVars, timeVars
  <2>2. /\ NextInTime' <=> NextInTime
        /\ Underway' = Underway /\ \A f \in Underway : LastInTime(f)' <=> LastInTime(f)
    BY <2>1 DEF NextInTime, LastInTime, Underway, End
  <2> QED BY <1>3, <2>1, <2>2 DEF TimeInv
<1>13. CASE Read \/ UNCHANGED vars
  BY <1>12, <1>13 DEF Read, vars, streamVars
<1> QED BY <1>4, <1>5, <1>7, <1>8, <1>9, <1>10, <1>11, <1>13 DEF Next

-----------------------------------------------------------------------------
LEMMA Initially ==
    ASSUME Init
    PROVE  IInv
<1>1. frames = << >> /\ Len(frames) = 0 /\ DOMAIN frames = {}
      /\ delivered = << >> /\ arrived = 0 /\ taken = 0 /\ expected = -1 /\ reading = FALSE
      /\ link = "connecting" /\ lost = FALSE /\ age = 0 /\ checkIn = PingPeriod /\ pingIn = 0
  BY DEF Init
<1>2. Written = 0 /\ HeaderSize \in Nat \ {0} /\ MaxSize \in Nat
  BY <1>1, SizesAssumption DEF Written
<1>3. PingPeriod \in Nat /\ Patience \in Nat /\ DialLimit \in Nat /\ MaxDelay \in Nat
  BY TimesAssumption
<1>4. TypeOK
  <2>1. frames \in Seq([start : Nat, size : 0..MaxSize, no : Nat, left : 0..MaxDelay])
        /\ delivered \in Seq(Nat)
    BY <1>1
  <2>2. /\ arrived \in 0..Written /\ taken \in 0..arrived /\ expected \in -1..MaxSize
        /\ age \in Nat /\ checkIn \in 0..PingPeriod
    BY <1>1, <1>2, <1>3
  <2>3. pingIn \in 0..(PingPeriod + MaxDelay)
    BY <1>1, <1>3
  <2> QED BY <1>1, <2>1, <2>2, <2>3 DEF TypeOK
<1>5. ReadTo(0) /\ LoopDone /\ FramesOK
  BY <1>1, <1>2 DEF ReadTo, LoopDone, FramesOK, FirstMessages, NoOf, EndOf, Buffered
<1>6. StreamInv
  BY <1>1, <1>5 DEF StreamInv
<1>7. TimeInv
  BY <1>1, <1>3 DEF TimeInv
<1> QED BY <1>4, <1>6, <1>7 DEF IInv

LEMMA Inductive == Spec => []IInv
<1>1. Init => IInv
  BY Initially
<1>2. IInv /\ [Next]_vars => IInv'
  BY Typed, StreamKept, TimesKept DEF IInv
<1> QED BY <1>1, <1>2, PTL DEF Spec

\* Types, and no byte is read before it is written, for any sizes and times.
THEOREM TcpTypeCorrect == Spec => []TypeOK
<1>1. IInv => TypeOK
  BY DEF IInv
<1> QED BY <1>1, Inductive, PTL

\* The zombie check spares every healthy connection, whenever the patience covers a dial,
\* the accept at the other end and its first ping.
THEOREM HealthyLinkStays == Spec => []HealthyStaysOpen
<1>1. IInv => HealthyStaysOpen
  BY DEF IInv, TimeInv, HealthyStaysOpen, TypeOK
<1> QED BY <1>1, Inductive, PTL

\* And it notices a silence at the first check after its patience.
THEOREM ZombieIsClosed == Spec => []SilenceIsNoticed
<1>1. IInv => SilenceIsNoticed
  <2>1. IInv => age \in Nat /\ checkIn \in Nat /\ Patience \in Nat /\ PingPeriod \in Nat
    BY TimesAssumption DEF IInv, TypeOK
  <2> QED BY <2>1 DEF IInv, TimeInv, SilenceIsNoticed
<1> QED BY <1>1, Inductive, PTL

\* When onReadyRead returns, no message that has arrived whole waits in m_buffer.
THEOREM BufferIsDrained == Spec => []NothingLeft
<1>1. ASSUME IInv, ~reading, NEW g \in DOMAIN frames, End(g) <= arrived
      PROVE  frames[g].no <= Len(delivered)
  <2>1. TypeOK /\ FramesOK /\ LoopDone
    BY <1>1 DEF IInv, StreamInv
  <2>2. PICK f \in 0..Len(frames) : ReadTo(f)
    BY <1>1 DEF IInv, StreamInv
  <2>3. /\ Len(frames) \in Nat /\ DOMAIN frames = 1..Len(frames)
        /\ arrived \in Nat /\ taken \in 0..arrived
    BY <2>1, FrameTypes DEF TypeOK
  <2>4. End(g) \in Nat /\ frames[g].no \in Nat
    BY <2>1, FrameTypes
  <2>5. g <= f
    <3>1. SUFFICES ASSUME f < g
                   PROVE  FALSE
      BY <2>3
    <3>2. f < Len(frames)
      BY <2>3, <3>1
    <3>3. /\ f + 1 \in DOMAIN frames /\ frames[f + 1].start = EndOf(f) /\ EndOf(f) \in Nat
          /\ EndOf(f + 1) = EndOf(f) + HeaderSize + frames[f + 1].size
          /\ frames[f + 1].size \in 0..MaxSize /\ EndOf(f + 1) = End(f + 1)
      BY <2>1, <2>3, <3>2, NextFrame DEF EndOf
    <3>4. End(f + 1) <= End(g)
      <4>1. CASE g = f + 1
        BY <2>4, <4>1
      <4>2. CASE f + 1 < g
        <5>1. End(f + 1) <= frames[g].start
          BY <2>1, <3>3, <4>2 DEF FramesOK
        <5>2. frames[g].start \in Nat /\ frames[g].start + HeaderSize <= End(g)
          BY <2>1, FrameTypes
        <5> QED BY <2>4, <3>3, <5>1, <5>2, SizesAssumption
      <4> QED BY <2>3, <3>1, <4>1, <4>2
    <3>5. arrived < End(f + 1)
      <4>1. CASE expected = -1
        <5>1. taken = EndOf(f)
          BY <2>2, <3>3, <4>1, SizesAssumption DEF ReadTo
        <5> QED BY <2>1, <2>3, <3>3, <4>1, <5>1, SizesAssumption DEF LoopDone, Buffered
      <4>2. CASE expected # -1
        <5>1. expected = frames[f + 1].size /\ taken = frames[f + 1].start + HeaderSize
          BY <2>2, <4>2 DEF ReadTo
        <5>2. arrived - taken < expected
          BY <2>1, <4>2 DEF LoopDone, Buffered
        <5> QED BY <2>3, <3>3, <5>1, <5>2, SizesAssumption
      <4> QED BY <4>1, <4>2
    <3> QED BY <1>1, <2>3, <2>4, <3>3, <3>4, <3>5, SizesAssumption
  <2>6. f \in DOMAIN frames /\ NoOf(f) = frames[f].no /\ frames[f].no \in Nat
    <3>1. f \in DOMAIN frames /\ f # 0
      BY <2>3, <2>5
    <3> QED BY <2>1, <3>1, FrameTypes DEF NoOf
  <2>7. frames[g].no <= NoOf(f)
    <3>1. CASE g = f
      BY <2>4, <2>6, <3>1
    <3>2. CASE g < f
      <4>1. frames[g].no + One(f) <= frames[f].no
        BY <2>1, <2>6, <3>2 DEF FramesOK
      <4>2. One(f) \in {0, 1}
        BY <2>1, <2>6, FrameTypes
      <4> QED BY <2>4, <2>6, <4>1, <4>2
    <3> QED BY <2>3, <2>5, <3>1, <3>2
  <2>8. Len(delivered) = NoOf(f)
    BY <2>2, <2>6, FirstMessagesSeq DEF ReadTo
  <2> QED BY <2>7, <2>8
<1>2. IInv => NothingLeft
  BY <1>1 DEF NothingLeft
<1> QED BY <1>2, Inductive, PTL

\* Framing implements the stream of messages, for messages of any size and any cutting of
\* the stream: a written message is given, and the loop receives the next one or none.
THEOREM FramesInOrder == Spec => InOrder
<1> DEFINE given == FirstMessages(Messages)
<1>1. Init => Stream!Init
  BY FirstMessagesSeq DEF Init, Messages, FirstMessages, Stream!Init
<1>2. ASSUME IInv, [Next]_vars
      PROVE  [Stream!Give \/ Stream!Receive]_<<given, delivered>>
  <2>1. TypeOK /\ FramesOK /\ Messages \in Nat
    BY <1>2, FrameTypes DEF IInv, StreamInv
  <2>2. ASSUME NEW size \in 0..MaxSize, Write(size)
        PROVE  [Stream!Give]_<<given, delivered>>
    <3>1. Messages' = Messages + (IF size = 0 THEN 0 ELSE 1) /\ delivered' = delivered
      BY <2>1, <2>2, WriteAppends DEF Write
    <3>2. CASE size = 0
      <4>1. Messages' = Messages
        BY <2>1, <3>1, <3>2
      <4> QED BY <3>1, <4>1 DEF FirstMessages
    <3>3. CASE size # 0
      <4>1. given' = FirstMessages(Messages + 1) /\ Len(given) = Messages
        BY <2>1, <3>1, <3>3, FirstMessagesSeq DEF FirstMessages
      <4> QED BY <2>1, <3>1, <4>1, FirstMessagesSeq DEF Stream!Give
    <3> QED BY <3>2, <3>3
  <2>3. CASE UNCHANGED frames /\ UNCHANGED delivered
    BY <2>3 DEF Messages, FirstMessages
  <2>4. CASE Connect \/ Lose \/ CheckPing \/ Arrive \/ UNCHANGED vars
    BY <2>3, <2>4 DEF Connect, Lose, CheckPing, Arrive, vars, streamVars
  <2>5. ASSUME NEW size \in 0..MaxSize, Send(size)
        PROVE  [Stream!Give]_<<given, delivered>>
    BY <2>2, <2>5 DEF Send
  <2>6. CASE Ping
    BY <2>2, <2>6, SizesAssumption DEF Ping
  <2>7. CASE Tick
    BY <2>1, <2>7, TickFrames DEF Tick, FirstMessages
  <2>8. CASE Read
    <3>1. CASE ReadHeader \/ ReadPing \/ ReadLater
      BY <2>3, <2>8, <3>1 DEF Read, ReadHeader, ReadPing, ReadLater
    <3>2. CASE ReadMessage
      <4>1. PICK f \in 0..Len(frames) : ReadTo(f)
        BY <1>2 DEF IInv, StreamInv
      <4>2. UNCHANGED frames
        BY <2>8 DEF Read
      <4>3. /\ f + 1 \in 0..Len(frames) /\ NoOf(f + 1) = NoOf(f) + 1
            /\ delivered' = Append(delivered, NoOf(f) + 1)
        BY <2>1, <3>2, <4>1, <4>2, MessageStep
      <4>4. f < Len(frames) /\ NoOf(f) \in Nat /\ delivered = FirstMessages(NoOf(f))
        <5>1. f < Len(frames)
          BY <2>1, <4>3, FrameTypes
        <5> QED BY <2>1, <4>1, <5>1, NextFrame DEF ReadTo
      <4>5. NoOf(f) + 1 <= Messages
        <5>1. f + 1 \in DOMAIN frames /\ NoOf(f + 1) = frames[f + 1].no
          BY <2>1, <4>4, NextFrame
        <5>2. Messages = NoOf(Len(frames)) /\ DOMAIN frames = 1..Len(frames)
              /\ Len(frames) \in Nat
          BY <2>1, FrameTypes
        <5>3. CASE f + 1 = Len(frames)
          BY <2>1, <4>3, <4>4, <5>2, <5>3
        <5>4. CASE f + 1 < Len(frames)
          <6>1. Len(frames) \in DOMAIN frames /\ Len(frames) # 0
            BY <5>2, <5>4
          <6>2. frames[f + 1].no + One(Len(frames)) <= frames[Len(frames)].no
            BY <2>1, <5>1, <5>4, <6>1 DEF FramesOK
          <6>3. One(Len(frames)) \in {0, 1} /\ frames[Len(frames)].no = Messages
            BY <2>1, <5>2, <6>1, FrameTypes DEF NoOf
          <6>4. frames[f + 1].no = NoOf(f) + 1
            BY <4>3, <5>1
          <6> QED BY <2>1, <4>4, <6>2, <6>3, <6>4
        <5>5. f + 1 = Len(frames) \/ f + 1 < Len(frames)
          <6>1. f \in Nat /\ Len(frames) \in Nat
            BY <4>1, <5>2
          <6>2. \A m, n \in Nat : m < n => m + 1 = n \/ m + 1 < n
            OBVIOUS
          <6> QED BY <4>4, <6>1, <6>2
        <5> QED BY <5>3, <5>4, <5>5
      <4>6. /\ Len(delivered) = NoOf(f) /\ Len(given) = Messages
            /\ given[NoOf(f) + 1] = NoOf(f) + 1
        <5>1. Len(delivered) = NoOf(f)
          BY <4>4, FirstMessagesSeq
        <5>2. /\ Len(given) = Messages /\ \A i \in 1..Messages : given[i] = i
          BY <2>1, FirstMessagesSeq
        <5>3. NoOf(f) + 1 \in 1..Messages
          BY <2>1, <4>4, <4>5
        <5> QED BY <5>1, <5>2, <5>3
      <4>7. given' = given
        BY <4>2 DEF Messages, FirstMessages
      <4>8. Len(delivered) < Len(given)
        BY <2>1, <4>4, <4>5, <4>6
      <4> QED BY <4>3, <4>6, <4>7, <4>8 DEF Stream!Receive
    <3> QED BY <2>8, <3>1, <3>2 DEF Read
  <2> QED BY <1>2, <2>4, <2>5, <2>6, <2>7, <2>8 DEF Next
<1> QED BY <1>1, <1>2, Inductive, PTL DEF Spec, InOrder, Stream!Spec
=============================================================================
