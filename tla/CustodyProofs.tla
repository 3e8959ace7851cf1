---------------------------- MODULE CustodyProofs ---------------------------
(***************************************************************************)
(* MessengerCore implements MessageCustody, a peer's outbox leaves as a    *)
(* whole, no message disappears, and the mark of a read message is worth   *)
(* an acknowledgement.  All of it follows from what a step may do to the   *)
(* outbox, to the messages the lane carries and to their fates, which is   *)
(* one of four things.                                                     *)
(***************************************************************************)
EXTENDS MessengerCoreProofs

USE PeersAssumption, SlotsAssumption

\* The fates of the messages in S become one of F, the others stay as they are; only
\* what reached its addressee may turn out to be acknowledged.
Follows(S, F) ==
    \A i \in 1..Len(messages) :
        \/ i \in S /\ fate'[i] \in F
        \/ i \notin S /\ fate'[i] = fate[i]
        \/ fate[i] = "reached" /\ fate'[i] = "acked"

\* The messages S go from the outbox to the lane.
HandsOver(S) ==
    /\ S \in SUBSET outbox /\ outbox' = outbox \ S
    /\ Carried(asked') = Carried(asked) \cup S
    /\ Len(messages') = Len(messages) /\ Follows(S, {"flying"})

\* The messages S leave the outbox, and go nowhere.
GivesUp(S) ==
    /\ S \in SUBSET outbox /\ outbox' = outbox \ S
    /\ Carried(asked') = Carried(asked)
    /\ Len(messages') = Len(messages) /\ Follows(S, {"dropped"})

\* Commands are answered, or cut off.
Settles ==
    /\ outbox' = outbox /\ Carried(asked') \subseteq Carried(asked)
    /\ Len(messages') = Len(messages)
    /\ Follows(Carried(asked) \ Carried(asked'), {"reached", "lost"})

\* A new message; the others stay where they are.
Writes ==
    /\ Len(messages') = Len(messages) + 1
    /\ outbox' \cap (1..Len(messages)) = outbox
    /\ Carried(asked') \cap (1..Len(messages)) = Carried(asked)
    /\ Follows({}, {})
    /\ fate'[Len(messages) + 1] = "kept" <=> Len(messages) + 1 \in outbox'
    /\ fate'[Len(messages) + 1] = "flying" <=> Len(messages) + 1 \in Carried(asked')

\* The rows a flush takes are all those of the peers it is for.
Flushes(S) ==
    \/ \E p : S = Waiting(p)
    \/ \E m, emitted : S = LostRows(m, emitted)

CustodyStep ==
    \/ Settles \/ Writes
    \/ \E S : Flushes(S) /\ (HandsOver(S) \/ GivesUp(S))

-----------------------------------------------------------------------------
(***************************************************************************)
(* Steps of custody.                                                       *)
(***************************************************************************)

\* What the assignments to `fate` mean.
LEMMA FatesFollow ==
    ASSUME LaneInv, NEW S, NEW f, NEW F, NEW p, NEW i \in {0} \cup Receiptable(p)
    PROVE  /\ fate' = fate \/ fate' = Acked(fate, i) => Follows({}, F)
           /\ fate' = FatesOf(S, f) \/ fate' = Acked(FatesOf(S, f), i) => Follows(S, {f})
<1>1. DOMAIN fate = 1..Len(messages) /\ (i \in 1..Len(messages) => fate[i] = "reached")
  BY LenProperties DEF LaneInv, Receiptable
<1> QED BY <1>1 DEF Follows, FatesOf, Acked

LEMMA FatesUnchanged ==
    ASSUME LaneInv, fate' = fate, NEW F PROVE Follows({}, F)
BY FatesFollow

\* The fate of a new message.
LEMMA NewFate ==
    ASSUME LaneInv, NEW p, NEW st, NEW f \in Fates, NewRow(p, st, f)
    PROVE  Follows({}, {}) /\ fate'[Len(messages) + 1] = f
<1>1. fate \in Seq(Fates) /\ Len(fate) = Len(messages) /\ fate' = Append(fate, f)
  BY DEF LaneInv, NewRow
<1>2. /\ \A i \in 1..Len(fate) : fate'[i] = fate[i]
      /\ fate'[Len(fate) + 1] = f
  BY <1>1, AppendProperties
<1> QED BY <1>1, <1>2 DEF Follows

\* Plain commands change nothing the lane carries.
LEMMA PlainSettles ==
    ASSUME LaneInv, NEW rest, LeftOf(asked, rest), NEW add, Adds(add, {}),
           asked' = rest \o add, outbox' = outbox, Len(messages') = Len(messages),
           Follows(Carried(asked) \ Carried(rest), {"reached", "lost"})
    PROVE  Settles
<1>1. rest \in Seq(Command) /\ add \in Seq(Command) /\ Carried(add) = {}
  BY DEF LeftOf, Adds
<1>2. Carried(asked') = Carried(rest) \cup {}
  BY <1>1, CarriedConcat
<1>3. Carried(asked') = Carried(rest)
  BY <1>2
<1> QED BY <1>3 DEF Settles, LeftOf

\* So it is when they are added to what is left of a lane that still carries all it did.
LEMMA PlainStays ==
    ASSUME LaneInv, NEW rest, LeftOf(asked, rest), Carried(rest) = Carried(asked),
           NEW add, Adds(add, {}), asked' = rest \o add, outbox' = outbox,
           Len(messages') = Len(messages),
           Follows({}, {"reached", "lost"})
    PROVE  Settles
<1>1. Carried(asked) \ Carried(rest) = {}
  OBVIOUS
<1>2. Follows(Carried(asked) \ Carried(rest), {"reached", "lost"})
  BY <1>1
<1> QED BY <1>2, PlainSettles

\* Nothing moves.
LEMMA NothingMoves ==
    ASSUME LaneInv, UNCHANGED <<messages, outbox, asked, fate>>
    PROVE  Settles
<1>1. Carried(asked') = Carried(asked)
  OBVIOUS
<1>2. Carried(asked) \ Carried(asked') = {}
  BY <1>1
<1>3. Follows({}, {"reached", "lost"})
  BY FatesFollow
<1>4. Follows(Carried(asked) \ Carried(asked'), {"reached", "lost"})
  BY <1>2, <1>3
<1> QED BY <1>1, <1>4 DEF Settles

\* Nothing the lane carries is lost when it answers something else than a STORE.
LEMMA OthersCarried ==
    ASSUME LaneInv, NEW op, op # "STORE", Due(op)
    PROVE  LeftOf(asked, Tail(asked)) /\ Carried(Tail(asked)) = Carried(asked)
BY LeftOfLane, CarriedTail DEF LaneInv, OneWayOut, Due

\* A flush, with plain commands around it, hands the rows over.
LEMMA FlushHandsOver ==
    ASSUME LaneInv, NEW rest, LeftOf(asked, rest), Carried(rest) = Carried(asked),
           NEW S \in SUBSET outbox, NEW cmds \in FlushCommands(S), NEW more, Adds(more, {}),
           asked' = rest \o cmds \/ asked' = rest \o (cmds \o more) \/ asked' = rest \o (more \o cmds),
           outbox' = outbox \ S, Len(messages') = Len(messages), Follows(S, {"flying"})
    PROVE  HandsOver(S)
<1>1. Adds(cmds, S)
  BY FlushAdds
<1>2. Adds(cmds \o more, S \cup {}) /\ Adds(more \o cmds, {} \cup S)
  BY <1>1, AddsConcat
<1>3. PICK add : Adds(add, S) /\ asked' = rest \o add
  BY <1>1, <1>2
<1>4. rest \in Seq(Command) /\ add \in Seq(Command) /\ Carried(add) = S
  BY <1>3 DEF LeftOf, Adds
<1>5. Carried(asked') = Carried(rest) \cup S
  BY <1>3, <1>4, CarriedConcat
<1> QED BY <1>5 DEF HandsOver

\* FINDs carry nothing.
LEMMA FindsSettle ==
    ASSUME LaneInv, NEW n \in Nat, NEW ps \in [1..n -> Peers], AskFinds(ps),
           UNCHANGED <<messages, outbox, fate>>
    PROVE  Settles
<1>1. Finds(ps) \in Seq(Command) /\ Carried(Finds(ps)) = {}
  BY PlainCommands DEF Plain, Carried
<1>2. asked' = asked \o Finds(ps) /\ asked \in Seq(Command)
  BY DEF AskFinds, LaneInv
<1>3. Carried(asked') = Carried(asked) \cup {}
  BY <1>1, <1>2, CarriedConcat
<1>4. Carried(asked') = Carried(asked) /\ Carried(asked) \ Carried(asked') = {}
  BY <1>3
<1>5. Follows({}, {"reached", "lost"})
  BY FatesFollow
<1>6. Follows(Carried(asked) \ Carried(asked'), {"reached", "lost"})
  BY <1>4, <1>5
<1> QED BY <1>4, <1>6 DEF Settles

\* p2p_failed hands the peer's rows over, or gives them up.
LEMMA FallBackStep ==
    ASSUME LaneInv, NEW p \in Peers, FallBack(p), UNCHANGED messages
    PROVE  CustodyStep
<1>1. Waiting(p) \in SUBSET outbox
  BY DEF Waiting
<1>2. CASE Ready(p)
  <2>1. PICK cmds \in FlushCommands(Waiting(p)) : Ask(cmds)
    BY <1>2 DEF FallBack
  <2>2. /\ asked' = asked \o cmds /\ outbox' = outbox \ Waiting(p)
        /\ Follows(Waiting(p), {"flying"})
    BY <1>2, <2>1, FatesFollow DEF FallBack, FlushToRelay, Ask
  <2>3. HandsOver(Waiting(p))
    BY <1>1, <2>2, Remains, FlushHandsOver, AddsNothing
  <2> QED BY <2>3 DEF CustodyStep, Flushes
<1>3. CASE ~Ready(p)
  <2>1. GivesUp(Waiting(p))
    BY <1>1, <1>3, FatesFollow DEF FallBack, GivesUp, linkVars
  <2> QED BY <2>1 DEF CustodyStep, Flushes
<1> QED BY <1>2, <1>3

\* all_connections_lost hands rows over, if it is emitted.
LEMMA LostStep ==
    ASSUME LaneInv, NEW m, NEW emitted, NEW more, Adds(more, {}),
           NEW rest, LeftOf(asked, rest), Carried(rest) = Carried(asked),
           NEW cmds \in FlushCommands(LostRows(m, emitted)),
           asked' = rest \o cmds \/ asked' = rest \o (cmds \o more),
           outbox' = outbox \ LostRows(m, emitted), Len(messages') = Len(messages),
           Follows(LostRows(m, emitted), {"flying"})
    PROVE  CustodyStep
<1>1. LostRows(m, emitted) \in SUBSET outbox
  BY LostRowsQueued
<1>2. HandsOver(LostRows(m, emitted))
  BY <1>1, FlushHandsOver
<1> QED BY <1>2 DEF CustodyStep, Flushes

LEMMA UserSteps ==
    ASSUME IInv, UserOrTimer
    PROVE  CustodyStep
<1> USE DEF IInv
<1>1. /\ Len(messages) \in Nat /\ asked \in Seq(Command) /\ now \in Nat
      /\ outbox \subseteq 1..Len(messages) /\ Carried(asked) \subseteq 1..Len(messages)
      /\ Len(messages) + 1 \notin 1..Len(messages) /\ Len(messages) + 1 # 0
  BY LenProperties DEF LaneInv, CarriedAreWritten, CountersOK
<1>2. ASSUME NEW p \in Peers, SendQueued(p)
      PROVE  Writes
  <2>1. Len(messages') = Len(messages) + 1
    BY <1>1, <1>2, RowAdded DEF SendQueued, Statuses, Fates
  <2>2. outbox' = outbox \cup {Len(messages) + 1} /\ asked' = asked
    BY <1>2 DEF SendQueued, linkVars
  <2>3. Follows({}, {}) /\ fate'[Len(messages) + 1] = "kept"
    BY <1>2, NewFate DEF SendQueued, Fates
  <2> QED BY <1>1, <2>1, <2>2, <2>3 DEF Writes
<1>3. ASSUME NEW p \in Peers, SendRelayed(p)
      PROVE  Writes
  <2> DEFINE n == Len(messages) + 1  t == <<Store(n)>>
  <2>1. Len(messages') = n
    BY <1>1, <1>3, RowAdded DEF SendRelayed, Statuses, Fates
  <2>2. outbox' = outbox /\ asked' = asked \o t
    BY <1>3 DEF SendRelayed, Ask
  <2>3. t \in Seq(Command) /\ Carried(t) = {n}
    <3>1. Store(n) \in Command /\ Store(n).op = "STORE" /\ Store(n).msg = n /\ n # 0
      BY <1>1, CommandFields
    <3>2. StoredAt(t) = {1}
      BY <3>1 DEF StoredAt
    <3> QED BY <3>1, <3>2 DEF Carried
  <2> HIDE DEF t
  <2>4. Carried(asked') = Carried(asked) \cup {n}
    BY <1>1, <2>2, <2>3, CarriedConcat
  <2>5. Follows({}, {}) /\ fate'[n] = "flying"
    BY <1>3, NewFate DEF SendRelayed, Fates
  <2> QED BY <1>1, <2>1, <2>2, <2>4, <2>5 DEF Writes
<1>4. ASSUME NEW p \in Peers, SendDirect(p)
      PROVE  Writes
  <2>1. PICK f \in Fates \ {"kept", "flying"} : NewRow(p, "Sent", f)
    BY <1>4 DEF SendDirect, Fates
  <2>2. Len(messages') = Len(messages) + 1
    BY <1>1, <2>1, RowAdded DEF Statuses
  <2>3. outbox' = outbox /\ asked' = asked
    BY <1>4 DEF SendDirect, linkVars
  <2>4. Follows({}, {}) /\ fate'[Len(messages) + 1] = f
    BY <2>1, NewFate
  <2> QED BY <1>1, <2>1, <2>2, <2>3, <2>4 DEF Writes
<1>5. ASSUME NEW p \in Peers, FindPeer(p)
      PROVE  Settles
  <2>1. <<p>> \in [1..1 -> Peers] /\ 1 \in Nat
    OBVIOUS
  <2> QED BY <1>5, <2>1, FindsSettle DEF FindPeer, dbVars, coreVars
<1>6. ASSUME NEW p \in Peers, Join(p)
      PROVE  CustodyStep
  <2>1. CASE FallBack(p)
    BY <1>6, <2>1, FallBackStep DEF Join
  <2>2. CASE UNCHANGED <<linkVars, mode, outbox, fate>>
    BY <1>6, <2>2, NothingMoves DEF Join, linkVars, CustodyStep
  <2> QED BY <1>6, <2>1, <2>2 DEF Join
<1>7. ASSUME PollRelay
      PROVE  Settles
  BY <1>7, Remains, PlainStays, FatesUnchanged, AddsNothing DEF PollRelay, Ask, dbVars, coreVars
<1>8. ASSUME RetryP2P
      PROVE  Settles
  <2> DEFINE relayed == {p \in Peers : mode[p] = "relay"}
  <2>1. PICK order \in Listings(relayed) : AskFinds(order)
    BY <1>8 DEF RetryP2P
  <2>2. Cardinality(relayed) \in Nat
    BY FS_Subset, FS_CardinalityType
  <2>3. order \in [1..Cardinality(relayed) -> Peers]
    BY <2>1 DEF Listings, Bijection, Injection, Surjection
  <2> QED BY <1>8, <2>1, <2>2, <2>3, FindsSettle DEF RetryP2P, dbVars
<1>9. ASSUME Tick
      PROVE  Settles
  BY <1>9, NothingMoves DEF Tick, dbVars, linkVars
<1> QED
  BY <1>2, <1>3, <1>4, <1>5, <1>6, <1>7, <1>8, <1>9 DEF UserOrTimer, CustodyStep

LEMMA ServerSteps ==
    ASSUME IInv, ServerAnswers
    PROVE  CustodyStep
<1> USE DEF IInv
<1>1. ASSUME NEW op, op # "STORE", Answered(op, << >>), UNCHANGED <<messages, outbox, fate>>
      PROVE  CustodyStep
  BY <1>1, Remains, OthersCarried, PlainStays, FatesUnchanged, AddsNothing
     DEF CustodyStep, Answered
<1>2. CASE \/ PeerNotFound \/ ClaimFalse \/ NothingFetched
           \/ \E nat \in BOOLEAN : Registered(nat)
  BY <1>1, <1>2 DEF PeerNotFound, ClaimFalse, NothingFetched, Registered, dbVars, coreVars
<1>3. ASSUME NEW ok \in BOOLEAN, StoreAnswered(ok)
      PROVE  CustodyStep
  <2>1. Len(messages') = Len(messages) /\ outbox' = outbox
    BY <1>3 DEF StoreAnswered, WithStatus, LaneInv
  <2> DEFINE i == Head(asked).msg
  <2>2. /\ Answered("STORE", << >>) /\ asked # << >>
        /\ \E f \in {"reached", "lost"} : fate' = FatesOf({i}, f)
    BY <1>3 DEF StoreAnswered, Answered, Due
  <2>3. /\ i # 0 => i \in Carried(asked) \ Carried(Tail(asked))
        /\ Carried(asked) \ Carried(Tail(asked)) \subseteq {i}
        /\ 0 \notin 1..Len(messages)
    BY <2>2, CarriedTail DEF LaneInv, OneWayOut
  <2> HIDE DEF i
  <2>4. Follows({i}, {"reached", "lost"})
    <3>1. PICK f \in {"reached", "lost"} : fate' = FatesOf({i}, f)
      BY <2>2
    <3>2. Follows({i}, {f})
      BY <3>1, FatesFollow
    <3> QED BY <3>2 DEF Follows
  <2>5. Follows(Carried(asked) \ Carried(Tail(asked)), {"reached", "lost"})
    BY <2>3, <2>4 DEF Follows
  <2> QED BY <2>1, <2>2, <2>5, Remains, PlainSettles, AddsNothing DEF CustodyStep
<1>4. CASE ClaimTrue
  <2> DEFINE n == findNick  others == {g \in Releasable : g.as # n}
             add == RelayedReceipts(others)
  <2>1. others \in SUBSET Chat
    BY DEF Releasable
  <2>2. Adds(add, {})
    BY <2>1, ReceiptsAdd, AddsNothing DEF CountersOK
  <2>3. /\ Answered("FIND", add) /\ outbox' = outbox \ Waiting(n) /\ messages' = messages
        /\ Follows(Waiting(n), {"dropped"})
    BY <1>4, FatesFollow DEF ClaimTrue
  <2> HIDE DEF add
  <2>4. Carried(Tail(asked)) = Carried(asked) /\ LeftOf(asked, Tail(asked))
        /\ asked' = Tail(asked) \o add
    BY <2>3, OthersCarried, Remains DEF Answered
  <2>5. Carried(asked') = Carried(Tail(asked)) \cup {}
    <3> DEFINE t == Tail(asked)
    <3>1. t \in Seq(Command) /\ CarriedOnce(t) /\ asked' = t \o add
      BY <2>4 DEF LeftOf, LaneInv, OneWayOut
    <3>2. add \in Seq(Command) /\ Carried(add) = {}
      BY <2>2 DEF Adds
    <3> HIDE DEF t
    <3>3. Carried(t \o add) = Carried(t) \cup Carried(add)
      BY <3>1, <3>2, CarriedConcat
    <3> QED BY <3>1, <3>2, <3>3 DEF t
  <2>6. GivesUp(Waiting(n))
    BY <2>3, <2>4, <2>5 DEF GivesUp, Waiting
  <2> QED BY <2>6 DEF CustodyStep, Flushes
<1>5. CASE ContactFound
  <2> DEFINE n == findNick  out == IF ~Ready(n) THEN Releasable ELSE {}
  <2>1. out \in SUBSET Chat
    BY DEF Releasable
  <2> HIDE DEF out
  <2>2. Adds(RelayedReceipts(out), {})
    BY <2>1, ReceiptsAdd, AddsNothing DEF CountersOK
  <2>3. /\ messages' = messages /\ Due("FIND")
        /\ \/ /\ outbox' = outbox \ Waiting(n)
              /\ fate' = FatesOf(Waiting(n), "flying")
              /\ \E cmds \in FlushCommands(Waiting(n)) :
                     Answered("FIND", RelayedReceipts(out) \o cmds)
           \/ Answered("FIND", RelayedReceipts(out)) /\ outbox' = outbox /\ fate' = fate
    BY <1>5 DEF ContactFound, FlushToRelay, out
  <2>4. LeftOf(asked, Tail(asked)) /\ Carried(Tail(asked)) = Carried(asked)
    BY <2>3, OthersCarried
  <2>5. CASE Answered("FIND", RelayedReceipts(out)) /\ outbox' = outbox /\ fate' = fate
    BY <2>2, <2>3, <2>4, <2>5, Remains, PlainStays, FatesUnchanged DEF CustodyStep
  <2>6. ASSUME NEW cmds \in FlushCommands(Waiting(n)), outbox' = outbox \ Waiting(n),
               fate' = FatesOf(Waiting(n), "flying"),
               Answered("FIND", RelayedReceipts(out) \o cmds)
        PROVE  CustodyStep
    <3>1. Waiting(n) \in SUBSET outbox
      BY DEF Waiting
    <3>2. Follows(Waiting(n), {"flying"})
      BY <2>6, FatesFollow
    <3>3. HandsOver(Waiting(n))
      BY <2>2, <2>3, <2>4, <2>6, <3>1, <3>2, Remains, FlushHandsOver
    <3> QED BY <3>3 DEF CustodyStep, Flushes
  <2> QED BY <2>3, <2>5, <2>6
<1>6. ASSUME NEW w \in Peers, NEW i \in {0} \cup Receiptable(w), NEW more \in BOOLEAN, NEW missed,
             FetchedFrom(w, i, more, missed)
      PROVE  CustodyStep
  <2> DEFINE m == [mode EXCEPT ![w] = "relay"]
             emitted == mode[w] # "relay" /\ CloseAllSignals(missed)
             reply == IF i = 0 THEN <<Receipt>> ELSE << >>
  <2>1. /\ Handle(Relayed(w), i) /\ outbox' = outbox \ LostRows(m, emitted) /\ Due("FETCH")
        /\ Follows(LostRows(m, emitted), {"flying"})
    BY <1>6, FatesFollow DEF FetchedFrom
  <2>2. PICK cmds \in FlushCommands(LostRows(m, emitted)) :
            IF more THEN AnsweredInPart("FETCH", cmds \o reply)
                    ELSE Answered("FETCH", cmds \o reply)
    BY <1>6 DEF FetchedFrom
  <2>3. Adds(reply, {})
    BY AddsNothing
  <2>4. Len(messages') = Len(messages)
    <3>1. Relayed(w) \in Chat
      BY DEF Relayed, Chat
    <3> QED BY <2>1, <3>1, HandleKeeps DEF RowsKept
  <2> HIDE DEF m, emitted, reply
  <2>5. \E rest : LeftOf(asked, rest) /\ Carried(rest) = Carried(asked)
                  /\ asked' = rest \o (cmds \o reply)
    BY <2>1, <2>2, Remains, OthersCarried DEF AnsweredInPart
  <2> QED BY <2>1, <2>3, <2>4, <2>5, LostStep
<1>7. ASSUME NEW w \in Peers, NEW more \in BOOLEAN, FetchedUnreadable(w, more)
      PROVE  CustodyStep
  <2>1. /\ Due("FETCH") /\ UNCHANGED <<messages, outbox, fate>>
        /\ \E rest : LeftOf(asked, rest) /\ asked' = rest \o << >>
                      /\ Carried(rest) = Carried(asked)
    BY <1>7, Remains, OthersCarried DEF FetchedUnreadable, AnsweredInPart, Answered, dbVars
  <2> QED BY <2>1, PlainStays, FatesUnchanged, AddsNothing DEF CustodyStep
<1> QED BY <1>2, <1>3, <1>4, <1>5, <1>6, <1>7 DEF ServerAnswers

LEMMA NetworkSteps ==
    ASSUME IInv, NetworkEvent
    PROVE  CustodyStep
<1> USE DEF IInv
<1>1. ASSUME UNCHANGED <<dbVars, linkVars, fate>>
      PROVE  CustodyStep
  BY <1>1, NothingMoves DEF dbVars, linkVars, CustodyStep
<1>2. ASSUME NEW k \in 0..Len(asked), NEW j \in 0..k, LinkDown(k, j)
      PROVE  CustodyStep
  <2>1. LeftOf(asked, asked') /\ UNCHANGED <<messages, outbox>>
    BY <1>2, LeftOfLane DEF LaneInv, OneWayOut, LinkDown, Break, dbVars
  <2> DEFINE sent(n) == {asked[l].msg : l \in 1..n}
  <2>2. \A i \in 1..Len(messages) :
            \/ i \in sent(k) /\ fate'[i] \in {"reached", "lost"}
            \/ i \notin sent(k) /\ fate'[i] = fate[i]
    <3>1. \A i \in sent(j) : i \in sent(k)
      OBVIOUS
    <3>2. \A i \in DOMAIN fate :
              fate'[i] = IF i \in sent(j) /\ Shared(messages[i].peer) THEN "reached"
                         ELSE IF i \in sent(k) THEN "lost" ELSE fate[i]
      BY <1>2 DEF LinkDown
    <3>3. DOMAIN fate = 1..Len(messages)
      BY LenProperties DEF LaneInv
    <3> HIDE DEF sent
    <3> QED BY <3>1, <3>2, <3>3
  <2>3. \A i \in 1..Len(messages) : i \in sent(k) <=> i \in Carried(asked) \ Carried(asked')
    <3>1. asked' = SubSeq(asked, k + 1, Len(asked))
      BY <1>2 DEF LinkDown, Break
    <3>2. \A i \in 1..Len(messages) : i # 0
      BY LenProperties DEF LaneInv
    <3> QED BY <3>1, <3>2, CutTakes DEF LaneInv, OneWayOut
  <2> HIDE DEF sent
  <2>4. Follows(Carried(asked) \ Carried(asked'), {"reached", "lost"})
    BY <2>2, <2>3 DEF Follows
  <2> QED BY <2>1, <2>4 DEF LeftOf, Settles, CustodyStep
<1>3. ASSUME LinkUp
      PROVE  CustodyStep
  BY <1>3, Remains, PlainStays, FatesUnchanged, AddsNothing
     DEF LinkUp, Relink, dbVars, coreVars, CustodyStep
<1>4. ASSUME NEW online \in BOOLEAN, NEW missed, Reachability(online, missed)
      PROVE  CustodyStep
  <2> DEFINE more == IF online THEN <<Fetch>> ELSE << >>
  <2>1. PICK cmds \in FlushCommands(LostRows(mode, CloseAllSignals(missed))) : Ask(cmds \o more)
    BY <1>4 DEF Reachability
  <2>2. /\ outbox' = outbox \ LostRows(mode, CloseAllSignals(missed)) /\ messages' = messages
        /\ Follows(LostRows(mode, CloseAllSignals(missed)), {"flying"})
    BY <1>4, FatesFollow DEF Reachability
  <2>3. Adds(more, {})
    BY AddsNothing
  <2> HIDE DEF more
  <2> QED BY <2>1, <2>2, <2>3, Remains, LostStep DEF Ask
<1>5. ASSUME NEW s \in Slots, ConnectionLost(s)
      PROVE  CustodyStep
  <2> DEFINE emitted == Listed \subseteq {s}
  <2>1. PICK cmds \in FlushCommands(LostRows(mode, emitted)) : Ask(cmds)
    BY <1>5 DEF ConnectionLost
  <2>2. /\ outbox' = outbox \ LostRows(mode, emitted) /\ messages' = messages
        /\ Follows(LostRows(mode, emitted), {"flying"})
    BY <1>5, FatesFollow DEF ConnectionLost
  <2> HIDE DEF emitted
  <2> QED BY <2>1, <2>2, Remains, LostStep, AddsNothing DEF Ask
<1>6. ASSUME NEW s \in Slots, DialTimedOut(s)
      PROVE  CustodyStep
  <2>1. conn[s].as \in Peers
    BY <1>6 DEF DialTimedOut, TimeOut, NetInv, DialsAreNamed
  <2> QED BY <1>6, <2>1, FallBackStep DEF DialTimedOut
<1>7. ASSUME NEW p \in Peers, LateTimeout(p)
      PROVE  CustodyStep
  BY <1>7, FallBackStep DEF LateTimeout
<1>8. ASSUME NEW s \in Slots, NEW n \in Peers, NEW k \in Peers, PeerClaims(s, n, k)
      PROVE  CustodyStep
  <2>1. <<n>> \in [1..1 -> Peers] /\ 1 \in Nat
    OBVIOUS
  <2> QED BY <1>8, <2>1, FindsSettle DEF PeerClaims, dbVars, CustodyStep
<1>9. ASSUME NEW s \in Slots, NEW n \in Peers, NEW i, DataReceived(s, n, i)
      PROVE  CustodyStep
  <2> DEFINE c == [by |-> conn[s].who, as |-> n]
             add == IF i = 0 /\ mode[n] = "relay" THEN <<Receipt>> ELSE << >>
  <2>1. c \in Chat
    BY <1>9, Writers DEF DataReceived, Chat
  <2>2. /\ Handle(c, i) /\ Ask(add) /\ outbox' = outbox
        /\ Follows({}, {"reached", "lost"})
    BY <1>9, FatesFollow DEF DataReceived
  <2>3. Adds(add, {})
    BY AddsNothing
  <2> HIDE DEF c
  <2>4. Len(messages') = Len(messages)
    BY <2>1, <2>2, HandleKeeps DEF RowsKept
  <2> HIDE DEF add
  <2> QED BY <2>2, <2>3, <2>4, Remains, PlainStays DEF Ask, CustodyStep
<1>10. ASSUME NEW s \in Slots,
              \/ DialConnected(s) \/ PeerTooEarly(s)
              \/ \E n \in Peers \cup {None} : DataHeld(s, n)
              \/ \E n \in Peers : DataUnreadable(s, n)
              \/ \E w \in Peers : PeerConnects(s, w)
       PROVE  CustodyStep
  BY <1>1, <1>10 DEF DialConnected, PeerTooEarly, DataHeld, DataUnreadable, PeerConnects, coreVars
<1> QED BY <1>2, <1>3, <1>4, <1>5, <1>6, <1>7, <1>8, <1>9, <1>10 DEF NetworkEvent

\* Every step is a step of custody, or changes nothing.
LEMMA StepsOfCustody ==
    ASSUME IInv, [Next]_vars
    PROVE  CustodyStep
<1>1. CASE Next
  BY <1>1, UserSteps, ServerSteps, NetworkSteps DEF Next
<1>2. CASE UNCHANGED vars
  BY <1>2, NothingMoves DEF vars, dbVars, linkVars, coreVars, CustodyStep, IInv
<1> QED BY <1>1, <1>2

-----------------------------------------------------------------------------
(***************************************************************************)
(* The refinement of MessageCustody.                                       *)
(***************************************************************************)

\* What IInv says of the places of messages.
LEMMA PlacesOf ==
    ASSUME LaneInv
    PROVE  /\ Len(messages) \in Nat /\ DOMAIN Custody = 1..Len(messages)
           /\ outbox \cap Carried(asked) = {}
           /\ \A i \in 1..Len(messages) :
                  Custody[i] = IF i \in outbox THEN "waiting"
                               ELSE IF i \in Carried(asked) THEN "relaying" ELSE "gone"
<1>1. Len(messages) \in Nat
  BY LenProperties DEF LaneInv
<1> QED BY <1>1 DEF Custody, LaneInv, OneWayOut

LEMMA CustodyInit == Init => Promise!Init
<1> SUFFICES ASSUME Init PROVE Custody = << >>
  BY DEF Promise!Init
<1>1. messages = << >> /\ Len(messages) = 0
  BY DEF Init, DbInit
<1> QED BY <1>1 DEF Custody

\* The messages S of one place move on.
LEMMA MovesOn ==
    ASSUME LaneInv, NEW S \in SUBSET (1..Len(messages)), Len(messages') = Len(messages),
           NEW from, NEW to, \A i \in S : Custody[i] = from,
           \A i \in 1..Len(messages) : Custody'[i] = IF i \in S THEN to ELSE Custody[i]
    PROVE  Promise!Move(from, to)
<1>1. DOMAIN Custody = 1..Len(messages) /\ Custody' = [i \in 1..Len(messages) |-> Custody'[i]]
  BY PlacesOf DEF Custody
<1>2. Custody' = [i \in DOMAIN Custody |-> IF i \in S THEN to ELSE Custody[i]]
  BY <1>1
<1>3. S \in SUBSET {i \in DOMAIN Custody : Custody[i] = from}
  BY <1>1
<1> QED BY <1>2, <1>3 DEF Promise!Move

LEMMA CustodyRefines ==
    ASSUME IInv, IInv', CustodyStep
    PROVE  [Promise!Next]_Custody
<1> USE DEF IInv
<1> DEFINE Place(i) == IF i \in outbox' THEN "waiting"
                       ELSE IF i \in Carried(asked') THEN "relaying" ELSE "gone"
<1>1. /\ Len(messages) \in Nat /\ DOMAIN Custody = 1..Len(messages)
      /\ outbox \cap Carried(asked) = {} /\ outbox \subseteq 1..Len(messages)
      /\ Carried(asked) \subseteq 1..Len(messages)
      /\ \A i \in 1..Len(messages) :
             Custody[i] = IF i \in outbox THEN "waiting"
                          ELSE IF i \in Carried(asked) THEN "relaying" ELSE "gone"
  BY PlacesOf DEF LaneInv, CarriedAreWritten
<1>2. /\ DOMAIN Custody' = 1..Len(messages') /\ Custody' = [i \in 1..Len(messages') |-> Place(i)]
      /\ \A i \in 1..Len(messages') : Custody'[i] = Place(i)
  BY DEF Custody
<1> HIDE DEF IInv
<1>3. ASSUME Settles PROVE Promise!Next
  <2> DEFINE S == Carried(asked) \ Carried(asked')
  <2>1. Promise!Move("relaying", "gone")
    <3>1. \A i \in S : Custody[i] = "relaying"
      BY <1>1
    <3>2. \A i \in 1..Len(messages) : Custody'[i] = IF i \in S THEN "gone" ELSE Custody[i]
      BY <1>1, <1>2, <1>3 DEF Settles
    <3>3. S \in SUBSET (1..Len(messages))
      BY <1>1
    <3> HIDE DEF S
    <3> QED BY <1>3, <3>1, <3>2, <3>3, MovesOn DEF Settles, IInv
  <2> QED BY <2>1 DEF Promise!Next
<1>4. ASSUME NEW S, HandsOver(S) PROVE Promise!Next
  <2>1. Promise!Move("waiting", "relaying")
    <3>1. \A i \in S : Custody[i] = "waiting"
      BY <1>1, <1>4 DEF HandsOver
    <3>2. \A i \in 1..Len(messages) : Custody'[i] = IF i \in S THEN "relaying" ELSE Custody[i]
      BY <1>1, <1>2, <1>4 DEF HandsOver
    <3>3. S \in SUBSET (1..Len(messages)) /\ Len(messages') = Len(messages)
      BY <1>1, <1>4 DEF HandsOver
    <3> QED BY <3>1, <3>2, <3>3, MovesOn DEF IInv
  <2> QED BY <2>1 DEF Promise!Next
<1>5. ASSUME NEW S, GivesUp(S) PROVE Promise!Next
  <2>1. Promise!Move("waiting", "gone")
    <3>1. \A i \in S : Custody[i] = "waiting"
      BY <1>1, <1>5 DEF GivesUp
    <3>2. \A i \in 1..Len(messages) : Custody'[i] = IF i \in S THEN "gone" ELSE Custody[i]
      BY <1>1, <1>2, <1>5 DEF GivesUp
    <3>3. S \in SUBSET (1..Len(messages)) /\ Len(messages') = Len(messages)
      BY <1>1, <1>5 DEF GivesUp
    <3> QED BY <3>1, <3>2, <3>3, MovesOn DEF IInv
  <2> QED BY <2>1 DEF Promise!Next
<1>6. ASSUME Writes PROVE Promise!Next
  <2> DEFINE n == Len(messages) + 1
  <2>1. /\ Place(n) \in {"waiting", "relaying", "gone"}
        /\ Len(messages') = n /\ n \in 1..n /\ 1..Len(messages) \subseteq 1..n
    BY <1>1, <1>6 DEF Writes
  <2>2. \A i \in 1..Len(messages) : Custody'[i] = Custody[i]
    BY <1>1, <1>2, <1>6, <2>1 DEF Writes
  <2>3. Custody \in Seq({"waiting", "relaying", "gone"}) /\ Len(Custody) = Len(messages)
    <3>1. Custody \in [1..Len(messages) -> {"waiting", "relaying", "gone"}]
      BY <1>1 DEF Custody
    <3> QED BY <1>1, <3>1
  <2>4. Custody' = Append(Custody, Place(n))
    <3> DEFINE c == Append(Custody, Place(n))
    <3>1. /\ DOMAIN c = 1..n /\ c[n] = Place(n)
          /\ \A i \in 1..Len(messages) : c[i] = Custody[i]
          /\ c = [i \in 1..n |-> c[i]]
      <4> HIDE DEF Place
      <4>1. c \in Seq({"waiting", "relaying", "gone"}) /\ Len(c) = n /\ c[n] = Place(n)
            /\ \A i \in 1..Len(messages) : c[i] = Custody[i]
        BY <2>1, <2>3, AppendProperties
      <4> QED BY <4>1, LenProperties
    <3>2. \A i \in 1..n : i \in 1..Len(messages) \/ i = n
      BY <1>1
    <3>3. Custody'[n] = Place(n)
      BY <1>2, <2>1
    <3>4. Custody' = [i \in 1..n |-> Custody'[i]]
      BY <1>2, <2>1
    <3> HIDE DEF c, Place
    <3>5. \A i \in 1..n : Custody'[i] = c[i]
      BY <2>2, <3>1, <3>2, <3>3
    <3> QED BY <3>1, <3>4, <3>5 DEF c
  <2>5. Place(n) \in Promise!Places
    BY <2>1 DEF Promise!Places
  <2> HIDE DEF Place
  <2> QED BY <2>4, <2>5 DEF Promise!Next, Promise!Write
<1> QED BY <1>3, <1>4, <1>5, <1>6 DEF CustodyStep

\* The core implements MessageCustody: no message is taken up again once it left.
THEOREM Refinement == Spec => MovesForward
<1>1. IInv /\ IInv' /\ [Next]_vars => [Promise!Next]_Custody
  BY StepsOfCustody, CustodyRefines
<1> QED BY <1>1, CustodyInit, Invariance, PTL DEF Spec, MovesForward, Promise!Spec

-----------------------------------------------------------------------------
\* A flush takes all rows of a peer or none.
LEMMA FlushesWhole ==
    ASSUME NEW S, Flushes(S), NEW i \in outbox, NEW j \in outbox,
           messages[i].peer = messages[j].peer
    PROVE  i \in S <=> j \in S
BY DEF Flushes, Waiting, LostRows, Flushable

\* A peer's outbox leaves as a whole.
THEOREM OutboxesLeaveWhole == Spec => OutboxLeavesWhole
<1>1. ASSUME IInv, [Next]_vars,
             NEW i \in outbox, NEW j \in outbox, messages[i].peer = messages[j].peer
      PROVE  i \in outbox' <=> j \in outbox'
  <2>1. CustodyStep
    BY <1>1, StepsOfCustody
  <2>2. outbox \subseteq 1..Len(messages)
    BY <1>1 DEF IInv, LaneInv
  <2>3. CASE Settles \/ Writes
    BY <2>2, <2>3 DEF Settles, Writes
  <2>4. ASSUME NEW S, Flushes(S), HandsOver(S) \/ GivesUp(S)
        PROVE  i \in outbox' <=> j \in outbox'
    BY <1>1, <2>4, FlushesWhole DEF HandsOver, GivesUp
  <2> QED BY <2>1, <2>3, <2>4 DEF CustodyStep
<1>2. IInv /\ [Next]_vars =>
          [\A i, j \in outbox : messages[i].peer = messages[j].peer
                                => (i \in outbox' <=> j \in outbox')]_vars
  BY <1>1
<1> QED BY <1>2, Invariance, PTL DEF Spec, OutboxLeavesWhole

-----------------------------------------------------------------------------
(***************************************************************************)
(* The fates of messages agree with where the messages are.                *)
(***************************************************************************)

LEMMA AccountsKept ==
    ASSUME IInv, IInv', Accounted, CustodyStep
    PROVE  Accounted'
<1>1. /\ DOMAIN messages = 1..Len(messages) /\ DOMAIN messages' = 1..Len(messages')
      /\ Len(messages) \in Nat
      /\ outbox \cap Carried(asked) = {} /\ outbox' \cap Carried(asked') = {}
  BY LenProperties DEF IInv, LaneInv, OneWayOut
<1>2. ASSUME NEW i \in 1..Len(messages)
      PROVE  (fate[i] = "kept" <=> i \in outbox) /\ (fate[i] = "flying" <=> i \in Carried(asked))
  BY <1>1, <1>2 DEF Accounted
<1>3. SUFFICES ASSUME NEW i \in 1..Len(messages')
               PROVE  /\ fate'[i] = "kept" <=> i \in outbox'
                      /\ fate'[i] = "flying" <=> i \in Carried(asked')
  BY <1>1 DEF Accounted
<1>4. CASE Settles
  BY <1>1, <1>2, <1>4 DEF Settles, Follows
<1>5. ASSUME NEW S, HandsOver(S)
      PROVE  /\ fate'[i] = "kept" <=> i \in outbox'
             /\ fate'[i] = "flying" <=> i \in Carried(asked')
  BY <1>1, <1>2, <1>5 DEF HandsOver, Follows
<1>6. ASSUME NEW S, GivesUp(S)
      PROVE  /\ fate'[i] = "kept" <=> i \in outbox'
             /\ fate'[i] = "flying" <=> i \in Carried(asked')
  BY <1>1, <1>2, <1>6 DEF GivesUp, Follows
<1>7. CASE Writes
  BY <1>1, <1>2, <1>7 DEF Writes, Follows
<1> QED BY <1>4, <1>5, <1>6, <1>7 DEF CustodyStep

\* No message disappears, however flushes, answers, broken links and receipts meet.
THEOREM NothingDisappears == Spec => []Accounted
<1>1. Init => Accounted
  BY DEF Init, DbInit, Accounted
<1>2. IInv /\ IInv' /\ Accounted /\ [Next]_vars => Accounted'
  BY StepsOfCustody, AccountsKept
<1> QED BY <1>1, <1>2, Invariance, PTL DEF Spec

-----------------------------------------------------------------------------
(***************************************************************************)
(* What the mark of a read message is worth.                               *)
(***************************************************************************)

\* An acknowledged message of the same peer, not older than message i.
AckFrom(i, j) ==
    fate'[j] = "acked" /\ messages[j].peer = messages[i].peer /\ messages[j].sec >= messages[i].sec

\* Rows keep their peer and their second; a row newly marked as read has a message
\* that was acknowledged.
ReadsFollow ==
    /\ Len(messages) \in Nat /\ Len(messages') >= Len(messages)
    /\ \A i \in 1..Len(messages) :
           /\ messages'[i].peer = messages[i].peer /\ messages'[i].sec = messages[i].sec
           /\ messages'[i].status = "Read" =>
                  messages[i].status = "Read" \/ \E j \in 1..Len(messages) : AckFrom(i, j)
    /\ \A i \in 1..Len(messages') : i \in 1..Len(messages) \/ messages'[i].status # "Read"

LEMMA RowsUnread ==
    ASSUME LaneInv, messages' = messages PROVE ReadsFollow
BY LenProperties DEF LaneInv, ReadsFollow

LEMMA RowWritten ==
    ASSUME IInv, NEW p \in Peers, NEW st \in Statuses \ {"Read"}, NEW f \in Fates,
           NewRow(p, st, f)
    PROVE  ReadsFollow
<1>1. /\ Len(messages') = Len(messages) + 1 /\ Len(messages) \in Nat
      /\ \A i \in 1..Len(messages) : messages'[i] = messages[i]
      /\ messages'[Len(messages) + 1].status = st
  BY RowAdded DEF IInv, CountersOK
<1>2. \A i \in 1..(Len(messages) + 1) : i \in 1..Len(messages) \/ i = Len(messages) + 1
  BY <1>1
<1> QED BY <1>1, <1>2 DEF ReadsFollow

LEMMA RowConfirmed ==
    ASSUME LaneInv, NEW id, NEW st \in Statuses \ {"Read"}, messages' = WithStatus(id, st)
    PROVE  ReadsFollow
<1>1. messages \in Seq(Row) /\ Len(messages) \in Nat /\ DOMAIN messages = 1..Len(messages)
  BY LenProperties DEF LaneInv
<1>2. Len(messages') = Len(messages)
  BY <1>1 DEF WithStatus
<1>3. ASSUME NEW i \in 1..Len(messages)
      PROVE  /\ messages'[i].peer = messages[i].peer /\ messages'[i].sec = messages[i].sec
             /\ messages'[i].status = "Read" => messages[i].status = "Read"
  <2>1. messages[i] \in Row
    BY <1>1, <1>3, ElementOfSeq
  <2>2. messages'[i] = messages[i] \/ messages'[i] = [messages[i] EXCEPT !.status = st]
    BY <1>1, <1>3 DEF WithStatus
  <2> QED BY <2>1, <2>2 DEF Row
<1> QED BY <1>1, <1>2, <1>3 DEF ReadsFollow

LEMMA RowsMarked ==
    ASSUME LaneInv, NEW c, NEW i \in {0} \cup Receiptable(c.as), Handle(c, i),
           NEW f, DOMAIN f = 1..Len(messages), fate' = Acked(f, i)
    PROVE  ReadsFollow
<1>1. CASE i = 0
  BY <1>1, RowsUnread DEF Handle
<1>2. CASE i # 0
  <2> DEFINE p == c.as
  <2>1. /\ i \in 1..Len(messages) /\ messages[i].peer = p /\ fate'[i] = "acked"
        /\ messages' = MarkedRead(p, messages[i].sec)
        /\ messages \in Seq(Row) /\ Len(messages) \in Nat
    BY <1>2, LenProperties DEF LaneInv, Receiptable, Handle, Acked
  <2> HIDE DEF p
  <2>2. Len(messages') = Len(messages)
    BY <2>1, MarkedReadRows
  <2>3. ASSUME NEW k \in 1..Len(messages)
        PROVE  /\ messages'[k].peer = messages[k].peer /\ messages'[k].sec = messages[k].sec
               /\ messages'[k].status = "Read" => messages[k].status = "Read" \/ AckFrom(k, i)
    <3>1. messages[k] \in Row
      BY <2>1, ElementOfSeq
    <3>2. messages'[k] = IF messages[k].peer = p /\ messages[k].sec <= messages[i].sec
                         THEN [messages[k] EXCEPT !.status = "Read"] ELSE messages[k]
      BY <2>1 DEF MarkedRead
    <3>3. CASE messages[k].peer = p /\ messages[k].sec <= messages[i].sec
      <4>1. messages[i].sec >= messages[k].sec
        <5>1. messages[i] \in Row
          BY <2>1, ElementOfSeq
        <5> QED BY <3>1, <3>3, <5>1 DEF Row
      <4> QED BY <2>1, <3>1, <3>2, <3>3, <4>1 DEF Row, AckFrom
    <3>4. CASE ~(messages[k].peer = p /\ messages[k].sec <= messages[i].sec)
      BY <3>2, <3>4
    <3> QED BY <3>3, <3>4
  <2> QED BY <2>1, <2>2, <2>3 DEF ReadsFollow
<1> QED BY <1>1, <1>2

LEMMA StepsOfRows ==
    ASSUME IInv, [Next]_vars PROVE ReadsFollow
<1>1. LaneInv /\ DOMAIN fate = 1..Len(messages)
  BY LenProperties DEF IInv, LaneInv
<1>2. ASSUME NEW p \in Peers, SendQueued(p) \/ SendRelayed(p) \/ SendDirect(p)
      PROVE  ReadsFollow
  <2>1. \E st \in Statuses \ {"Read"}, f \in Fates : NewRow(p, st, f)
    BY <1>2 DEF SendQueued, SendRelayed, SendDirect, Statuses, Fates
  <2> QED BY <2>1, RowWritten
<1>3. ASSUME NEW ok \in BOOLEAN, StoreAnswered(ok)
      PROVE  ReadsFollow
  <2>1. \/ messages' = messages
        \/ \E st \in Statuses \ {"Read"} : messages' = WithStatus(Head(pendingRelay), st)
    BY <1>3 DEF StoreAnswered, Statuses
  <2> QED BY <1>1, <2>1, RowsUnread, RowConfirmed
<1>4. ASSUME NEW w \in Peers, NEW i \in {0} \cup Receiptable(w), NEW more, NEW missed,
             FetchedFrom(w, i, more, missed)
      PROVE  ReadsFollow
  <2>1. /\ Handle(Relayed(w), i) /\ Relayed(w).as = w
        /\ \E S : fate' = Acked(FatesOf(S, "flying"), i)
    BY <1>4 DEF FetchedFrom, Relayed
  <2>2. \A S : DOMAIN FatesOf(S, "flying") = 1..Len(messages)
    BY <1>1 DEF FatesOf
  <2> QED BY <1>1, <2>1, <2>2, RowsMarked
<1>5. ASSUME NEW s \in Slots, NEW n, NEW i, DataReceived(s, n, i)
      PROVE  ReadsFollow
  <2> DEFINE c == [by |-> conn[s].who, as |-> n]
  <2>1. i \in {0} \cup Receiptable(c.as) /\ Handle(c, i) /\ fate' = Acked(fate, i)
    BY <1>5 DEF DataReceived
  <2> HIDE DEF c
  <2> QED BY <1>1, <2>1, RowsMarked
<1>6. CASE messages' = messages
  BY <1>1, <1>6, RowsUnread
<1>7. CASE UserOrTimer
  BY <1>2, <1>6, <1>7 DEF UserOrTimer, FindPeer, Join, PollRelay, RetryP2P, Tick, dbVars
<1>8. CASE ServerAnswers
  BY <1>3, <1>4, <1>6, <1>8
     DEF ServerAnswers, PeerNotFound, ClaimFalse, ClaimTrue, ContactFound, NothingFetched,
         FetchedUnreadable, Registered, dbVars
<1>9. CASE NetworkEvent
  BY <1>5, <1>6, <1>9
     DEF NetworkEvent, LinkDown, LinkUp, Reachability, DialConnected, DialTimedOut,
         LateTimeout, PeerConnects, PeerClaims, PeerTooEarly, ConnectionLost, DataHeld,
         DataUnreadable, dbVars
<1>10. CASE UNCHANGED vars
  BY <1>6, <1>10 DEF vars, dbVars
<1> QED BY <1>7, <1>8, <1>9, <1>10 DEF Next

\* An acknowledged message stays one.
LEMMA AcksStay ==
    ASSUME IInv, Accounted, CustodyStep, NEW i \in 1..Len(messages), fate[i] = "acked"
    PROVE  fate'[i] = "acked"
<1>1. i \notin outbox /\ i \notin Carried(asked)
  BY LenProperties DEF Accounted, IInv, LaneInv
<1> QED BY <1>1 DEF CustodyStep, Settles, Writes, HandsOver, GivesUp, Follows

\* A message shown as read was acknowledged, or one not older than it was.
THEOREM ReadMeansAcked == Spec => []ReadWasAcked
<1>1. Init => ReadWasAcked
  BY DEF Init, DbInit, ReadWasAcked
<1>2. ASSUME IInv, IInv', Accounted, ReadWasAcked, [Next]_vars
      PROVE  ReadWasAcked'
  <2>1. /\ DOMAIN messages = 1..Len(messages) /\ DOMAIN messages' = 1..Len(messages')
    BY <1>2, LenProperties DEF IInv, LaneInv
  <2>2. ReadsFollow /\ CustodyStep
    BY <1>2, StepsOfRows, StepsOfCustody
  <2>3. SUFFICES ASSUME NEW i \in 1..Len(messages'), messages'[i].status = "Read"
                 PROVE  \E j \in 1..Len(messages') :
                            /\ fate'[j] = "acked" /\ messages'[j].peer = messages'[i].peer
                            /\ messages'[j].sec >= messages'[i].sec
    BY <2>1 DEF ReadWasAcked
  <2>4. i \in 1..Len(messages)
    BY <2>2, <2>3 DEF ReadsFollow
  <2>5. \E j \in 1..Len(messages) : AckFrom(i, j)
    <3>1. CASE messages[i].status = "Read"
      <4>1. PICK j \in 1..Len(messages) :
                /\ fate[j] = "acked" /\ messages[j].peer = messages[i].peer
                /\ messages[j].sec >= messages[i].sec
        BY <1>2, <2>1, <2>4, <3>1 DEF ReadWasAcked
      <4>2. fate'[j] = "acked"
        BY <1>2, <2>2, <4>1, AcksStay
      <4> QED BY <4>1, <4>2 DEF AckFrom
    <3> QED BY <2>2, <2>3, <2>4, <3>1 DEF ReadsFollow
  <2>6. \A j \in 1..Len(messages) : j \in 1..Len(messages')
    BY <1>2, <2>2, LenProperties DEF ReadsFollow, IInv, LaneInv
  <2> QED BY <2>2, <2>4, <2>5, <2>6 DEF ReadsFollow, AckFrom
<1>3. IInv /\ IInv' /\ Accounted /\ ReadWasAcked /\ [Next]_vars => ReadWasAcked'
  BY <1>2
<1> QED BY <1>1, <1>3, Invariance, NothingDisappears, PTL DEF Spec
=============================================================================
