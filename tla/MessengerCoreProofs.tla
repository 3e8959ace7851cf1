------------------------ MODULE MessengerCoreProofs -------------------------
(***************************************************************************)
(* MessengerCore is type correct and keeps its safety invariants, for any  *)
(* peers and any number of connections and messages.  A step is taken      *)
(* apart as the inductive invariant is: what it does to the connections    *)
(* (NetStep), to the messages and the lane (LaneStep), and to the counters.*)
(***************************************************************************)
EXTENDS MessengerCore, BootstrapLinkProofs, CryptoManagerProofs

USE PeersAssumption, SlotsAssumption

-----------------------------------------------------------------------------
(***************************************************************************)
(* Connections.                                                            *)
(***************************************************************************)

\* A session made from a key is read at the other end by the peers that have this key.
LEMMA ReadableByKey ==
    ASSUME NEW w \in Peers, NEW source \in Peers \cup {None}
    PROVE  Readable(w, source) <=> source # None /\ PublicKey[source] = PublicKey[w]
<1>1. CASE source = None
  BY <1>1 DEF Readable
<1>2. CASE source # None
  <2>1. /\ OwnKey \in Nat /\ PublicKey[w] \in Nat /\ PublicKey[source] \in Nat
        /\ OwnKey # PublicKey[w]
    BY <1>2, KeysAssumption
  <2>2. Agree(SharedSecret(OwnKey, PublicKey[source]), SharedSecret(PublicKey[w], OwnKey))
            <=> OwnKey # PublicKey[w] /\ PublicKey[source] = PublicKey[w]
    BY <2>1, EndsAgree
  <2> QED BY <1>2, <2>1, <2>2 DEF Readable
<1> QED BY <1>1, <1>2

\* The session of a nickname is good for the peers that have the key it was made from, the
\* peer the key was taken from among them; peers with the same key are the same to
\* Crypto_Manager.
THEOREM SharedByKey ==
    ASSUME session \in [Peers -> Peers \cup {None}], NEW p \in Peers
    PROVE  Shared(p) <=> session[p] # None /\ PublicKey[session[p]] = PublicKey[p]
BY ReadableByKey DEF Shared

\* The sessions after a step are made from keys of peers.
SessionsTyped == session' \in [Peers -> Peers \cup {None}]

LEMMA LearnsKeep ==
    ASSUME NetInv, NEW p \in Peers, NEW key \in Peers,
           session' = LearnKey(p, key) \/ session' = AdoptKey(p, key)
    PROVE  SessionsTyped
BY DEF NetInv, LearnKey, AdoptKey, SessionsTyped

\* Deleting connections that are not under verification, or leaving their claims dangling.
LEMMA FreedKeeps ==
    ASSUME NetInv, SessionsTyped, verifying' = verifying, NEW S \in SUBSET Slots,
           conn' = Freed(S), skip' \in BOOLEAN, orphan' \in [Peers -> Nat],
           \/ claim' = Unclaimed(S)
           \/ claim' = claim /\ \A s \in S : conn[s].st # "claimed"
    PROVE  NetInv'
<1> USE DEF NetInv
<1>1. NetTypeOK'
  BY DEF NetTypeOK, Freed, Unclaimed
<1>2. VerificationPaired'
  BY DEF VerificationPaired, Unclaimed, NetTypeOK
<1>3. ClaimsPointToClaimed'
  BY DEF ClaimsPointToClaimed, Freed, Unclaimed, NetTypeOK
<1>4. DialsAreNamed'
  BY DEF DialsAreNamed, Freed, Free
<1> QED BY <1>1, <1>2, <1>3, <1>4 DEF SessionsTyped

\* Timeouts of deleted connections are counted.
LEMMA OrphansCounted ==
    ASSUME NetInv, NEW S \in SUBSET Slots PROVE Orphaned(S) \in [Peers -> Nat]
<1>1. SUFFICES ASSUME NEW p \in Peers
      PROVE  Cardinality({s \in S : conn[s].st = "connecting" /\ conn[s].as = p}) \in Nat
  BY <1>1 DEF Orphaned, NetInv, NetTypeOK
<1>2. IsFiniteSet({s \in S : conn[s].st = "connecting" /\ conn[s].as = p})
  BY FS_Subset
<1> QED BY <1>2, FS_CardinalityType

\* Closing the listed connections, whichever of them the loop misses: those it misses
\* keep their peers and their claims.
LEMMA CloseAllKeeps ==
    ASSUME NetInv, SessionsTyped, verifying' = verifying,
           NEW missed \in Missable, CloseAll(missed)
    PROVE  NetInv'
<1> USE DEF NetInv
<1> DEFINE closed == Listed \ missed
<1>1. /\ conn' = [s \in Slots |->
                    IF s \in closed THEN Free
                    ELSE IF s \in missed THEN [conn[s] EXCEPT !.listed = FALSE] ELSE conn[s]]
      /\ claim' = Unclaimed(closed) /\ orphan' = Orphaned(closed) /\ skip' = skip
  BY DEF CloseAll
<1>2. closed \in SUBSET Slots
  BY DEF Listed
<1> HIDE DEF closed
<1>3. orphan' \in [Peers -> Nat]
  BY <1>1, <1>2, OrphansCounted
<1>4. \A s \in Slots : conn'[s] = Free
                       \/ /\ s \notin closed /\ conn'[s] \in Connection \cup {Free}
                          /\ conn'[s].st = conn[s].st /\ conn'[s].who = conn[s].who
                          /\ conn'[s].as = conn[s].as /\ conn'[s].key = conn[s].key
  <2>1. \A s \in missed \cap Slots : conn[s] \in Connection
    BY DEF Missable, Wired, Listed, NetTypeOK, Free
  <2>2. \A s \in missed \cap Slots :
            LET c == [conn[s] EXCEPT !.listed = FALSE]
            IN  /\ c \in Connection /\ c.st = conn[s].st /\ c.who = conn[s].who
                /\ c.as = conn[s].as /\ c.key = conn[s].key
    BY <2>1 DEF Connection
  <2> QED BY <1>1, <2>2 DEF NetTypeOK
<1>5. NetTypeOK'
  BY <1>1, <1>2, <1>3, <1>4 DEF NetTypeOK, Unclaimed
<1>6. VerificationPaired'
  BY <1>1, <1>2 DEF VerificationPaired, Unclaimed, NetTypeOK
<1>7. ClaimsPointToClaimed'
  BY <1>1, <1>2, <1>4 DEF ClaimsPointToClaimed, Unclaimed, NetTypeOK
<1>8. DialsAreNamed'
  BY <1>4 DEF DialsAreNamed, Free
<1> QED BY <1>5, <1>6, <1>7, <1>8 DEF SessionsTyped

\* What a step does to the connections, one disjunct per operation of Network_Manager.
NetStep ==
    \/ UNCHANGED <<netVars, verifying>>
    \/ /\ verifying' = verifying
       /\ \/ \E p, w \in Peers : Dial(p, w)
          \/ \E s \in Slots : Connect(s) \/ TimeOut(s) \/ DropInvalid(s) \/ Lose(s)
          \/ \E s \in Slots, w \in Peers : AcceptFrom(s, w)
          \/ \E p \in Peers : TimeOutOrphan(p)
          \/ \E missed \in Missable : CloseAll(missed)
          \/ \E b \in BOOLEAN : SetSkip(b)
    \/ \E s \in Slots, n, k \in Peers : ReadHandshake(s, n, k) /\ verifying' = Claimed(n, k)
    \/ \E p \in Peers :
          /\ verifying[p] # None /\ verifying' = [verifying EXCEPT ![p] = None]
          /\ Reject(p) \/ (Confirm(p) /\ ClaimTrue)

LEMMA NetStepKeeps ==
    ASSUME NetInv, SessionsTyped, NetStep
    PROVE  NetInv'
<1> USE DEF NetInv
<1>1. CASE UNCHANGED <<netVars, verifying>>
  BY <1>1 DEF netVars, NetTypeOK, VerificationPaired, ClaimsPointToClaimed, DialsAreNamed,
      SessionsTyped
<1>2. ASSUME verifying' = verifying, NEW p \in Peers, NEW w \in Peers, Dial(p, w)
      PROVE  NetInv'
  <2> DEFINE dialled == [st |-> "connecting", who |-> w, as |-> p, key |-> None, listed |-> TRUE]
  <2>1. PICK s \in Slots : conn[s] = Free /\ conn' = [conn EXCEPT ![s] = dialled]
    BY <1>2 DEF Dial
  <2>2. \A t \in Slots : conn'[t] = IF t = s THEN dialled ELSE conn[t]
    BY <2>1 DEF NetTypeOK
  <2>3. claim' = claim /\ orphan' = orphan /\ skip' = skip
    BY <1>2 DEF Dial
  <2>4. NetTypeOK'
    BY <2>1, <2>3 DEF NetTypeOK, Connection, Free
  <2>5. DialsAreNamed' /\ ClaimsPointToClaimed'
    BY <1>2, <2>1, <2>2, <2>3 DEF DialsAreNamed, ClaimsPointToClaimed, Free
  <2> QED BY <1>2, <2>3, <2>4, <2>5 DEF VerificationPaired, SessionsTyped
<1>3. ASSUME verifying' = verifying, NEW s \in Slots, Connect(s)
      PROVE  NetInv'
  <2>1. NetTypeOK'
    BY <1>3 DEF Connect, NetTypeOK, Connection, Free
  <2>2. DialsAreNamed' /\ ClaimsPointToClaimed'
    BY <1>3 DEF Connect, NetTypeOK, DialsAreNamed, ClaimsPointToClaimed
  <2> QED BY <1>3, <2>1, <2>2 DEF Connect, VerificationPaired, SessionsTyped
<1>4. ASSUME verifying' = verifying, NEW s \in Slots, TimeOut(s) \/ DropInvalid(s) \/ Lose(s)
      PROVE  NetInv'
  BY <1>4, FreedKeeps DEF TimeOut, DropInvalid, Lose, NetTypeOK
<1>5. ASSUME verifying' = verifying, NEW s \in Slots, NEW w \in Peers, AcceptFrom(s, w)
      PROVE  NetInv'
  <2>1. NetTypeOK'
    BY <1>5 DEF AcceptFrom, NetTypeOK, Connection, Free
  <2>2. DialsAreNamed' /\ ClaimsPointToClaimed'
    BY <1>5 DEF AcceptFrom, NetTypeOK, DialsAreNamed, ClaimsPointToClaimed, Connection, Free
  <2> QED BY <1>5, <2>1, <2>2 DEF AcceptFrom, VerificationPaired, SessionsTyped
<1>6. ASSUME verifying' = verifying, NEW p \in Peers, TimeOutOrphan(p)
      PROVE  NetInv'
  <2>1. orphan' \in [Peers -> Nat]
    BY <1>6 DEF TimeOutOrphan, NetTypeOK
  <2> QED BY <1>6, <2>1 DEF TimeOutOrphan, NetTypeOK, VerificationPaired,
      ClaimsPointToClaimed, DialsAreNamed, SessionsTyped
<1>7. ASSUME verifying' = verifying, NEW missed \in Missable, CloseAll(missed)
      PROVE  NetInv'
  BY <1>7, CloseAllKeeps
<1>8. ASSUME verifying' = verifying, NEW b \in BOOLEAN, SetSkip(b)
      PROVE  NetInv'
  BY <1>8 DEF SetSkip, NetTypeOK, VerificationPaired, ClaimsPointToClaimed, DialsAreNamed,
      SessionsTyped
<1>9. ASSUME NEW s \in Slots, NEW n \in Peers, NEW k \in Peers, ReadHandshake(s, n, k),
             verifying' = Claimed(n, k)
      PROVE  NetInv'
  <2>1. /\ conn[s].st = "raw" /\ conn[s] \in Connection
        /\ conn' = [conn EXCEPT ![s] = [@ EXCEPT !.st = "claimed", !.as = n, !.key = k]]
        /\ claim' = [claim EXCEPT ![n] = s] /\ orphan' = orphan /\ skip' = skip
    BY <1>9 DEF ReadHandshake, NetTypeOK, Free
  <2>2. /\ conn'[s] \in Connection
        /\ conn'[s].st = "claimed" /\ conn'[s].as = n /\ conn'[s].key = k
        /\ \A t \in Slots \ {s} : conn'[t] = conn[t]
    BY <2>1 DEF NetTypeOK, Connection
  <2>3. /\ verifying' \in [Peers -> Peers \cup {None}] /\ verifying'[n] = k
        /\ \A p \in Peers \ {n} : verifying'[p] = verifying[p] /\ claim'[p] = claim[p]
        /\ claim'[n] = s
    BY <1>9, <2>1 DEF Claimed, NetTypeOK
  <2>4. NetTypeOK'
    BY <2>1, <2>2 DEF NetTypeOK
  <2>5. VerificationPaired'
    BY <2>3 DEF VerificationPaired
  <2>6. ClaimsPointToClaimed'
    <3>1. \A p \in Peers \ {n} : claim[p] \in Slots => claim[p] # s
      BY <2>1 DEF ClaimsPointToClaimed
    <3> QED BY <2>2, <2>3, <3>1 DEF ClaimsPointToClaimed
  <2>7. DialsAreNamed'
    BY <2>2 DEF DialsAreNamed
  <2> QED BY <2>3, <2>4, <2>5, <2>6, <2>7 DEF SessionsTyped
<1>10. ASSUME NEW p \in Peers, verifying' = [verifying EXCEPT ![p] = None], Reject(p)
       PROVE  NetInv'
  <2>1. /\ conn' = Freed({claim[p]}) /\ claim' = [claim EXCEPT ![p] = None]
        /\ orphan' = orphan /\ skip' = skip
    BY <1>10 DEF Reject
  <2>2. NetTypeOK'
    BY <2>1 DEF NetTypeOK, Freed
  <2>3. VerificationPaired' /\ verifying' \in [Peers -> Peers \cup {None}]
    BY <1>10, <2>1 DEF NetTypeOK, VerificationPaired
  <2>4. DialsAreNamed'
    BY <2>1 DEF DialsAreNamed, Freed, Free
  <2>5. ClaimsPointToClaimed'
    BY <1>10, <2>1 DEF NetTypeOK, ClaimsPointToClaimed, Freed
  <2> QED BY <2>2, <2>3, <2>4, <2>5 DEF SessionsTyped
<1>11. ASSUME NEW p \in Peers, verifying' = [verifying EXCEPT ![p] = None], Confirm(p)
       PROVE  NetInv'
  <2>1. /\ conn' = [s \in Slots |->
                      IF s = claim[p] THEN [conn[s] EXCEPT !.st = "auth"] ELSE conn[s]]
        /\ claim' = [claim EXCEPT ![p] = None]
        /\ orphan' = orphan /\ skip' = skip
    BY <1>11 DEF Confirm
  <2>2. \A s \in Slots : s = claim[p] => conn[s].st = "claimed" /\ conn[s].as = p
                                         /\ conn[s] \in Connection
    BY DEF ClaimsPointToClaimed, NetTypeOK, Free
  <2>3. NetTypeOK'
    BY <2>1, <2>2 DEF NetTypeOK, Connection
  <2>4. VerificationPaired' /\ verifying' \in [Peers -> Peers \cup {None}]
    BY <1>11, <2>1 DEF NetTypeOK, VerificationPaired
  <2>5. DialsAreNamed'
    BY <2>1, <2>2 DEF DialsAreNamed, Connection
  <2>6. ClaimsPointToClaimed'
    <3>1. SUFFICES ASSUME NEW q \in Peers, claim'[q] \in Slots
          PROVE  /\ conn'[claim'[q]].st = "claimed" /\ conn'[claim'[q]].as = q
                 /\ conn'[claim'[q]].key = verifying'[q]
      BY DEF ClaimsPointToClaimed
    <3>2. q # p /\ claim'[q] = claim[q] /\ verifying'[q] = verifying[q]
      BY <1>11, <2>1, <3>1 DEF NetTypeOK
    <3>3. /\ conn[claim[q]].st = "claimed" /\ conn[claim[q]].as = q
          /\ conn[claim[q]].key = verifying[q]
      BY <3>1, <3>2 DEF ClaimsPointToClaimed
    <3>4. claim[q] # claim[p]
      BY <2>2, <3>1, <3>2, <3>3
    <3> QED BY <2>1, <3>1, <3>2, <3>3, <3>4
  <2> QED BY <2>3, <2>4, <2>5, <2>6 DEF SessionsTyped
<1> QED
  BY <1>1, <1>2, <1>3, <1>4, <1>5, <1>6, <1>7, <1>8, <1>9, <1>10, <1>11 DEF NetStep

-----------------------------------------------------------------------------
(***************************************************************************)
(* Messages and the lane.                                                  *)
(***************************************************************************)

\* Marking rows as read keeps the rows, and every other status.
LEMMA MarkedReadRows ==
    ASSUME messages \in Seq(Row), NEW p, NEW sec
    PROVE  /\ MarkedRead(p, sec) \in Seq(Row)
           /\ Len(MarkedRead(p, sec)) = Len(messages)
           /\ \A i \in 1..Len(messages) :
                  /\ MarkedRead(p, sec)[i].status \in {messages[i].status, "Read"}
                  /\ MarkedRead(p, sec)[i].peer = messages[i].peer
<1> DEFINE m == MarkedRead(p, sec)
<1>1. Len(messages) \in Nat /\ \A i \in 1..Len(messages) : messages[i] \in Row
  BY LenProperties, ElementOfSeq
<1>2. m \in [1..Len(messages) -> Row]
  BY <1>1 DEF MarkedRead, Row, Statuses
<1>3. \A i \in 1..Len(messages) : m[i].status \in {messages[i].status, "Read"}
                                  /\ m[i].peer = messages[i].peer
  BY <1>1 DEF MarkedRead, Row
<1> HIDE DEF m
<1>4. m \in Seq(Row) /\ Len(m) = Len(messages)
  BY <1>1, <1>2
<1> QED BY <1>3, <1>4 DEF m

\* The bookkeeping of the messages' fates stays a sequence of fates.
LEMMA FatesOfType ==
    ASSUME fate \in Seq(Fates), NEW S, NEW f \in Fates, NEW i
    PROVE  /\ FatesOf(S, f) \in Seq(Fates) /\ Len(FatesOf(S, f)) = Len(fate)
           /\ Acked(fate, i) \in Seq(Fates) /\ Len(Acked(fate, i)) = Len(fate)
           /\ Acked(FatesOf(S, f), i) \in Seq(Fates) /\ Len(Acked(FatesOf(S, f), i)) = Len(fate)
<1>1. Len(fate) \in Nat /\ DOMAIN fate = 1..Len(fate) /\ \A k \in 1..Len(fate) : fate[k] \in Fates
  BY LenProperties, ElementOfSeq
<1>2. ASSUME NEW g \in [1..Len(fate) -> Fates] PROVE g \in Seq(Fates) /\ Len(g) = Len(fate)
  BY <1>1
<1>3. FatesOf(S, f) \in [1..Len(fate) -> Fates] /\ DOMAIN FatesOf(S, f) = 1..Len(fate)
  BY <1>1 DEF FatesOf
<1>4. Acked(fate, i) \in [1..Len(fate) -> Fates]
  BY <1>1 DEF Acked, Fates
<1>5. Acked(FatesOf(S, f), i) \in [1..Len(fate) -> Fates]
  BY <1>3 DEF Acked, Fates
<1> QED BY <1>2, <1>3, <1>4, <1>5

\* The commands of a flush of outbox rows add those messages to the lane.
LEMMA FlushAdds ==
    ASSUME LaneInv, NEW S \in SUBSET outbox, NEW cmds \in FlushCommands(S)
    PROVE  Adds(cmds, S)
<1>1. PICK order \in FlushOrders(S) : cmds = Stores(order)
  BY DEF FlushCommands
<1>2. order \in Listings(S)
  BY DEF FlushOrders
<1>3. Len(messages) \in Nat
  BY LenProperties DEF LaneInv
<1>4. S \in SUBSET (1..Len(messages)) /\ S \in SUBSET (Nat \ {0})
  BY <1>3 DEF LaneInv
<1>5. IsFiniteSet(S)
  <2>1. IsFiniteSet(1..Len(messages))
    BY <1>3, FS_Interval
  <2> QED BY <1>4, <2>1, FS_Subset
<1> QED BY <1>1, <1>2, <1>4, <1>5, AddsStores

\* There are finitely many kinds of chat.
LEMMA ChatsFinite == IsFiniteSet(Chat)
<1> DEFINE pairs == Peers \X (Peers \cup {None})
           kind == [x \in pairs |-> [by |-> x[1], as |-> x[2]]]
<1>1. IsFiniteSet(Peers \cup {None})
  BY FS_AddElement
<1>2. IsFiniteSet(pairs)
  BY <1>1, FS_Product
<1>3. kind \in Surjection(pairs, Chat)
  <2>1. \A c \in Chat : <<c.by, c.as>> \in pairs /\ c = [by |-> c.by, as |-> c.as]
    BY DEF Chat
  <2>2. \A x \in pairs : x[1] \in Peers /\ x[2] \in Peers \cup {None}
    OBVIOUS
  <2>3. \A c \in Chat : kind[<<c.by, c.as>>] = c
    BY <2>1
  <2>4. kind \in [pairs -> Chat]
    BY <2>2 DEF Chat
  <2> QED BY <2>1, <2>3, <2>4 DEF Surjection
<1> HIDE DEF pairs, kind
<1> QED BY <1>2, <1>3, FS_Surjection

\* Receipts, alone or before the commands of a flush, add no message.
LEMMA ReceiptsAdd ==
    ASSUME held \in [Chat -> Nat], NEW S, NEW R \in SUBSET Chat, NEW cmds, Adds(cmds, S)
    PROVE  Adds(RelayedReceipts(R), {}) /\ Adds(RelayedReceipts(R) \o cmds, S)
<1> DEFINE relayed == {p \in R : mode[p.as] = "relay"}
           Chats(p) == {p} \X (1..held[p])
           all == UNION {Chats(p) : p \in relayed}
<1>1. IsFiniteSet(relayed)
  BY ChatsFinite, FS_Subset
<1>2. ASSUME NEW p \in relayed PROVE IsFiniteSet(Chats(p))
  <2>1. held[p] \in Nat
    OBVIOUS
  <2>2. IsFiniteSet({p})
    BY FS_Singleton
  <2> DEFINE n == held[p]
  <2>3. n \in Nat
    BY <2>1
  <2> HIDE DEF n
  <2>4. IsFiniteSet(1..n)
    BY <2>3, FS_Interval
  <2> DEFINE A == {p}  B == 1..held[p]
  <2>5. IsFiniteSet(A) /\ IsFiniteSet(B)
    BY <2>2, <2>4 DEF n
  <2> HIDE DEF A, B
  <2>6. IsFiniteSet(A \X B)
    BY <2>5, FS_Product
  <2> QED BY <2>6 DEF A, B
<1>3. IsFiniteSet({Chats(p) : p \in relayed})
  <2> DEFINE T == {Chats(p) : p \in relayed}  f == [p \in relayed |-> Chats(p)]
  <2>1. f \in Surjection(relayed, T)
    BY DEF Surjection
  <2> HIDE DEF T, f, relayed
  <2>2. IsFiniteSet(T)
    BY <1>1, <2>1, FS_Surjection
  <2> QED BY <2>2 DEF T
<1>4. IsFiniteSet(all)
  BY <1>2, <1>3, FS_UNION
<1>5. Cardinality(all) \in Nat
  BY <1>4, FS_CardinalityType
<1>6. RelayedReceipts(R) = Receipts(Cardinality(all))
  BY DEF RelayedReceipts
<1>7. Adds(RelayedReceipts(R), {})
  BY <1>5, <1>6, AddsNothing
<1>8. Adds(RelayedReceipts(R) \o cmds, {} \cup S)
  BY <1>7, AddsConcat
<1> QED BY <1>7, <1>8

-----------------------------------------------------------------------------
(***************************************************************************)
(* What a step does to the messages and the lane.                          *)
(***************************************************************************)

\* Commands are answered or cut off at the front, the messages S move from the
\* outbox to the end of the lane, others may leave the outbox.
LaneMoves(rest, S, add) ==
    /\ S \in SUBSET outbox /\ LeftOf(asked, rest) /\ Adds(add, S)
    /\ asked' = rest \o add /\ findNick' = findNick
    /\ outbox' \subseteq outbox \ S

\* The rows are the same ones, some of them may be marked as read.
RowsKept ==
    /\ messages' \in Seq(Row) /\ Len(messages') = Len(messages)
    /\ \A i \in 1..Len(messages) : messages'[i].status \in {messages[i].status, "Read"}
FateKept == fate' \in Seq(Fates) /\ Len(fate') = Len(fate)

\* An answer to a STORE, or any change of the lane, of the rows still waited for and
\* of the ids awaiting an answer, of which the oldest may be settled.
LEMMA LaneKeeps ==
    ASSUME LaneInv, NEW rest, NEW S \in SUBSET outbox, NEW add,
           LeftOf(asked, rest), add \in Seq(Command), Carried(add) = S, CarriedOnce(add),
           asked' = rest \o add, outbox' \subseteq outbox \ S,
           findNick' \in Peers \cup {None}, FindsAreNamed',
           \/ pendingRelay' = pendingRelay
           \/ pendingRelay # << >> /\ pendingRelay' = Tail(pendingRelay),
           messages' \in Seq(Row), Len(messages') = Len(messages), FateKept,
           \A i \in 1..Len(messages) :
               messages'[i].status \in {messages[i].status, "Read"} \/ i \notin outbox' \cup Range(pendingRelay')
    PROVE  LaneInv'
<1> USE DEF LaneInv
<1>1. asked' \in Seq(Command) /\ Carried(asked') = Carried(rest) \cup S /\ CarriedOnce(asked')
  BY CarriedConcat DEF LeftOf, OneWayOut
<1>2. Carried(rest) \subseteq Carried(asked)
  BY DEF LeftOf
<1>3. /\ pendingRelay' \in Seq(1..Len(messages)) /\ Range(pendingRelay') \subseteq Range(pendingRelay)
      /\ \A k, l \in DOMAIN pendingRelay' : k < l => pendingRelay'[k] < pendingRelay'[l]
  <2>1. /\ pendingRelay \in Seq(1..Len(messages))
        /\ \A k, l \in DOMAIN pendingRelay : k < l => pendingRelay[k] < pendingRelay[l]
    BY DEF OneWayOut
  <2>2. CASE pendingRelay' = pendingRelay
    <3> HIDE DEF LaneInv
    <3> QED BY <2>1, <2>2
  <2>3. CASE pendingRelay # << >> /\ pendingRelay' = Tail(pendingRelay)
    <3> HIDE DEF LaneInv
    <3> DEFINE q == pendingRelay  t == Tail(pendingRelay)
    <3>1. /\ t \in Seq(1..Len(messages)) /\ Len(t) = Len(q) - 1
          /\ \A k \in 1..Len(t) : t[k] = q[k + 1]
          /\ DOMAIN t = 1..Len(t) /\ DOMAIN q = 1..Len(q) /\ Len(q) \in Nat /\ Len(t) \in Nat
      BY <2>1, <2>3, HeadTailProperties, LenProperties
    <3>2. \A k, l \in DOMAIN q : k < l => q[k] < q[l]
      BY <2>1
    <3>3. pendingRelay' = t
      BY <2>3
    <3> HIDE DEF t, q
    <3>4. \A k \in DOMAIN t : k + 1 \in DOMAIN q /\ t[k] = q[k + 1]
      BY <3>1
    <3>5. Range(t) \subseteq Range(q)
      BY <3>4 DEF Range
    <3>6. \A k, l \in DOMAIN t : k < l => t[k] < t[l]
      <4>1. \A k, l \in DOMAIN t : k < l => k + 1 < l + 1
        BY <3>1
      <4> QED BY <3>2, <3>4, <4>1
    <3>7. /\ pendingRelay' \in Seq(1..Len(messages)) /\ Range(pendingRelay') \subseteq Range(q)
          /\ \A k, l \in DOMAIN pendingRelay' : k < l => pendingRelay'[k] < pendingRelay'[l]
      <4>1. t \in Seq(1..Len(messages))
        BY <3>1
      <4> QED BY <3>3, <3>5, <3>6, <4>1, Zenon
    <3> QED BY <3>7 DEF q
  <2> QED BY <2>2, <2>3
<1>4. OneWayOut'
  BY <1>1, <1>2, <1>3 DEF OneWayOut
<1>5. Range(pendingRelay) \subseteq 1..Len(messages)
  <2>1. \A k \in DOMAIN pendingRelay : pendingRelay[k] \in 1..Len(messages)
    BY LenProperties, ElementOfSeq
  <2> QED BY <2>1 DEF Range
<1>6. WaitingShowsPending'
  BY <1>3, <1>5 DEF WaitingShowsPending
<1>7. CarriedAreWritten'
  BY <1>1, <1>2 DEF CarriedAreWritten
<1> QED BY <1>1, <1>3, <1>4, <1>6, <1>7 DEF FateKept

\* Steps that neither write a message nor settle an id nor ask for a peer.
LEMMA MovesKeep ==
    ASSUME LaneInv, NEW rest, NEW S, NEW add, LaneMoves(rest, S, add),
           RowsKept, FateKept, pendingRelay' = pendingRelay
    PROVE  LaneInv'
<1>1. FindsAreNamed'
  <2>1. /\ HasNoFind(asked) => HasNoFind(rest)
        /\ HasNoFind(add) /\ rest \in Seq(Command) /\ add \in Seq(Command)
    BY DEF LaneMoves, LeftOf, Adds
  <2> QED BY <2>1, NoFindConcat DEF LaneMoves, LaneInv, FindsAreNamed
<1> QED BY <1>1, LaneKeeps DEF LaneMoves, Adds, RowsKept, LaneInv

\* The lane gets FINDs, the last of them for the nickname now being looked up.
LEMMA FindsKeep ==
    ASSUME LaneInv, NEW n \in Nat, NEW ps \in [1..n -> Peers], AskFinds(ps),
           UNCHANGED <<messages, outbox, pendingRelay, fate>>
    PROVE  LaneInv'
<1>1. Len(ps) = n /\ ps \in Seq(Peers) /\ (ps = << >> <=> n = 0)
  OBVIOUS
<1>2. /\ Finds(ps) \in Seq(Command) /\ Carried(Finds(ps)) = {} /\ CarriedOnce(Finds(ps))
  BY PlainCommands DEF Plain, Carried, CarriedOnce
<1>3. LeftOf(asked, asked)
  BY LeftOfLane DEF LaneInv, OneWayOut
<1>4. CASE n = 0
  <2>1. Finds(ps) = << >> /\ findNick' = findNick
    BY <1>1, <1>4 DEF AskFinds, Finds
  <2>2. LaneMoves(asked, {}, << >>)
    BY <1>3, <2>1, AddsNothing DEF LaneMoves, AskFinds
  <2> QED BY <2>2, MovesKeep DEF RowsKept, FateKept, LaneInv
<1>5. CASE n # 0
  <2>1. findNick' \in Peers
    BY <1>1, <1>5 DEF AskFinds
  <2>2. FindsAreNamed'
    BY <2>1, PeersAssumption DEF FindsAreNamed
  <2>3. asked' = asked \o Finds(ps)
    BY DEF AskFinds
  <2> QED BY <1>2, <1>3, <2>1, <2>2, <2>3, LaneKeeps DEF FateKept, LaneInv
<1> QED BY <1>4, <1>5

\* A new message is the last row, and has a fate of its own.
LEMMA RowAdded ==
    ASSUME LaneInv, now \in Nat, NEW p \in Peers, NEW st \in Statuses, NEW f \in Fates,
           NewRow(p, st, f)
    PROVE  /\ messages' \in Seq(Row) /\ Len(messages') = Len(messages) + 1
           /\ \A i \in 1..Len(messages) : messages'[i] = messages[i]
           /\ messages'[Len(messages) + 1].status = st
           /\ fate' \in Seq(Fates) /\ Len(fate') = Len(messages) + 1
           /\ Len(messages) \in Nat
<1> DEFINE r == [peer |-> p, sec |-> now, status |-> st]
<1>1. r \in Row /\ r.status = st
  BY DEF Row
<1> HIDE DEF r
<1>2. /\ Append(messages, r) \in Seq(Row) /\ Len(Append(messages, r)) = Len(messages) + 1
      /\ \A i \in 1..Len(messages) : Append(messages, r)[i] = messages[i]
      /\ Append(messages, r)[Len(messages) + 1] = r /\ Len(messages) \in Nat
  BY <1>1, AppendProperties, LenProperties DEF LaneInv
<1>3. Append(fate, f) \in Seq(Fates) /\ Len(Append(fate, f)) = Len(fate) + 1
  BY AppendProperties DEF LaneInv
<1>4. messages' = Append(messages, r) /\ fate' = Append(fate, f)
  BY DEF NewRow, Saved, r
<1> QED BY <1>1, <1>2, <1>3, <1>4 DEF LaneInv

\* Ids waiting for the relay's answer stay within the rows when a row is added.
LEMMA PendingWithin ==
    ASSUME LaneInv
    PROVE  /\ pendingRelay \in Seq(1..(Len(messages) + 1))
           /\ Range(pendingRelay) \subseteq 1..Len(messages)
           /\ DOMAIN pendingRelay = 1..Len(pendingRelay) /\ Len(pendingRelay) \in Nat
<1>1. /\ DOMAIN pendingRelay = 1..Len(pendingRelay) /\ Len(pendingRelay) \in Nat
      /\ pendingRelay \in [1..Len(pendingRelay) -> 1..Len(messages)]
      /\ Len(messages) \in Nat
  BY LenProperties DEF LaneInv
<1>2. pendingRelay \in [1..Len(pendingRelay) -> 1..(Len(messages) + 1)]
  BY <1>1
<1>3. pendingRelay \in Seq(1..(Len(messages) + 1))
  BY <1>1, <1>2
<1> QED BY <1>1, <1>3 DEF Range

\* A new message that waits in the outbox.
LEMMA QueuedKeeps ==
    ASSUME LaneInv, now \in Nat, NEW p \in Peers, NewRow(p, "Pending", "kept"),
           outbox' = outbox \cup {Len(messages) + 1}, UNCHANGED <<asked, findNick, pendingRelay>>
    PROVE  LaneInv'
<1> USE DEF LaneInv
<1>1. /\ messages' \in Seq(Row) /\ Len(messages') = Len(messages) + 1
      /\ \A i \in 1..Len(messages) : messages'[i] = messages[i]
      /\ messages'[Len(messages) + 1].status = "Pending"
      /\ fate' \in Seq(Fates) /\ Len(fate') = Len(messages) + 1 /\ Len(messages) \in Nat
  BY RowAdded DEF Statuses, Fates
<1> DEFINE n == Len(messages) + 1
<1>2. /\ n \in Nat /\ n \notin 1..Len(messages) /\ 1..Len(messages) \subseteq 1..n /\ n \in 1..n
  BY <1>1
<1>3. pendingRelay \in Seq(1..n) /\ Range(pendingRelay) \subseteq 1..Len(messages)
  BY PendingWithin
<1>4. OneWayOut'
  BY <1>2, <1>3 DEF OneWayOut, CarriedAreWritten
<1>5. WaitingShowsPending'
  BY <1>1, <1>3 DEF WaitingShowsPending
<1>6. CarriedAreWritten' /\ FindsAreNamed'
  BY <1>1, <1>2 DEF CarriedAreWritten, FindsAreNamed
<1> QED BY <1>1, <1>2, <1>3, <1>4, <1>5, <1>6

\* A new message written to the connections.
LEMMA SentKeeps ==
    ASSUME LaneInv, now \in Nat, NEW p \in Peers, NEW f \in Fates, NewRow(p, "Sent", f),
           UNCHANGED <<outbox, asked, findNick, pendingRelay>>
    PROVE  LaneInv'
<1> USE DEF LaneInv
<1>1. /\ messages' \in Seq(Row) /\ Len(messages') = Len(messages) + 1
      /\ \A i \in 1..Len(messages) : messages'[i] = messages[i]
      /\ fate' \in Seq(Fates) /\ Len(fate') = Len(messages) + 1 /\ Len(messages) \in Nat
  BY RowAdded DEF Statuses
<1> DEFINE n == Len(messages) + 1
<1>2. 1..Len(messages) \subseteq 1..n
  BY <1>1
<1>3. pendingRelay \in Seq(1..n) /\ Range(pendingRelay) \subseteq 1..Len(messages)
  BY PendingWithin
<1>4. OneWayOut'
  BY DEF OneWayOut
<1>5. WaitingShowsPending'
  BY <1>1, <1>3 DEF WaitingShowsPending
<1>6. CarriedAreWritten' /\ FindsAreNamed'
  BY <1>1, <1>2 DEF CarriedAreWritten, FindsAreNamed
<1> QED BY <1>1, <1>2, <1>3, <1>4, <1>5, <1>6

\* A new message given to the relay: its id is the largest of those that await an answer.
LEMMA RelayedKeeps ==
    ASSUME LaneInv, now \in Nat, NEW p \in Peers, NewRow(p, "Pending", "flying"),
           pendingRelay' = Append(pendingRelay, Len(messages) + 1),
           Ask(<<Store(Len(messages) + 1)>>), UNCHANGED outbox
    PROVE  LaneInv'
<1> USE DEF LaneInv
<1> DEFINE n == Len(messages) + 1
<1>1. /\ messages' \in Seq(Row) /\ Len(messages') = n
      /\ \A i \in 1..Len(messages) : messages'[i] = messages[i]
      /\ messages'[n].status = "Pending"
      /\ fate' \in Seq(Fates) /\ Len(fate') = n /\ Len(messages) \in Nat
  BY RowAdded DEF Statuses, Fates
<1>2. /\ n \in Nat /\ n # 0 /\ n \notin 1..Len(messages) /\ 1..Len(messages) \subseteq 1..n
      /\ n \in 1..n /\ \A i \in 1..Len(messages) : i < n
  BY <1>1
<1>3. /\ pendingRelay \in Seq(1..n) /\ Range(pendingRelay) \subseteq 1..Len(messages)
      /\ DOMAIN pendingRelay = 1..Len(pendingRelay) /\ Len(pendingRelay) \in Nat
  BY PendingWithin
<1>4. asked' = asked \o <<Store(n)>> /\ findNick' = findNick
  BY DEF Ask
<1>5. pendingRelay' = Append(pendingRelay, n)
  OBVIOUS
<1> HIDE DEF n
<1>6. <<Store(n)>> \in Seq(Command) /\ Carried(<<Store(n)>>) = {n} /\ CarriedOnce(<<Store(n)>>)
      /\ HasNoFind(<<Store(n)>>)
  <2>1. <<Store(n)>> \in [1..1 -> Command] /\ <<Store(n)>>[1] = Store(n)
    BY <1>2, CommandFields
  <2>2. StoredAt(<<Store(n)>>) = {1}
    BY <1>2, <2>1 DEF StoredAt, Store
  <2>3. Carried(<<Store(n)>>) = {n}
    <3>1. Store(n).msg = n
      BY <1>2, CommandFields
    <3> QED BY <2>1, <2>2, <3>1 DEF Carried
  <2>4. CarriedOnce(<<Store(n)>>)
    BY <2>2 DEF CarriedOnce
  <2>5. HasNoFind(<<Store(n)>>)
    BY <2>1 DEF HasNoFind, Store
  <2>6. <<Store(n)>> \in Seq(Command)
    BY <1>2, CommandFields
  <2> QED BY <2>3, <2>4, <2>5, <2>6
<1>7. n \notin Carried(asked)
  BY <1>2 DEF CarriedAreWritten
<1>8. /\ asked' \in Seq(Command) /\ Carried(asked') = Carried(asked) \cup {n}
      /\ CarriedOnce(asked')
  <2> DEFINE t == <<Store(n)>>
  <2>1. t \in Seq(Command) /\ Carried(t) = {n} /\ CarriedOnce(t) /\ asked' = asked \o t
    BY <1>4, <1>6
  <2> HIDE DEF t
  <2>2. Carried(asked) \cap Carried(t) = {} /\ CarriedOnce(asked)
    BY <1>7, <2>1 DEF OneWayOut
  <2> QED BY <2>1, <2>2, CarriedConcat
<1>9. /\ pendingRelay' \in Seq(1..n) /\ Range(pendingRelay') = Range(pendingRelay) \cup {n}
      /\ \A k, l \in DOMAIN pendingRelay' : k < l => pendingRelay'[k] < pendingRelay'[l]
  <2> DEFINE q == Append(pendingRelay, n)
  <2>1. /\ q \in Seq(1..n) /\ Len(q) = Len(pendingRelay) + 1
        /\ \A k \in 1..Len(pendingRelay) : q[k] = pendingRelay[k]
        /\ q[Len(pendingRelay) + 1] = n /\ DOMAIN q = 1..(Len(pendingRelay) + 1)
    BY <1>2, <1>3, AppendProperties, LenProperties
  <2> HIDE DEF q
  <2>2. Range(q) = Range(pendingRelay) \cup {n}
    <3>1. \A k \in DOMAIN q : k \in DOMAIN pendingRelay \/ k = Len(pendingRelay) + 1
      BY <1>3, <2>1
    <3>2. DOMAIN pendingRelay \subseteq DOMAIN q /\ Len(pendingRelay) + 1 \in DOMAIN q
      BY <1>3, <2>1
    <3>3. \A k \in DOMAIN pendingRelay : q[k] = pendingRelay[k]
      BY <1>3, <2>1
    <3>4. q[Len(pendingRelay) + 1] = n
      BY <2>1
    <3> QED BY <3>1, <3>2, <3>3, <3>4 DEF Range
  <2>3. \A k \in DOMAIN pendingRelay : pendingRelay[k] \in 1..Len(messages)
    BY <1>3 DEF Range
  <2>4. ASSUME NEW k \in DOMAIN q, NEW l \in DOMAIN q, k < l
        PROVE  q[k] < q[l]
    <3>1. k \in DOMAIN pendingRelay
      BY <1>3, <2>1, <2>4
    <3>2. CASE l \in DOMAIN pendingRelay
      BY <1>3, <2>1, <2>4, <3>1, <3>2 DEF OneWayOut
    <3>3. CASE l = Len(pendingRelay) + 1
      BY <1>2, <1>3, <2>1, <2>3, <3>1, <3>3
    <3> QED BY <1>3, <2>1, <3>2, <3>3
  <2> QED BY <1>5, <2>1, <2>2, <2>4 DEF q
<1>10. OneWayOut'
  BY <1>2, <1>3, <1>8, <1>9 DEF OneWayOut
<1>11. WaitingShowsPending'
  BY <1>1, <1>3, <1>9 DEF WaitingShowsPending
<1>12. CarriedAreWritten'
  BY <1>1, <1>2, <1>8 DEF CarriedAreWritten
<1>13. FindsAreNamed'
  BY <1>4, <1>6, NoFindConcat DEF FindsAreNamed
<1> QED BY <1>1, <1>2, <1>4, <1>8, <1>9, <1>10, <1>11, <1>12, <1>13

\* A flush of outbox rows, for the rest of the lane and with or without plain commands
\* around it, moves those rows.
LEMMA FlushMoves ==
    ASSUME LaneInv, NEW rest, LeftOf(asked, rest), NEW S \in SUBSET outbox,
           NEW cmds \in FlushCommands(S), NEW more, Adds(more, {}),
           asked' = rest \o cmds \/ asked' = rest \o (cmds \o more) \/ asked' = rest \o (more \o cmds),
           findNick' = findNick, outbox' = outbox \ S
    PROVE  \E add : LaneMoves(rest, S, add)
<1>1. Adds(cmds, S)
  BY FlushAdds
<1>2. Adds(cmds \o more, S \cup {}) /\ Adds(more \o cmds, {} \cup S)
  BY <1>1, AddsConcat
<1> QED BY <1>1, <1>2 DEF LaneMoves

\* Plain commands.
LEMMA PlainMoves ==
    ASSUME LaneInv, NEW rest, LeftOf(asked, rest), NEW add, Adds(add, {}),
           asked' = rest \o add, findNick' = findNick, outbox' \subseteq outbox
    PROVE  LaneMoves(rest, {}, add)
BY DEF LaneMoves

\* Nothing happens to the messages and the lane.
LEMMA LaneUntouched ==
    ASSUME LaneInv, UNCHANGED <<messages, outbox, asked, findNick, pendingRelay, fate>>
    PROVE  LaneInv'
BY DEF LaneInv, OneWayOut, WaitingShowsPending, FindsAreNamed, CarriedAreWritten

\* Plain commands, with nothing else.
LEMMA PlainKeeps ==
    ASSUME LaneInv, NEW rest, LeftOf(asked, rest), NEW add, Adds(add, {}),
           asked' = rest \o add, findNick' = findNick,
           UNCHANGED <<messages, outbox, pendingRelay, fate>>
    PROVE  LaneInv'
<1>1. LaneMoves(rest, {}, add)
  BY PlainMoves
<1> QED BY <1>1, MovesKeep DEF RowsKept, FateKept, LaneInv

\* What remains of the lane when the oldest command was answered, or none.
LEMMA Remains ==
    ASSUME LaneInv
    PROVE  /\ LeftOf(asked, asked)
           /\ asked # << >> => LeftOf(asked, Tail(asked))
           /\ \A op, cmds : Answered(op, cmds) =>
                  LeftOf(asked, Tail(asked)) /\ asked' = Tail(asked) \o cmds
                  /\ findNick' = findNick /\ linked' = linked
BY LeftOfLane DEF LaneInv, OneWayOut, Answered, Due

\* An answer that is followed by plain commands, or by none.
LEMMA AnswerKeeps ==
    ASSUME LaneInv, NEW op, NEW add, Answered(op, add), Adds(add, {}),
           UNCHANGED <<messages, outbox, pendingRelay, fate>>
    PROVE  LaneInv'
BY Remains, PlainKeeps

\* p2p_failed, with a session and without.
LEMMA FallBackKeeps ==
    ASSUME LaneInv, CountersOK, NEW p \in Peers, FallBack(p), UNCHANGED <<messages, pendingRelay>>
    PROVE  LaneInv' /\ mode' \in [Peers -> Modes] /\ linked' = linked
<1>1. mode' \in [Peers -> Modes]
  BY DEF FallBack, CountersOK, Modes
<1>2. FateKept /\ RowsKept
  BY FatesOfType DEF FallBack, FlushToRelay, FateKept, RowsKept, LaneInv, Fates
<1>3. Waiting(p) \subseteq outbox
  BY DEF Waiting
<1>4. CASE Ready(p)
  <2>1. PICK cmds \in FlushCommands(Waiting(p)) : Ask(cmds)
    BY <1>4 DEF FallBack
  <2>2. asked' = asked \o cmds /\ findNick' = findNick /\ linked' = linked
        /\ outbox' = outbox \ Waiting(p)
    BY <1>4, <2>1 DEF FallBack, Ask, FlushToRelay
  <2>3. \E add : LaneMoves(asked, Waiting(p), add)
    BY <1>3, <2>2, Remains, FlushMoves, AddsNothing
  <2> QED BY <1>1, <1>2, <2>2, <2>3, MovesKeep
<1>5. CASE ~Ready(p)
  <2>1. UNCHANGED linkVars /\ outbox' = outbox \ Waiting(p)
    BY <1>5 DEF FallBack
  <2>2. asked \o << >> = asked
    BY DEF LaneInv
  <2>3. LaneMoves(asked, {}, << >>)
    BY <2>1, <2>2, Remains, PlainMoves, AddsNothing DEF linkVars
  <2> QED BY <1>1, <1>2, <2>1, <2>3, MovesKeep DEF linkVars
<1> QED BY <1>4, <1>5

\* The flush of all_connections_lost, and what leads to it, keep the types of modes.
LEMMA ModesOfLost ==
    ASSUME NEW m \in [Peers -> Modes], NEW emitted \in BOOLEAN, NEW S
    PROVE  LostModes(m, emitted) \in [Peers -> Modes] /\ Touched(m, S) \in [Peers -> Modes]
BY DEF LostModes, AllToRelay, Touched, Modes

LEMMA LostRowsQueued == \A m, emitted : LostRows(m, emitted) \subseteq outbox
BY DEF LostRows, Flushable

\* A chat or a read receipt.
LEMMA HandleKeeps ==
    ASSUME LaneInv, CountersOK, NEW f \in Chat, NEW i, Handle(f, i)
    PROVE  RowsKept /\ received' \in [Chat -> Nat]
<1>1. CASE i = 0
  <2>1. messages' = messages /\ received' = [received EXCEPT ![f] = @ + 1]
    BY <1>1 DEF Handle
  <2>2. received' \in [Chat -> Nat]
    BY <2>1 DEF CountersOK
  <2>3. RowsKept
    BY <2>1 DEF RowsKept, LaneInv
  <2> QED BY <2>2, <2>3
<1>2. CASE i # 0
  BY <1>2, MarkedReadRows DEF Handle, RowsKept, LaneInv, CountersOK
<1> QED BY <1>1, <1>2

\* The chats that have come in are counted.
LEMMA ArrivesCounts ==
    ASSUME CountersOK, NEW f \in Chat, Arrives(f) \/ UNCHANGED arrived
    PROVE  arrived' \in [Chat -> Nat]
BY DEF CountersOK, Arrives

\* try_decrypt_pending keeps the counts of messages.
LEMMA ReleaseCounts ==
    ASSUME CountersOK, NEW S, Release(S)
    PROVE  held' \in [Chat -> Nat] /\ received' \in [Chat -> Nat]
BY DEF CountersOK, Release

-----------------------------------------------------------------------------
(***************************************************************************)
(* Every action keeps the inductive invariant.                             *)
(***************************************************************************)

\* What a step leaves true: its connections' half is one of Network_Manager's
\* operations, and the other halves hold afterwards.
Kept == NetStep /\ SessionsTyped /\ LaneInv' /\ CountersOK'

LEMMA SameSession ==
    ASSUME NetInv, session' = session PROVE SessionsTyped
BY DEF NetInv, SessionsTyped

LEMMA UserKeeps ==
    ASSUME IInv, UserOrTimer
    PROVE  Kept
<1> USE DEF IInv
<1>1. ASSUME NEW p \in Peers, SendQueued(p)
      PROVE  Kept
  <2>1. NetStep
    BY <1>1 DEF SendQueued, NetStep
  <2>2. LaneInv'
    BY <1>1, QueuedKeeps DEF SendQueued, CountersOK, linkVars
  <2>3. CountersOK'
    BY <1>1, ModesOfLost DEF SendQueued, CountersOK, linkVars
  <2> QED BY <1>1, <2>1, <2>2, <2>3, SameSession DEF Kept, SendQueued
<1>2. ASSUME NEW p \in Peers, SendRelayed(p)
      PROVE  Kept
  <2>1. NetStep
    BY <1>2 DEF SendRelayed, NetStep
  <2>2. LaneInv'
    BY <1>2, RelayedKeeps DEF SendRelayed, CountersOK
  <2>3. CountersOK'
    BY <1>2 DEF SendRelayed, CountersOK, Ask
  <2> QED BY <1>2, <2>1, <2>2, <2>3, SameSession DEF Kept, SendRelayed
<1>3. ASSUME NEW p \in Peers, SendDirect(p)
      PROVE  Kept
  <2>1. NetStep
    BY <1>3 DEF SendDirect, NetStep
  <2>2. PICK f \in Fates : NewRow(p, "Sent", f)
    BY <1>3 DEF SendDirect, Fates
  <2>3. LaneInv'
    BY <1>3, <2>2, SentKeeps DEF SendDirect, CountersOK, linkVars
  <2>4. CountersOK'
    BY <1>3, ModesOfLost DEF SendDirect, CountersOK, linkVars
  <2> QED BY <1>3, <2>1, <2>3, <2>4, SameSession DEF Kept, SendDirect
<1>4. ASSUME NEW p \in Peers, FindPeer(p)
      PROVE  Kept
  <2>1. NetStep
    BY <1>4 DEF FindPeer, NetStep, coreVars
  <2>2. <<p>> \in [1..1 -> Peers] /\ 1 \in Nat
    OBVIOUS
  <2>3. LaneInv'
    BY <1>4, <2>2, FindsKeep DEF FindPeer, dbVars, coreVars
  <2>4. CountersOK'
    BY <1>4 DEF FindPeer, CountersOK, dbVars, coreVars, AskFinds
  <2> QED BY <1>4, <2>1, <2>3, <2>4, SameSession DEF Kept, FindPeer, coreVars
<1>5. ASSUME NEW p \in Peers, Join(p)
      PROVE  Kept
  <2>1. NetStep
    BY <1>5 DEF Join, NetStep
  <2>2. CASE FallBack(p)
    <3>1. LaneInv' /\ mode' \in [Peers -> Modes] /\ linked' = linked
      BY <1>5, <2>2, FallBackKeeps DEF Join
    <3>2. CountersOK'
      BY <1>5, <3>1 DEF Join, CountersOK
    <3> QED BY <1>5, <2>1, <3>1, <3>2, SameSession DEF Kept, Join
  <2>3. CASE UNCHANGED <<linkVars, mode, outbox, fate>>
    <3>1. LaneInv'
      BY <1>5, <2>3, LaneUntouched DEF Join, linkVars
    <3>2. CountersOK'
      BY <1>5, <2>3 DEF Join, CountersOK, linkVars
    <3> QED BY <1>5, <2>1, <3>1, <3>2, SameSession DEF Kept, Join
  <2> QED BY <1>5, <2>2, <2>3 DEF Join
<1>6. ASSUME PollRelay
      PROVE  Kept
  <2>1. NetStep
    BY <1>6 DEF PollRelay, NetStep, coreVars
  <2>2. LaneInv'
    BY <1>6, Remains, PlainKeeps, AddsNothing DEF PollRelay, Ask, dbVars, coreVars
  <2>3. CountersOK'
    BY <1>6 DEF PollRelay, CountersOK, dbVars, coreVars, Ask
  <2> QED BY <1>6, <2>1, <2>2, <2>3, SameSession DEF Kept, PollRelay, coreVars
<1>7. ASSUME RetryP2P
      PROVE  Kept
  <2>1. NetStep
    BY <1>7 DEF RetryP2P, NetStep
  <2> DEFINE relayed == {p \in Peers : mode[p] = "relay"}
  <2>2. PICK order \in Listings(relayed) : AskFinds(order)
    BY <1>7 DEF RetryP2P
  <2>3. Cardinality(relayed) \in Nat
    BY FS_Subset, FS_CardinalityType
  <2>4. order \in [1..Cardinality(relayed) -> Peers]
    BY <2>2 DEF Listings, Bijection, Injection, Surjection
  <2>5. LaneInv'
    BY <1>7, <2>2, <2>3, <2>4, FindsKeep DEF RetryP2P, dbVars
  <2>6. mode' \in [Peers -> Modes]
    BY <1>7 DEF RetryP2P, CountersOK, Modes
  <2>7. CountersOK'
    BY <1>7, <2>2, <2>6 DEF RetryP2P, CountersOK, dbVars, AskFinds
  <2> QED BY <1>7, <2>1, <2>5, <2>7, SameSession DEF Kept, RetryP2P
<1>8. ASSUME Tick
      PROVE  Kept
  <2>1. NetStep
    BY <1>8 DEF Tick, NetStep
  <2>2. LaneInv'
    BY <1>8, LaneUntouched DEF Tick, dbVars, linkVars
  <2>3. CountersOK'
    BY <1>8 DEF Tick, CountersOK, dbVars, linkVars
  <2> QED BY <1>8, <2>1, <2>2, <2>3, SameSession DEF Kept, Tick
<1> QED BY <1>1, <1>2, <1>3, <1>4, <1>5, <1>6, <1>7, <1>8 DEF UserOrTimer

\* An answer to FIND is about a peer, and taken for one.
LEMMA FoundPeers ==
    ASSUME LaneInv, Due("FIND")
    PROVE  findNick \in Peers /\ Head(asked).peer \in Peers
<1>1. asked # << >> /\ Head(asked).op = "FIND" /\ asked \in Seq(Command)
  BY DEF Due, LaneInv
<1>2. Head(asked) \in Command /\ 1 \in DOMAIN asked /\ Head(asked) = asked[1]
  BY <1>1, HeadTailProperties, LenProperties, EmptySeq
<1>3. ~HasNoFind(asked)
  BY <1>1, <1>2 DEF HasNoFind
<1> QED BY <1>1, <1>2, <1>3, CommandFields DEF FindsAreNamed, LaneInv

\* An answer to a STORE settles the oldest id awaiting one, which nothing else waits for.
LEMMA StoreAnsweredKeeps ==
    ASSUME LaneInv, NEW ok \in BOOLEAN, StoreAnswered(ok)
    PROVE  LaneInv'
<1> USE DEF LaneInv
<1>1. /\ LeftOf(asked, Tail(asked)) /\ asked' = Tail(asked) \o << >>
      /\ findNick' = findNick /\ outbox' = outbox
  BY Remains DEF StoreAnswered
<1>2. FateKept
  <2>1. PICK f \in Fates : fate' = FatesOf({Head(asked).msg}, f)
    BY DEF StoreAnswered, Fates
  <2> QED BY <2>1, FatesOfType DEF FateKept
<1>3. FindsAreNamed'
  <2>1. HasNoFind(asked) => HasNoFind(asked')
    BY <1>1, AddsNothing, NoFindConcat DEF LeftOf, Adds
  <2> QED BY <1>1, <2>1 DEF FindsAreNamed
<1>4. CASE pendingRelay = << >>
  <2>1. messages' = messages /\ pendingRelay' = pendingRelay
    BY <1>4 DEF StoreAnswered
  <2>2. LaneMoves(Tail(asked), {}, << >>)
    BY <1>1, AddsNothing DEF LaneMoves
  <2> QED BY <1>2, <2>1, <2>2, MovesKeep DEF RowsKept
<1>5. CASE pendingRelay # << >>
  <2> DEFINE st == IF ok THEN "Sent" ELSE "Failed"  id == Head(pendingRelay)
             t == Tail(pendingRelay)  q == pendingRelay
  <2>1. messages' = [messages EXCEPT ![id].status = st] /\ pendingRelay' = t
    BY <1>5 DEF StoreAnswered, WithStatus
  <2>2. /\ id = q[1] /\ 1 \in DOMAIN q /\ id \in 1..Len(messages)
        /\ Len(t) = Len(q) - 1 /\ DOMAIN t = 1..Len(t) /\ DOMAIN q = 1..Len(q)
        /\ \A k \in 1..Len(t) : t[k] = q[k + 1]
        /\ Len(q) \in Nat /\ Len(t) \in Nat
    BY <1>5, HeadTailProperties, LenProperties, EmptySeq
  <2>3. id \notin outbox
    BY <2>2 DEF OneWayOut, Range
  <2>4. id \notin Range(t)
    <3>1. \A k, l \in DOMAIN q : k < l => q[k] < q[l]
      BY DEF OneWayOut
    <3>2. \A k \in DOMAIN q : q[k] \in Nat
      BY LenProperties, ElementOfSeq
    <3> HIDE DEF q, t, id
    <3>3. \A k \in DOMAIN t : 1 < k + 1 /\ k + 1 \in DOMAIN q
      BY <2>2
    <3>4. ASSUME NEW k \in DOMAIN t PROVE t[k] # id
      <4>1. q[1] < q[k + 1] /\ q[1] \in Nat
        BY <2>2, <3>1, <3>2, <3>3
      <4> QED BY <2>2, <4>1
    <3> QED BY <3>4 DEF Range
  <2>5. /\ messages' \in Seq(Row) /\ Len(messages') = Len(messages)
        /\ \A i \in 1..Len(messages) : i # id => messages'[i] = messages[i]
    <3>1. /\ messages \in [1..Len(messages) -> Row] /\ Len(messages) \in Nat
          /\ DOMAIN messages = 1..Len(messages)
      BY LenProperties
    <3>2. st \in Statuses
      BY DEF Statuses
    <3> HIDE DEF st, id
    <3> DEFINE m == [messages EXCEPT ![id].status = st]
    <3>3. m \in [1..Len(messages) -> Row]
      <4>1. \A i \in 1..Len(messages) : m[i] = messages[i] \/ m[i] = [messages[i] EXCEPT !.status = st]
        BY <3>1
      <4>2. \A r \in Row : [r EXCEPT !.status = st] \in Row
        BY <3>2 DEF Row
      <4>3. m = [i \in 1..Len(messages) |-> m[i]]
        BY <3>1
      <4> HIDE DEF m
      <4>4. \A i \in 1..Len(messages) : m[i] \in Row
        BY <3>1, <4>1, <4>2
      <4> QED BY <4>3, <4>4
    <3>4. messages' \in Seq(Row) /\ Len(messages') = Len(messages)
      BY <2>1, <3>1, <3>3
    <3> QED BY <2>1, <3>1, <3>4
  <2> HIDE DEF st, id
  <2>6. /\ << >> \in Seq(Command) /\ Carried(<< >>) = {} /\ CarriedOnce(<< >>)
    BY AddsNothing DEF Adds
  <2>7. \A i \in 1..Len(messages) :
            \/ messages'[i].status \in {messages[i].status, "Read"}
            \/ i \notin outbox' \cup Range(pendingRelay')
    BY <1>1, <2>1, <2>3, <2>4, <2>5
  <2>8. outbox' \subseteq outbox \ {} /\ {} \in SUBSET outbox /\ findNick' \in Peers \cup {None}
    BY <1>1
  <2>9. pendingRelay # << >> /\ pendingRelay' = Tail(pendingRelay)
    BY <1>5, <2>1
  <2> QED BY <1>1, <1>2, <1>3, <2>5, <2>6, <2>7, <2>8, <2>9, LaneKeeps
<1> QED BY <1>4, <1>5

\* The handler of user_found for a peer whose claim proved true.
LEMMA ClaimTrueKeeps ==
    ASSUME IInv, ClaimTrue
    PROVE  Kept
<1> USE DEF IInv
<1> DEFINE n == findNick  others == {f \in Releasable : f.as # n}  add == RelayedReceipts(others)
<1>1. n \in Peers /\ Head(asked).peer \in Peers
  BY FoundPeers DEF ClaimTrue
<1>2. verifying[n] # None /\ verifying' = [verifying EXCEPT ![n] = None] /\ Confirm(n)
      /\ session' = AdoptKey(n, Head(asked).peer)
  BY DEF ClaimTrue
<1>3. NetStep
  BY <1>1, <1>2 DEF NetStep
<1>4. SessionsTyped
  BY <1>1, <1>2, LearnsKeep
<1>5. Adds(add, {})
  <2>1. others \in SUBSET Chat
    BY DEF Releasable
  <2> QED BY <2>1, ReceiptsAdd, AddsNothing DEF CountersOK
<1>6. Answered("FIND", add) /\ outbox' = outbox \ Waiting(n) /\ messages' = messages
      /\ fate' = FatesOf(Waiting(n), "dropped") /\ pendingRelay' = pendingRelay
  BY DEF ClaimTrue
<1>7. LaneMoves(Tail(asked), {}, add)
  BY <1>5, <1>6, Remains, PlainMoves
<1>8. RowsKept /\ FateKept
  BY <1>6, FatesOfType DEF RowsKept, FateKept, LaneInv, Fates
<1>9. LaneInv'
  BY <1>6, <1>7, <1>8, MovesKeep
<1>10. mode' \in [Peers -> Modes]
  <2>1. Touched(mode, Senders(Releasable)) \in [Peers -> Modes]
    BY ModesOfLost DEF CountersOK
  <2> QED BY <2>1 DEF ClaimTrue, Modes
<1>11. CountersOK'
  BY <1>6, <1>10, ReleaseCounts DEF ClaimTrue, CountersOK, Answered
<1> QED BY <1>3, <1>4, <1>9, <1>11 DEF Kept

\* The handler of user_found for a contact.
LEMMA ContactFoundKeeps ==
    ASSUME IInv, ContactFound
    PROVE  Kept
<1> USE DEF IInv
<1> DEFINE n == findNick  w == Head(asked).peer
           out == IF ~Ready(n) THEN Releasable ELSE {}
           m == Touched(mode, Senders(out) \cup {n})
<1>1. n \in Peers /\ w \in Peers
  BY FoundPeers DEF ContactFound
<1>2. session' = LearnKey(n, w) /\ Release(out)
      /\ UNCHANGED <<messages, arrived, verifying, pendingRelay, now>>
  BY DEF ContactFound
<1>3. SessionsTyped
  BY <1>1, <1>2, LearnsKeep
<1>4. Adds(RelayedReceipts(out), {})
  <2>1. out \in SUBSET Chat
    BY DEF Releasable
  <2> HIDE DEF out
  <2> QED BY <2>1, ReceiptsAdd, AddsNothing DEF CountersOK
<1>5. m \in [Peers -> Modes]
  BY ModesOfLost DEF CountersOK
<1>6. held' \in [Chat -> Nat] /\ received' \in [Chat -> Nat]
  BY <1>2, ReleaseCounts
<1>7. RowsKept
  BY <1>2 DEF RowsKept, LaneInv
<1>8. CASE /\ mode' = [m EXCEPT ![n] = "relay"] /\ FlushToRelay(Waiting(n))
           /\ \E cmds \in FlushCommands(Waiting(n)) :
                  Answered("FIND", RelayedReceipts(out) \o cmds)
           /\ UNCHANGED netVars
  <2> HIDE DEF out
  <2>1. PICK cmds \in FlushCommands(Waiting(n)) :
            Answered("FIND", RelayedReceipts(out) \o cmds)
    BY <1>8
  <2>2. Waiting(n) \in SUBSET outbox
    BY DEF Waiting
  <2>3. \E add : LaneMoves(Tail(asked), Waiting(n), add)
    BY <1>4, <1>8, <2>1, <2>2, Remains, FlushMoves DEF FlushToRelay
  <2>4. FateKept
    BY <1>8, FatesOfType DEF FlushToRelay, FateKept, LaneInv, Fates
  <2>5. LaneInv'
    BY <1>2, <1>7, <2>3, <2>4, MovesKeep
  <2>6. mode' \in [Peers -> Modes]
    BY <1>5, <1>8 DEF Modes
  <2>7. CountersOK'
    BY <1>2, <1>6, <2>1, <2>6 DEF CountersOK, Answered
  <2>8. NetStep
    BY <1>2, <1>8 DEF NetStep
  <2> QED BY <1>3, <2>5, <2>7, <2>8 DEF Kept
<1>9. CASE /\ mode' = m /\ Answered("FIND", RelayedReceipts(out))
           /\ IF HasConnections THEN UNCHANGED netVars ELSE Dial(n, w)
           /\ UNCHANGED <<outbox, fate>>
  <2> HIDE DEF out
  <2>1. LaneInv'
    BY <1>2, <1>4, <1>9, AnswerKeeps
  <2>2. CountersOK'
    BY <1>2, <1>5, <1>6, <1>9 DEF CountersOK, Answered
  <2>3. NetStep
    BY <1>1, <1>2, <1>9 DEF NetStep
  <2> QED BY <1>3, <2>1, <2>2, <2>3 DEF Kept
<1>10. \/ /\ mode' = [m EXCEPT ![n] = "relay"] /\ FlushToRelay(Waiting(n))
          /\ \E cmds \in FlushCommands(Waiting(n)) :
                 Answered("FIND", RelayedReceipts(out) \o cmds)
          /\ UNCHANGED netVars
       \/ /\ mode' = m /\ Answered("FIND", RelayedReceipts(out))
          /\ IF HasConnections THEN UNCHANGED netVars ELSE Dial(n, w)
          /\ UNCHANGED <<outbox, fate>>
  BY DEF ContactFound
<1> QED BY <1>8, <1>9, <1>10

\* The handler of messages_fetched for a readable blob.
LEMMA FetchedFromKeeps ==
    ASSUME IInv, NEW p \in Peers, NEW i, NEW more \in BOOLEAN, NEW missed \in Missable,
           FetchedFrom(p, i, more, missed)
    PROVE  Kept
<1> USE DEF IInv
<1> DEFINE m == [mode EXCEPT ![p] = "relay"]
           emitted == mode[p] # "relay" /\ CloseAllSignals(missed)
           gone == LostRows(m, emitted)
           reply == IF i = 0 THEN <<Receipt>> ELSE << >>
<1>1. /\ session' = LearnKey(p, p) /\ Handle(Relayed(p), i)
      /\ IF i = 0 THEN Arrives(Relayed(p)) ELSE UNCHANGED arrived
      /\ mode' = LostModes(m, emitted) /\ outbox' = outbox \ gone
      /\ fate' = Acked(FatesOf(gone, "flying"), i)
      /\ UNCHANGED <<held, verifying, pendingRelay, now>>
      /\ IF mode[p] # "relay" THEN CloseAll(missed) ELSE UNCHANGED netVars
  BY DEF FetchedFrom
<1>2. PICK cmds \in FlushCommands(gone) :
          IF more THEN AnsweredInPart("FETCH", cmds \o reply) ELSE Answered("FETCH", cmds \o reply)
  BY DEF FetchedFrom
<1>3. NetStep
  BY <1>1 DEF NetStep
<1>4. SessionsTyped
  BY <1>1, LearnsKeep
<1>5. gone \in SUBSET outbox
  BY LostRowsQueued
<1>6. Adds(reply, {})
  BY AddsNothing
<1>7. mode' \in [Peers -> Modes]
  <2>1. m \in [Peers -> Modes] /\ emitted \in BOOLEAN
    BY DEF CountersOK, Modes
  <2> HIDE DEF m, emitted
  <2> QED BY <1>1, <2>1, ModesOfLost
<1> HIDE DEF reply, gone
<1>8. \E rest : /\ LeftOf(asked, rest) /\ asked' = rest \o (cmds \o reply)
                /\ findNick' = findNick /\ linked' = linked
  BY <1>2, Remains DEF AnsweredInPart
<1>9. \E rest, add : LaneMoves(rest, gone, add)
  BY <1>1, <1>5, <1>6, <1>8, FlushMoves
<1>10. FateKept
  BY <1>1, FatesOfType DEF FateKept, LaneInv, Fates
<1>11. RowsKept /\ received' \in [Chat -> Nat] /\ arrived' \in [Chat -> Nat]
  <2>1. Relayed(p) \in Chat
    BY DEF Relayed, Chat
  <2> QED BY <1>1, <2>1, HandleKeeps, ArrivesCounts
<1>12. LaneInv'
  BY <1>1, <1>9, <1>10, <1>11, MovesKeep
<1>13. CountersOK'
  BY <1>1, <1>7, <1>8, <1>11 DEF CountersOK
<1> QED BY <1>3, <1>4, <1>12, <1>13 DEF Kept

LEMMA ServerKeeps ==
    ASSUME IInv, ServerAnswers
    PROVE  Kept
<1> USE DEF IInv
<1>1. ASSUME NEW op, Answered(op, << >>), UNCHANGED <<dbVars, netVars, coreVars>>
      PROVE  Kept
  <2>1. NetStep
    BY <1>1 DEF NetStep, coreVars
  <2>2. LaneInv'
    BY <1>1, AnswerKeeps, AddsNothing DEF dbVars, coreVars
  <2>3. CountersOK'
    BY <1>1 DEF CountersOK, dbVars, coreVars, Answered
  <2> QED BY <1>1, <2>1, <2>2, <2>3, SameSession DEF Kept, coreVars
<1>2. CASE PeerNotFound \/ NothingFetched
  BY <1>1, <1>2 DEF PeerNotFound, NothingFetched
<1>3. CASE ClaimFalse
  <2>1. NetStep
    <3>1. findNick \in Peers
      BY <1>3, FoundPeers DEF ClaimFalse
    <3> QED BY <1>3, <3>1 DEF ClaimFalse, NetStep
  <2>2. LaneInv'
    BY <1>3, AnswerKeeps, AddsNothing DEF ClaimFalse, dbVars
  <2>3. CountersOK'
    BY <1>3 DEF ClaimFalse, CountersOK, dbVars, Answered
  <2> QED BY <1>3, <2>1, <2>2, <2>3, SameSession DEF Kept, ClaimFalse
<1>4. ASSUME NEW ok \in BOOLEAN, StoreAnswered(ok)
      PROVE  Kept
  <2>1. NetStep
    BY <1>4 DEF StoreAnswered, NetStep
  <2>2. CountersOK'
    BY <1>4 DEF StoreAnswered, CountersOK, Answered
  <2> QED BY <1>4, <2>1, <2>2, StoreAnsweredKeeps, SameSession DEF Kept, StoreAnswered
<1>5. ASSUME NEW nat \in BOOLEAN, Registered(nat)
      PROVE  Kept
  <2>1. skip \in BOOLEAN
    BY DEF NetInv, NetTypeOK
  <2>2. NetStep
    BY <1>5, <2>1 DEF Registered, NetStep, coreVars
  <2>3. LaneInv'
    BY <1>5, AnswerKeeps, AddsNothing DEF Registered, dbVars, coreVars
  <2>4. CountersOK'
    BY <1>5 DEF Registered, CountersOK, dbVars, coreVars, Answered
  <2> QED BY <1>5, <2>2, <2>3, <2>4, SameSession DEF Kept, Registered, coreVars
<1>6. ASSUME NEW w \in Peers, NEW more \in BOOLEAN, FetchedUnreadable(w, more)
      PROVE  Kept
  <2>1. /\ Arrives(Relayed(w)) \/ UNCHANGED arrived
        /\ UNCHANGED <<dbVars, netVars, session, mode, held, verifying, pendingRelay, now, fate>>
    BY <1>6 DEF FetchedUnreadable
  <2>2. NetStep
    BY <2>1 DEF NetStep
  <2>3. \E rest : /\ LeftOf(asked, rest) /\ asked' = rest \o << >>
                  /\ findNick' = findNick /\ linked' = linked
    BY <1>6, Remains DEF FetchedUnreadable, AnsweredInPart
  <2>4. LaneInv'
    BY <2>1, <2>3, PlainKeeps, AddsNothing DEF dbVars
  <2>5. arrived' \in [Chat -> Nat]
    <3>1. Relayed(w) \in Chat
      BY DEF Relayed, Chat
    <3> QED BY <2>1, <3>1, ArrivesCounts
  <2>6. CountersOK'
    BY <2>1, <2>3, <2>5 DEF CountersOK, dbVars
  <2> QED BY <2>1, <2>2, <2>4, <2>6, SameSession DEF Kept
<1> QED
  BY <1>2, <1>3, <1>4, <1>5, <1>6, ClaimTrueKeeps, ContactFoundKeeps, FetchedFromKeeps
  DEF ServerAnswers

\* all_connections_lost, emitted or not, with what else its event does to the lane.
LEMMA LostKeeps ==
    ASSUME LaneInv, CountersOK, NEW emitted \in BOOLEAN, NEW more, Adds(more, {}),
           mode' = LostModes(mode, emitted), outbox' = outbox \ LostRows(mode, emitted),
           fate' = FatesOf(LostRows(mode, emitted), "flying"),
           NEW cmds \in FlushCommands(LostRows(mode, emitted)),
           Ask(cmds) \/ Ask(cmds \o more),
           UNCHANGED <<messages, received, held, arrived, pendingRelay, now>>
    PROVE  LaneInv' /\ CountersOK'
<1>1. LostRows(mode, emitted) \in SUBSET outbox
  BY LostRowsQueued
<1>2. /\ asked' = asked \o cmds \/ asked' = asked \o (cmds \o more)
      /\ findNick' = findNick /\ linked' = linked
  BY DEF Ask
<1>3. \E add : LaneMoves(asked, LostRows(mode, emitted), add)
  BY <1>1, <1>2, Remains, FlushMoves
<1>4. FateKept /\ RowsKept
  BY FatesOfType DEF FateKept, RowsKept, LaneInv, Fates
<1>5. LaneInv'
  BY <1>3, <1>4, MovesKeep
<1>6. mode' \in [Peers -> Modes]
  BY ModesOfLost DEF CountersOK
<1> QED BY <1>2, <1>5, <1>6 DEF CountersOK

\* A lost link cuts the commands on the wire off the lane.
LEMMA LinkDownKeeps ==
    ASSUME LaneInv, NEW k \in 0..Len(asked), NEW j, LinkDown(k, j)
    PROVE  LaneInv'
<1>1. /\ LeftOf(asked, SubSeq(asked, k + 1, Len(asked)))
      /\ asked' = SubSeq(asked, k + 1, Len(asked)) /\ findNick' = findNick
      /\ UNCHANGED <<messages, outbox, pendingRelay>>
  BY LeftOfLane DEF LaneInv, OneWayOut, LinkDown, Break, dbVars
<1>2. asked' \in Seq(Command)
  BY <1>1 DEF LeftOf
<1>3. asked' \o << >> = asked'
  BY <1>2
<1>4. LaneMoves(asked', {}, << >>)
  BY <1>1, <1>3, AddsNothing DEF LaneMoves
<1>5. FateKept
  <2>1. Len(fate) \in Nat /\ DOMAIN fate = 1..Len(fate) /\ \A i \in 1..Len(fate) : fate[i] \in Fates
    BY LenProperties, ElementOfSeq DEF LaneInv
  <2>2. DOMAIN fate' = DOMAIN fate /\ \A i \in DOMAIN fate : fate'[i] \in {"reached", "lost", fate[i]}
    BY DEF LinkDown
  <2>3. fate' = [i \in DOMAIN fate |-> fate'[i]]
    BY DEF LinkDown
  <2>4. fate' \in [1..Len(fate) -> Fates]
    BY <2>1, <2>2, <2>3 DEF Fates
  <2> QED BY <2>1, <2>4 DEF FateKept
<1>6. RowsKept
  BY <1>1 DEF RowsKept, LaneInv
<1> QED BY <1>1, <1>4, <1>5, <1>6, MovesKeep

\* The events that concern no connection in particular.
LEMMA LinkAndReachKeep ==
    ASSUME IInv,
           \/ \E k \in 0..Len(asked) : \E j \in 0..k : LinkDown(k, j)
           \/ LinkUp
           \/ \E online \in BOOLEAN, missed \in Missable : Reachability(online, missed)
    PROVE  Kept
<1> USE DEF IInv
<1>1. ASSUME NEW k \in 0..Len(asked), NEW j \in 0..k, LinkDown(k, j)
      PROVE  Kept
  <2>1. NetStep
    BY <1>1 DEF LinkDown, NetStep
  <2>2. CountersOK'
    BY <1>1 DEF LinkDown, Break, CountersOK, dbVars
  <2> QED BY <1>1, <2>1, <2>2, LinkDownKeeps, SameSession DEF Kept, LinkDown
<1>2. ASSUME LinkUp
      PROVE  Kept
  <2>1. NetStep
    BY <1>2 DEF LinkUp, NetStep, coreVars
  <2>2. LaneInv'
    BY <1>2, Remains, PlainKeeps, AddsNothing DEF LinkUp, Relink, dbVars, coreVars
  <2>3. CountersOK'
    BY <1>2 DEF LinkUp, Relink, CountersOK, dbVars, coreVars
  <2> QED BY <1>2, <2>1, <2>2, <2>3, SameSession DEF Kept, LinkUp, coreVars
<1>3. ASSUME NEW online \in BOOLEAN, NEW missed \in Missable, Reachability(online, missed)
      PROVE  Kept
  <2> DEFINE more == IF online THEN <<Fetch>> ELSE << >>
             emitted == CloseAllSignals(missed)
  <2>1. NetStep
    BY <1>3 DEF Reachability, NetStep
  <2>2. Adds(more, {})
    BY AddsNothing
  <2>3. emitted \in BOOLEAN
    BY DEF CloseAllSignals
  <2>4. /\ mode' = LostModes(mode, emitted) /\ outbox' = outbox \ LostRows(mode, emitted)
        /\ fate' = FatesOf(LostRows(mode, emitted), "flying")
        /\ \E cmds \in FlushCommands(LostRows(mode, emitted)) : Ask(cmds \o more)
    BY <1>3 DEF Reachability
  <2>5. UNCHANGED <<messages, received, session, held, arrived, verifying, pendingRelay, now>>
    BY <1>3 DEF Reachability
  <2> HIDE DEF more, emitted
  <2>6. LaneInv' /\ CountersOK'
    BY <2>2, <2>3, <2>4, <2>5, LostKeeps
  <2> QED BY <2>1, <2>5, <2>6, SameSession DEF Kept
<1> QED BY <1>1, <1>2, <1>3

\* The events of one connection that reach the network and the lane.
LEMMA ConnectionKeeps ==
    ASSUME IInv, NEW s \in Slots
    PROVE  /\ \A w \in Peers : DialConnected(s) \/ PeerTooEarly(s) \/ PeerConnects(s, w) => Kept
           /\ DialTimedOut(s) => Kept
           /\ \A n, k \in Peers : PeerClaims(s, n, k) => Kept
           /\ ConnectionLost(s) => Kept
<1> USE DEF IInv
<1>1. ASSUME NEW w \in Peers, DialConnected(s) \/ PeerTooEarly(s) \/ PeerConnects(s, w)
      PROVE  Kept
  <2>1. UNCHANGED <<dbVars, linkVars, coreVars>>
    BY <1>1 DEF DialConnected, PeerTooEarly, PeerConnects
  <2>2. NetStep
    BY <1>1, <2>1 DEF DialConnected, PeerTooEarly, PeerConnects, NetStep, coreVars
  <2>3. LaneInv'
    BY <2>1, LaneUntouched DEF dbVars, linkVars, coreVars
  <2>4. CountersOK'
    BY <2>1 DEF CountersOK, dbVars, linkVars, coreVars
  <2> QED BY <2>1, <2>2, <2>3, <2>4, SameSession DEF Kept, coreVars
<1>2. ASSUME DialTimedOut(s)
      PROVE  Kept
  <2>1. NetStep
    BY <1>2 DEF DialTimedOut, NetStep
  <2>2. conn[s].as \in Peers
    BY <1>2 DEF DialTimedOut, TimeOut, NetInv, DialsAreNamed
  <2>3. FallBack(conn[s].as)
        /\ UNCHANGED <<messages, received, session, held, arrived, verifying, pendingRelay, now>>
    BY <1>2 DEF DialTimedOut
  <2>4. LaneInv' /\ mode' \in [Peers -> Modes] /\ linked' = linked
    BY <2>2, <2>3, FallBackKeeps
  <2>5. CountersOK'
    BY <2>3, <2>4 DEF CountersOK
  <2> QED BY <2>1, <2>3, <2>4, <2>5, SameSession DEF Kept
<1>3. ASSUME NEW n \in Peers, NEW k \in Peers, PeerClaims(s, n, k)
      PROVE  Kept
  <2>1. NetStep
    BY <1>3 DEF PeerClaims, NetStep
  <2>2. <<n>> \in [1..1 -> Peers] /\ 1 \in Nat
    OBVIOUS
  <2>3. LaneInv'
    BY <1>3, <2>2, FindsKeep DEF PeerClaims, dbVars
  <2>4. CountersOK'
    BY <1>3 DEF PeerClaims, CountersOK, dbVars, AskFinds
  <2> QED BY <1>3, <2>1, <2>3, <2>4, SameSession DEF Kept, PeerClaims
<1>4. ASSUME ConnectionLost(s)
      PROVE  Kept
  <2> DEFINE emitted == Listed \subseteq {s}
  <2>1. NetStep
    BY <1>4 DEF ConnectionLost, NetStep
  <2>2. /\ mode' = LostModes(mode, emitted) /\ outbox' = outbox \ LostRows(mode, emitted)
        /\ fate' = FatesOf(LostRows(mode, emitted), "flying")
        /\ \E cmds \in FlushCommands(LostRows(mode, emitted)) : Ask(cmds)
        /\ UNCHANGED <<messages, received, session, held, arrived, verifying, pendingRelay, now>>
    BY <1>4 DEF ConnectionLost
  <2>3. emitted \in BOOLEAN
    OBVIOUS
  <2> HIDE DEF emitted
  <2>4. LaneInv' /\ CountersOK'
    BY <2>2, <2>3, LostKeeps, AddsNothing
  <2> QED BY <2>1, <2>2, <2>4, SameSession DEF Kept
<1> QED BY <1>1, <1>2, <1>3, <1>4

\* The peer at the other end of a connection it may write on.
LEMMA Writers ==
    ASSUME NetInv, NEW s \in Slots, MayWrite(s) PROVE conn[s].who \in Peers
BY DEF NetInv, NetTypeOK, Connection, Free, MayWrite

LEMMA NetworkKeeps ==
    ASSUME IInv, NetworkEvent
    PROVE  Kept
<1> USE DEF IInv
<1>1. ASSUME NEW s \in Slots, NEW n \in Peers \cup {None},
             DataHeld(s, n) \/ (n # None /\ DataUnreadable(s, n))
      PROVE  Kept
  <2> DEFINE f == [by |-> conn[s].who, as |-> n]
  <2>1. /\ Arrives(f) /\ held' \in {held, [held EXCEPT ![f] = @ + 1]}
        /\ UNCHANGED <<dbVars, netVars, linkVars, session, mode, verifying, pendingRelay,
                       now, fate>>
    BY <1>1 DEF DataHeld, DataUnreadable
  <2>2. f \in Chat
    BY <1>1, Writers DEF DataHeld, DataUnreadable, Chat
  <2>3. NetStep
    BY <2>1 DEF NetStep
  <2>4. LaneInv'
    BY <2>1, LaneUntouched DEF dbVars, linkVars
  <2> HIDE DEF f
  <2>5. held' \in [Chat -> Nat] /\ arrived' \in [Chat -> Nat]
    BY <2>1, <2>2, ArrivesCounts DEF CountersOK
  <2>6. CountersOK'
    BY <2>1, <2>5 DEF CountersOK, dbVars, linkVars
  <2> QED BY <2>1, <2>3, <2>4, <2>6, SameSession DEF Kept
<1>2. ASSUME NEW s \in Slots, NEW n \in Peers, NEW i \in 0..Len(messages), DataReceived(s, n, i)
      PROVE  Kept
  <2> DEFINE f == [by |-> conn[s].who, as |-> n]
             add == IF i = 0 /\ mode[n] = "relay" THEN <<Receipt>> ELSE << >>
  <2>1. NetStep
    BY <1>2 DEF DataReceived, NetStep
  <2>2. f \in Chat
    BY <1>2, Writers DEF DataReceived, Chat
  <2>3. /\ Handle(f, i) /\ Ask(add) /\ fate' = Acked(fate, i)
        /\ IF i = 0 THEN Arrives(f) ELSE UNCHANGED arrived
        /\ mode' = IF i = 0 THEN Touched(mode, {n}) ELSE mode
        /\ UNCHANGED <<outbox, netVars, session, held, verifying, pendingRelay, now>>
    BY <1>2 DEF DataReceived
  <2>4. Adds(add, {})
    BY AddsNothing
  <2> HIDE DEF f
  <2>5. RowsKept /\ received' \in [Chat -> Nat] /\ arrived' \in [Chat -> Nat]
    BY <2>2, <2>3, HandleKeeps, ArrivesCounts
  <2>6. FateKept
    BY <2>3, FatesOfType DEF FateKept, LaneInv, Fates
  <2> HIDE DEF add
  <2>7. LaneMoves(asked, {}, add)
    BY <2>3, <2>4, Remains, PlainMoves DEF Ask
  <2>8. LaneInv'
    BY <2>3, <2>5, <2>6, <2>7, MovesKeep
  <2>9. mode' \in [Peers -> Modes]
    BY <2>3, ModesOfLost DEF CountersOK
  <2>10. CountersOK'
    BY <2>3, <2>5, <2>9 DEF CountersOK, Ask
  <2> QED BY <2>1, <2>3, <2>8, <2>10, SameSession DEF Kept
<1>3. ASSUME NEW p \in Peers, LateTimeout(p)
      PROVE  Kept
  <2>1. NetStep
    BY <1>3 DEF LateTimeout, NetStep
  <2>2. LaneInv' /\ mode' \in [Peers -> Modes] /\ linked' = linked
    BY <1>3, FallBackKeeps DEF LateTimeout
  <2>3. CountersOK'
    BY <1>3, <2>2 DEF LateTimeout, CountersOK
  <2> QED BY <1>3, <2>1, <2>2, <2>3, SameSession DEF Kept, LateTimeout
<1>4. CASE \/ \E k \in 0..Len(asked) : \E j \in 0..k : LinkDown(k, j)
           \/ LinkUp
           \/ \E online \in BOOLEAN, missed \in Missable : Reachability(online, missed)
  BY <1>4, LinkAndReachKeep
<1>5. ASSUME NEW s \in Slots,
             \/ DialConnected(s) \/ DialTimedOut(s) \/ PeerTooEarly(s) \/ ConnectionLost(s)
             \/ \E w \in Peers : PeerConnects(s, w)
             \/ \E n, k \in Peers : PeerClaims(s, n, k)
      PROVE  Kept
  <2>1. CASE \E w \in Peers : PeerConnects(s, w)
    BY <2>1, ConnectionKeeps
  <2>2. CASE DialConnected(s)
    <3>1. conn[s].who \in Peers
      BY <2>2 DEF DialConnected, Connect, NetInv, NetTypeOK, Connection, Free
    <3> QED BY <2>2, <3>1, ConnectionKeeps
  <2>3. CASE PeerTooEarly(s)
    <3>1. conn[s].who \in Peers
      BY <2>3 DEF PeerTooEarly, DropInvalid, NetInv, NetTypeOK, Connection, Free
    <3> QED BY <2>3, <3>1, ConnectionKeeps
  <2>4. CASE DialTimedOut(s) \/ ConnectionLost(s) \/ \E n, k \in Peers : PeerClaims(s, n, k)
    BY <2>4, ConnectionKeeps
  <2> QED BY <1>5, <2>1, <2>2, <2>3, <2>4
<1> QED BY <1>1, <1>2, <1>3, <1>4, <1>5 DEF NetworkEvent

-----------------------------------------------------------------------------
(***************************************************************************)
(* The theorems.                                                           *)
(***************************************************************************)

LEMMA InitOK == Init => IInv
<1> SUFFICES ASSUME Init PROVE IInv
  OBVIOUS
<1> USE DEF Init, DbInit, NetInit, LinkInit
<1>1. NetInv
  BY DEF NetInv, NetTypeOK, VerificationPaired, ClaimsPointToClaimed, DialsAreNamed, Free
<1>2. asked = << >> /\ asked \in Seq(Command) /\ Carried(asked) = {} /\ CarriedOnce(asked)
      /\ HasNoFind(asked)
  BY AddsNothing DEF Adds
<1>3. OneWayOut /\ WaitingShowsPending /\ FindsAreNamed /\ CarriedAreWritten
  BY <1>2 DEF OneWayOut, WaitingShowsPending, FindsAreNamed, CarriedAreWritten, Range
<1>4. LaneInv
  BY <1>2, <1>3 DEF LaneInv
<1>5. CountersOK
  BY DEF CountersOK, Modes
<1> QED BY <1>1, <1>4, <1>5 DEF IInv

LEMMA StepKeeps == IInv /\ [Next]_vars => IInv'
<1> SUFFICES ASSUME IInv, [Next]_vars PROVE IInv'
  OBVIOUS
<1>1. ASSUME Kept PROVE IInv'
  BY <1>1, NetStepKeeps DEF Kept, IInv
<1>2. CASE Next
  BY <1>1, <1>2, UserKeeps, ServerKeeps, NetworkKeeps DEF Next
<1>3. CASE UNCHANGED vars
  <2>1. UNCHANGED <<messages, outbox, asked, findNick, pendingRelay, fate>>
    BY <1>3 DEF vars, dbVars, linkVars, coreVars
  <2>2. UNCHANGED <<netVars, verifying, session>>
    BY <1>3 DEF vars, coreVars
  <2>3. UNCHANGED <<received, linked, mode, held, arrived, now>>
    BY <1>3 DEF vars, dbVars, linkVars, coreVars
  <2>4. LaneInv'
    BY <2>1, LaneUntouched DEF IInv
  <2>5. NetInv'
    BY <2>2, SameSession, NetStepKeeps DEF NetStep, IInv
  <2>6. CountersOK'
    BY <2>3 DEF CountersOK, IInv
  <2> QED BY <2>4, <2>5, <2>6 DEF IInv
<1> QED BY <1>2, <1>3

\* In every behaviour of the core, the inductive invariant holds throughout.
THEOREM Invariance == Spec => []IInv
BY InitOK, StepKeeps, PTL DEF Spec

\* Every variable keeps its type, for any number of peers, connections and messages.
THEOREM TypeCorrect == Spec => []TypeOK
<1>1. IInv => TypeOK
  BY DEF IInv, NetInv, LaneInv, CountersOK, TypeOK, DbTypeOK, LinkTypeOK
<1> QED BY <1>1, Invariance, PTL

\* A message takes one way out: outbox, lane and awaited answers never share it.
THEOREM MessagesGoOnce == Spec => []OneWayOut
<1>1. IInv => OneWayOut
  BY DEF IInv, LaneInv
<1> QED BY <1>1, Invariance, PTL

\* A message in the outbox, and one whose id is still in m_pending_relay_ids, shows as
\* pending or as read; one whose STORE is unanswered while another answer took its id is
\* not among them.
THEOREM WaitingIsShown == Spec => []WaitingShowsPending
<1>1. IInv => WaitingShowsPending
  BY DEF IInv, LaneInv
<1> QED BY <1>1, Invariance, PTL

\* The two tables of nicknames under verification name the same ones.
THEOREM VerificationIsPaired == Spec => []VerificationPaired
<1>1. IInv => VerificationPaired
  BY DEF IInv, NetInv
<1> QED BY <1>1, Invariance, PTL

-----------------------------------------------------------------------------
(***************************************************************************)
(* Action properties.                                                      *)
(***************************************************************************)

\* Only the confirmation of a claim authenticates connections: those it was about.
LEMMA StepsOfAuth ==
    ASSUME NetInv, NetStep, NEW s \in Slots, conn'[s].st = "auth", conn[s].st # "auth"
    PROVE  ClaimTrue
<1> USE DEF NetInv
<1>1. CASE UNCHANGED <<netVars, verifying>>
  BY <1>1 DEF netVars
<1>2. ASSUME NEW p \in Peers, NEW w \in Peers, Dial(p, w) PROVE FALSE
  BY <1>2 DEF Dial, NetTypeOK
<1>3. ASSUME NEW t \in Slots, Connect(t) PROVE FALSE
  BY <1>3 DEF Connect, NetTypeOK, Connection, Free
<1>4. ASSUME NEW t \in Slots, TimeOut(t) \/ DropInvalid(t) \/ Lose(t) PROVE FALSE
  BY <1>4 DEF TimeOut, DropInvalid, Lose, Freed, Free
<1>5. ASSUME NEW t \in Slots, NEW w \in Peers, AcceptFrom(t, w) PROVE FALSE
  BY <1>5 DEF AcceptFrom, NetTypeOK
<1>6. ASSUME NEW p \in Peers, TimeOutOrphan(p) PROVE FALSE
  BY <1>6 DEF TimeOutOrphan
<1>7. ASSUME NEW missed \in Missable, CloseAll(missed) PROVE FALSE
  <2>1. conn'[s] = Free \/ (s \in missed /\ conn'[s] = [conn[s] EXCEPT !.listed = FALSE])
        \/ conn'[s] = conn[s]
    BY <1>7 DEF CloseAll
  <2>2. s \in missed => conn[s] \in Connection
    BY DEF Missable, Wired, Listed, NetTypeOK, Free
  <2>3. \A c \in Connection : [c EXCEPT !.listed = FALSE].st = c.st
    BY DEF Connection
  <2>4. s \in missed => conn'[s] # [conn[s] EXCEPT !.listed = FALSE]
    BY <2>2, <2>3
  <2>5. Free.st # "auth"
    BY DEF Free
  <2> QED BY <2>1, <2>4, <2>5
<1>8. ASSUME NEW b \in BOOLEAN, SetSkip(b) PROVE FALSE
  BY <1>8 DEF SetSkip
<1>9. ASSUME NEW t \in Slots, NEW n \in Peers, NEW k \in Peers, ReadHandshake(t, n, k) PROVE FALSE
  <2>1. /\ conn[t] \in Connection
        /\ conn'[s] = IF s = t THEN [conn[s] EXCEPT !.st = "claimed", !.as = n, !.key = k]
                      ELSE conn[s]
    BY <1>9 DEF ReadHandshake, NetTypeOK, Free
  <2> QED BY <2>1 DEF Connection
<1>10. ASSUME NEW p \in Peers, Reject(p) PROVE FALSE
  BY <1>10 DEF Reject, Freed, Free
<1> QED
  BY <1>1, <1>2, <1>3, <1>4, <1>5, <1>6, <1>7, <1>8, <1>9, <1>10 DEF NetStep

\* Every step of the core is one of its connections' half.
LEMMA StepsOfNet == IInv /\ Next => NetStep
BY UserKeeps, ServerKeeps, NetworkKeeps DEF Next, Kept

\* A connection is authenticated by the answer that gives the key it claimed, which then
\* becomes the session of the nickname it claimed, and by nothing else.
THEOREM Authenticity == Spec => AuthenticatedAsClaimed
<1> DEFINE AsClaimed ==
        \A s \in Slots :
            conn'[s].st = "auth" /\ conn[s].st # "auth" =>
                /\ Due("FIND") /\ PublicKey[Head(asked).peer] = PublicKey[conn[s].key]
                /\ session'[conn[s].as] = Head(asked).peer
<1>1. ASSUME IInv, Next PROVE AsClaimed
  <2> USE DEF IInv, NetInv
  <2>1. SUFFICES ASSUME NEW s \in Slots, conn'[s].st = "auth", conn[s].st # "auth"
        PROVE  /\ Due("FIND") /\ PublicKey[Head(asked).peer] = PublicKey[conn[s].key]
               /\ session'[conn[s].as] = Head(asked).peer
    OBVIOUS
  <2>2. ClaimTrue
    BY <1>1, <2>1, StepsOfNet, StepsOfAuth
  <2> DEFINE n == findNick  w == Head(asked).peer
  <2>3. Due("FIND") /\ n \in Peers /\ w \in Peers
    BY <1>1, <2>2, FoundPeers DEF ClaimTrue
  <2>4. /\ session' = AdoptKey(n, w) /\ Confirm(n) /\ PublicKey[verifying[n]] = PublicKey[w]
    BY <2>2 DEF ClaimTrue, ClaimedKeyFound
  <2> HIDE DEF n, w
  <2>5. s = claim[n]
    BY <2>1, <2>4 DEF Confirm
  <2>6. conn[s].as = n /\ conn[s].key = verifying[n]
    BY <1>1, <2>3, <2>5 DEF ClaimsPointToClaimed
  <2>7. session'[n] = w
    BY <1>1, <2>3, <2>4 DEF AdoptKey
  <2> QED BY <2>3, <2>4, <2>6, <2>7 DEF w
<1>2. ASSUME IInv, [Next]_vars PROVE [AsClaimed]_vars
  BY <1>1, <1>2
<1> QED BY <1>2, Invariance, PTL DEF Spec, AuthenticatedAsClaimed

\* How any step changes the sessions: a nickname without one learns a key, or the
\* verification of a nickname ends with the key that was claimed for it.
SessionStep ==
    \/ session' = session
    \/ \E p, key \in Peers : session' = LearnKey(p, key)
    \/ \E p, key \in Peers :
          /\ session' = AdoptKey(p, key) /\ PublicKey[verifying[p]] = PublicKey[key]
          /\ verifying[p] # None /\ verifying' = [verifying EXCEPT ![p] = None]

LEMMA StepsOfSession ==
    ASSUME IInv, Next PROVE SessionStep
<1>1. ASSUME UserOrTimer PROVE session' = session
  BY <1>1 DEF UserOrTimer, SendQueued, SendRelayed, SendDirect, FindPeer, Join, PollRelay,
      RetryP2P, Tick, coreVars
<1>2. ASSUME NetworkEvent PROVE session' = session
  BY <1>2 DEF NetworkEvent, LinkDown, LinkUp, Reachability, DialConnected, DialTimedOut,
      LateTimeout, PeerConnects, PeerClaims, PeerTooEarly, ConnectionLost, DataHeld,
      DataUnreadable, DataReceived, coreVars
<1>3. ASSUME ServerAnswers PROVE SessionStep
  <2>1. CASE ClaimTrue
    <3>1. findNick \in Peers /\ Head(asked).peer \in Peers
      BY <2>1, FoundPeers DEF ClaimTrue, IInv
    <3> QED BY <2>1, <3>1 DEF ClaimTrue, ClaimedKeyFound, SessionStep
  <2>2. CASE ContactFound
    BY <2>2, FoundPeers DEF ContactFound, IInv, SessionStep
  <2>3. CASE \E w \in Peers, i \in {0} \cup DOMAIN fate, more \in BOOLEAN,
                   missed \in Missable : FetchedFrom(w, i, more, missed)
    BY <2>3 DEF FetchedFrom, SessionStep
  <2>4. CASE \/ PeerNotFound \/ ClaimFalse \/ NothingFetched
             \/ \E ok \in BOOLEAN : StoreAnswered(ok) \/ Registered(ok)
             \/ \E w \in Peers, more \in BOOLEAN : FetchedUnreadable(w, more)
    BY <2>4 DEF PeerNotFound, ClaimFalse, NothingFetched, StoreAnswered, Registered,
        FetchedUnreadable, coreVars, SessionStep
  <2> QED BY <1>3, <2>1, <2>2, <2>3, <2>4 DEF ServerAnswers, Receiptable
<1> QED BY <1>1, <1>2, <1>3 DEF Next, SessionStep

\* A session is replaced only when a verification of its nickname ends, and then by the
\* key that was claimed.
THEOREM SessionsAreKept == Spec => SessionKept
<1>1. ASSUME IInv, [Next]_vars
      PROVE  [\A p \in Peers :
                 Ready(p) /\ session'[p] # session[p] =>
                     /\ verifying[p] # None /\ verifying'[p] = None
                     /\ PublicKey[session'[p]] = PublicKey[verifying[p]]]_vars
  <2>1. SessionStep \/ UNCHANGED vars
    BY <1>1, StepsOfSession
  <2>2. /\ session \in [Peers -> Peers \cup {None}]
        /\ verifying \in [Peers -> Peers \cup {None}]
    BY <1>1 DEF IInv, NetInv
  <2>3. CASE session' = session \/ \E p, key \in Peers : session' = LearnKey(p, key)
    BY <2>2, <2>3 DEF LearnKey, Ready
  <2>4. ASSUME NEW p \in Peers, NEW key \in Peers, session' = AdoptKey(p, key),
               PublicKey[verifying[p]] = PublicKey[key],
               verifying[p] # None, verifying' = [verifying EXCEPT ![p] = None],
               NEW q \in Peers, session'[q] # session[q]
        PROVE  /\ verifying[q] # None /\ verifying'[q] = None
               /\ PublicKey[session'[q]] = PublicKey[verifying[q]]
    <3>1. q = p /\ session'[p] = key
      BY <2>2, <2>4 DEF AdoptKey
    <3> QED BY <2>2, <2>4, <3>1
  <2> QED BY <2>1, <2>3, <2>4 DEF SessionStep
<1> QED BY <1>1, Invariance, PTL DEF Spec, SessionKept

-----------------------------------------------------------------------------
(***************************************************************************)
(* Chats.                                                                  *)
(***************************************************************************)

\* How any step changes the counts of chats: held ones are stored; one comes in and is
\* stored, held, or given up because it cannot be read.
ChatStep ==
    \/ UNCHANGED <<received, held, arrived>>
    \/ \E S : Release(S) /\ UNCHANGED arrived
    \/ \E f \in Chat : \E i : /\ Handle(f, i) /\ held' = held
                              /\ IF i = 0 THEN Arrives(f) ELSE UNCHANGED arrived
    \/ \E f \in Chat : /\ Arrives(f) /\ received' = received
                       /\ held' = [held EXCEPT ![f] = @ + 1]
    \/ \E f \in Chat : /\ Arrives(f) /\ UNCHANGED <<received, held>>
                       /\ f.as # None /\ Ready(f.as) /\ ~Readable(f.by, session[f.as])

LEMMA StepsOfChats ==
    ASSUME IInv, Next PROVE ChatStep
<1>1. ASSUME UserOrTimer PROVE ChatStep
  BY <1>1 DEF UserOrTimer, SendQueued, SendRelayed, SendDirect, FindPeer, Join, PollRelay,
      RetryP2P, Tick, NewRow, dbVars, coreVars, ChatStep
<1>2. ASSUME ServerAnswers PROVE ChatStep
  <2>1. CASE ClaimTrue
    BY <2>1 DEF ClaimTrue, ChatStep
  <2>2. CASE ContactFound
    BY <2>2 DEF ContactFound, ChatStep
  <2>3. ASSUME NEW w \in Peers, NEW i, NEW more, NEW missed, FetchedFrom(w, i, more, missed)
        PROVE  ChatStep
    <3>1. Relayed(w) \in Chat
      BY DEF Relayed, Chat
    <3> QED BY <2>3, <3>1 DEF FetchedFrom, ChatStep
  <2>4. ASSUME NEW w \in Peers, NEW more, FetchedUnreadable(w, more)
        PROVE  ChatStep
    <3>1. Relayed(w) \in Chat /\ Relayed(w).by = w /\ Relayed(w).as = w /\ w # None
      BY DEF Relayed, Chat
    <3> QED BY <2>4, <3>1 DEF FetchedUnreadable, Shared, dbVars, ChatStep
  <2>5. CASE \/ PeerNotFound \/ ClaimFalse \/ NothingFetched
             \/ \E ok \in BOOLEAN : StoreAnswered(ok) \/ Registered(ok)
    BY <2>5 DEF PeerNotFound, ClaimFalse, NothingFetched, StoreAnswered, Registered,
        dbVars, coreVars, ChatStep
  <2> QED BY <1>2, <2>1, <2>2, <2>3, <2>4, <2>5 DEF ServerAnswers
<1>3. ASSUME NetworkEvent PROVE ChatStep
  <2>1. ASSUME NEW s \in Slots, NEW n \in Peers, NEW i \in 0..Len(messages),
               DataReceived(s, n, i)
        PROVE  ChatStep
    <3>1. [by |-> conn[s].who, as |-> n] \in Chat
      BY <2>1, Writers DEF DataReceived, Chat, IInv
    <3> QED BY <2>1, <3>1 DEF DataReceived, ChatStep
  <2>2. ASSUME NEW s \in Slots, NEW n \in Peers \cup {None}, DataHeld(s, n) PROVE ChatStep
    <3>1. [by |-> conn[s].who, as |-> n] \in Chat
      BY <2>2, Writers DEF DataHeld, Chat, IInv
    <3> QED BY <2>2, <3>1 DEF DataHeld, dbVars, ChatStep
  <2>3. ASSUME NEW s \in Slots, NEW n \in Peers, DataUnreadable(s, n) PROVE ChatStep
    <3> DEFINE f == [by |-> conn[s].who, as |-> n]
    <3>1. f \in Chat /\ f.by = conn[s].who /\ f.as = n /\ n # None
      BY <2>3, Writers DEF DataUnreadable, Chat, IInv
    <3>2. Arrives(f) /\ UNCHANGED <<received, held>> /\ Ready(n)
          /\ ~Readable(conn[s].who, session[n])
      BY <2>3 DEF DataUnreadable, dbVars
    <3> HIDE DEF f
    <3> QED BY <3>1, <3>2 DEF ChatStep
  <2>4. CASE \/ \E k \in 0..Len(asked) : \E j \in 0..k : LinkDown(k, j)
             \/ LinkUp \/ \E online \in BOOLEAN, missed \in Missable : Reachability(online, missed)
             \/ \E p \in Peers : LateTimeout(p)
             \/ \E s \in Slots : \/ DialConnected(s) \/ DialTimedOut(s)
                                 \/ PeerTooEarly(s) \/ ConnectionLost(s)
                                 \/ \E w \in Peers : PeerConnects(s, w)
                                 \/ \E n, k \in Peers : PeerClaims(s, n, k)
    BY <2>4 DEF LinkDown, LinkUp, Reachability, DialConnected, DialTimedOut, LateTimeout,
        PeerConnects, PeerClaims, PeerTooEarly, ConnectionLost, dbVars, coreVars, ChatStep
  <2> QED BY <1>3, <2>1, <2>2, <2>3, <2>4 DEF NetworkEvent
<1> QED BY <1>1, <1>2, <1>3 DEF Next

\* A chat that comes in is stored or held, once, and what is held is stored or stays held;
\* only one whose nickname has a session made from another key than its writer's is given
\* up, on its arrival.
THEOREM ChatsKept == Spec => ChatsAreKept
<1> DEFINE LostOnArrival(f) ==
               /\ Missing(f)' = Missing(f) + 1 /\ arrived'[f] = arrived[f] + 1
               /\ f.as # None /\ Ready(f.as)
               /\ PublicKey[session[f.as]] # PublicKey[f.by]
<1>1. ASSUME IInv, [Next]_vars, NEW f \in Chat, Missing(f)' # Missing(f)
      PROVE  LostOnArrival(f)
  <2>1. received \in [Chat -> Nat] /\ held \in [Chat -> Nat] /\ arrived \in [Chat -> Nat]
    BY <1>1 DEF IInv, CountersOK
  <2>2. ChatStep
    BY <1>1, StepsOfChats DEF vars, dbVars, coreVars, ChatStep
  <2>3. CASE UNCHANGED <<received, held, arrived>>
    BY <1>1, <2>3 DEF Missing
  <2>4. ASSUME NEW S, Release(S), UNCHANGED arrived
        PROVE  FALSE
    BY <1>1, <2>1, <2>4 DEF Release, Missing
  <2>5. ASSUME NEW g \in Chat, NEW i, Handle(g, i), held' = held,
               IF i = 0 THEN Arrives(g) ELSE UNCHANGED arrived
        PROVE  FALSE
    BY <1>1, <2>1, <2>5 DEF Handle, Arrives, Missing
  <2>6. ASSUME NEW g \in Chat, Arrives(g), held' = [held EXCEPT ![g] = @ + 1],
               received' = received
        PROVE  FALSE
    BY <1>1, <2>1, <2>6 DEF Arrives, Missing
  <2>7. ASSUME NEW g \in Chat, Arrives(g), UNCHANGED <<received, held>>,
               g.as # None, Ready(g.as), ~Readable(g.by, session[g.as])
        PROVE  LostOnArrival(f)
    <3>1. g = f
      BY <1>1, <2>1, <2>7 DEF Arrives, Missing
    <3>2. arrived'[f] = arrived[f] + 1 /\ Missing(f)' = Missing(f) + 1
      BY <2>1, <2>7, <3>1 DEF Arrives, Missing
    <3>3. g.by \in Peers /\ g.as \in Peers
      BY <2>7 DEF Chat
    <3>4. session[g.as] \in Peers
      BY <1>1, <2>7, <3>3 DEF IInv, NetInv, Ready
    <3>5. PublicKey[session[g.as]] # PublicKey[g.by]
      BY <2>7, <3>3, <3>4, ReadableByKey DEF Ready
    <3> QED BY <2>7, <3>1, <3>2, <3>5
  <2> HIDE DEF LostOnArrival
  <2> QED BY <2>2, <2>3, <2>4, <2>5, <2>6, <2>7 DEF ChatStep
<1>2. IInv /\ [Next]_vars =>
          [\A f \in Chat : Missing(f)' # Missing(f) => LostOnArrival(f)]_vars
  BY <1>1
<1> QED BY <1>2, Invariance, PTL DEF Spec, ChatsAreKept
=============================================================================
