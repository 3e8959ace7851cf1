------------------------- MODULE BootstrapLinkProofs ------------------------
(***************************************************************************)
(* Which own messages the lane of commands carries, when commands are      *)
(* added at its end, answered at its front, or cut off by a broken link.   *)
(***************************************************************************)
EXTENDS BootstrapLink, SequenceTheorems, FiniteSetTheorems, TLAPS

\* A sequence of commands that carries no own message.
Plain(s) == StoredAt(s) = {}

\* Commands are records, and only a STORE carries a message.
LEMMA CommandFields ==
    /\ \A c \in Command : c.msg \in Nat /\ (c.op = "FIND" => c.peer \in Peers)
    /\ \A p \in Peers : Find(p) \in Command
    /\ \A i \in Nat : Store(i) \in Command /\ Store(i).op = "STORE" /\ Store(i).msg = i
    /\ {Receipt, Fetch, Register} \subseteq Command
BY DEF Command, Find, Store, Receipt, Fetch, Register

LEMMA OnlyStoresCarry == \A c \in Command : c.msg # 0 => c.op = "STORE"
BY DEF Command, Fetch, Register

\* What one sequence carries another carries, when each of its STOREs has a like.
LEMMA CarriedWithin ==
    ASSUME NEW s, NEW t,
           \A k \in StoredAt(s) : \E l \in StoredAt(t) : s[k].msg = t[l].msg
    PROVE  Carried(s) \subseteq Carried(t)
BY DEF Carried

\* The commands added to a lane that carries other messages: what both carry is
\* carried, still by one STORE each.
LEMMA CarriedConcat ==
    ASSUME NEW s \in Seq(Command), NEW t \in Seq(Command)
    PROVE  /\ s \o t \in Seq(Command)
           /\ Carried(s \o t) = Carried(s) \cup Carried(t)
           /\ (CarriedOnce(s) /\ CarriedOnce(t) /\ Carried(s) \cap Carried(t) = {})
              => CarriedOnce(s \o t)
<1> DEFINE u == s \o t
<1>1. /\ u \in Seq(Command) /\ Len(u) = Len(s) + Len(t)
      /\ \A k \in 1..Len(s) : u[k] = s[k]
      /\ \A k \in 1..Len(t) : u[Len(s) + k] = t[k]
      /\ Len(s) \in Nat /\ Len(t) \in Nat
      /\ DOMAIN s = 1..Len(s) /\ DOMAIN t = 1..Len(t) /\ DOMAIN u = 1..Len(u)
  BY ConcatProperties, LenProperties
<1> HIDE DEF u
<1>2. ASSUME NEW k \in StoredAt(s)
      PROVE  k \in StoredAt(u) /\ u[k].msg = s[k].msg
  BY <1>1 DEF StoredAt
<1>3. ASSUME NEW k \in StoredAt(t)
      PROVE  Len(s) + k \in StoredAt(u) /\ u[Len(s) + k].msg = t[k].msg
  BY <1>1 DEF StoredAt
<1>4. ASSUME NEW k \in StoredAt(u)
      PROVE  \/ k \in StoredAt(s) /\ u[k].msg = s[k].msg
             \/ /\ k - Len(s) \in StoredAt(t) /\ u[k].msg = t[k - Len(s)].msg
                /\ k = Len(s) + (k - Len(s))
  <2>1. k \in 1..Len(u) /\ u[k].op = "STORE" /\ u[k].msg # 0
    BY <1>1 DEF StoredAt
  <2>2. CASE k <= Len(s)
    BY <1>1, <2>1, <2>2 DEF StoredAt
  <2>3. CASE ~(k <= Len(s))
    <3> DEFINE l == k - Len(s)
    <3>1. l \in 1..Len(t) /\ k = Len(s) + l
      BY <1>1, <2>1, <2>3
    <3> HIDE DEF l
    <3>2. u[k] = t[l]
      BY <1>1, <3>1
    <3>3. l \in StoredAt(t) /\ u[k].msg = t[l].msg
      BY <1>1, <2>1, <3>1, <3>2 DEF StoredAt
    <3> QED BY <3>1, <3>3 DEF l
  <2> QED BY <2>2, <2>3
<1>5. Carried(s) \subseteq Carried(u) /\ Carried(t) \subseteq Carried(u)
  BY <1>2, <1>3, CarriedWithin
<1>6. Carried(u) \subseteq Carried(s) \cup Carried(t)
  BY <1>4 DEF Carried
<1>7. ASSUME CarriedOnce(s), CarriedOnce(t), Carried(s) \cap Carried(t) = {},
             NEW k \in StoredAt(u), NEW l \in StoredAt(u), u[k].msg = u[l].msg
      PROVE  k = l
  <2>1. \A i \in StoredAt(s), j \in StoredAt(t) : s[i].msg # t[j].msg
    BY <1>7 DEF Carried
  <2>2. \/ k \in StoredAt(s) /\ u[k].msg = s[k].msg
        \/ /\ k - Len(s) \in StoredAt(t) /\ u[k].msg = t[k - Len(s)].msg
           /\ k = Len(s) + (k - Len(s))
    BY <1>4, <1>7
  <2>3. \/ l \in StoredAt(s) /\ u[l].msg = s[l].msg
        \/ /\ l - Len(s) \in StoredAt(t) /\ u[l].msg = t[l - Len(s)].msg
           /\ l = Len(s) + (l - Len(s))
    BY <1>4, <1>7
  <2> QED BY <1>7, <2>1, <2>2, <2>3 DEF CarriedOnce
<1>8. /\ Carried(u) = Carried(s) \cup Carried(t)
      /\ (CarriedOnce(s) /\ CarriedOnce(t) /\ Carried(s) \cap Carried(t) = {}) => CarriedOnce(u)
  BY <1>5, <1>6, <1>7 DEF CarriedOnce
<1> QED BY <1>1, <1>8 DEF u

\* A plain sequence adds nothing to a lane.
LEMMA PlainConcat ==
    ASSUME NEW s \in Seq(Command), NEW t \in Seq(Command), Plain(t), CarriedOnce(s)
    PROVE  Carried(s \o t) = Carried(s) /\ CarriedOnce(s \o t)
<1>1. Carried(t) = {}
  BY DEF Plain, Carried
<1>2. CarriedOnce(t)
  BY DEF Plain, CarriedOnce
<1>3. Carried(s) \cap Carried(t) = {} /\ Carried(s) \cup Carried(t) = Carried(s)
  BY <1>1
<1> QED BY <1>2, <1>3, CarriedConcat

\* What is left when k commands are cut off the front.
LEMMA CutOff ==
    ASSUME NEW s \in Seq(Command), NEW k \in 0..Len(s)
    PROVE  /\ SubSeq(s, k + 1, Len(s)) \in Seq(Command)
           /\ Len(SubSeq(s, k + 1, Len(s))) =
                 IF k + 1 <= Len(s) THEN Len(s) - (k + 1) + 1 ELSE 0
           /\ \A l \in 1..(Len(s) - (k + 1) + 1) :
                 SubSeq(s, k + 1, Len(s))[l] = s[(k + 1) + l - 1]
<1>1. Len(s) \in Nat /\ DOMAIN s = 1..Len(s)
  BY LenProperties
<1> DEFINE m == k + 1
           n == Len(s)
<1>2. m \in Int /\ n \in Int
  BY <1>1
<1>3. \A l \in m..n : s[l] \in Command
  BY <1>1, ElementOfSeq
<1> HIDE DEF m, n
<1>4. SubSeq(s, m, n) \in Seq(Command)
  BY <1>2, <1>3, SubSeqProperties
<1>5. Len(SubSeq(s, m, n)) = IF m <= n THEN n - m + 1 ELSE 0
  BY <1>2, <1>3, SubSeqProperties
<1>6. \A l \in 1..(n - m + 1) : SubSeq(s, m, n)[l] = s[m + l - 1]
  BY <1>2, <1>3, SubSeqProperties
<1> QED BY <1>4, <1>5, <1>6 DEF m, n

\* Cutting k commands off the front keeps what the others carry.
LEMMA CarriedCut ==
    ASSUME NEW s \in Seq(Command), CarriedOnce(s), NEW k \in 0..Len(s)
    PROVE  /\ SubSeq(s, k + 1, Len(s)) \in Seq(Command)
           /\ Carried(SubSeq(s, k + 1, Len(s))) \subseteq Carried(s)
           /\ CarriedOnce(SubSeq(s, k + 1, Len(s)))
<1> DEFINE u == SubSeq(s, k + 1, Len(s))
<1>1. Len(s) \in Nat /\ DOMAIN s = 1..Len(s)
  BY LenProperties
<1>2. /\ u \in Seq(Command)
      /\ Len(u) = IF k + 1 <= Len(s) THEN Len(s) - (k + 1) + 1 ELSE 0
      /\ \A l \in 1..(Len(s) - (k + 1) + 1) : u[l] = s[(k + 1) + l - 1]
  BY CutOff
<1> HIDE DEF u
<1>3. Len(u) = Len(s) - k /\ DOMAIN u = 1..(Len(s) - k)
  <2>1. Len(u) = Len(s) - k
    <3>1. k \in Nat /\ k <= Len(s) /\ Len(s) \in Nat
      BY <1>1
    <3>2. CASE k + 1 <= Len(s)
      BY <1>2, <3>1, <3>2
    <3>3. CASE ~(k + 1 <= Len(s))
      <4>1. Len(u) = 0
        BY <1>2, <3>3
      <4> QED BY <3>1, <3>3, <4>1
    <3> QED BY <3>2, <3>3
  <2>2. DOMAIN u = 1..Len(u)
    BY <1>2, LenProperties
  <2> QED BY <2>1, <2>2
<1>4. ASSUME NEW l \in StoredAt(u)
      PROVE  l \in Nat /\ k + l \in StoredAt(s) /\ u[l].msg = s[k + l].msg
  <2>1. l \in 1..(Len(s) - k) /\ u[l].op = "STORE" /\ u[l].msg # 0
    BY <1>3 DEF StoredAt
  <2>2. (k + 1) + l - 1 = k + l /\ l \in 1..(Len(s) - (k + 1) + 1) /\ k + l \in 1..Len(s)
    BY <1>1, <2>1
  <2>3. u[l] = s[k + l]
    BY <1>2, <2>2
  <2> QED BY <1>1, <2>1, <2>2, <2>3 DEF StoredAt
<1>5. Carried(u) \subseteq Carried(s)
  BY <1>4, CarriedWithin
<1>6. CarriedOnce(u)
  <2>1. ASSUME NEW l \in StoredAt(u), NEW m \in StoredAt(u), u[l].msg = u[m].msg
        PROVE  l = m
    <3>1. k + l = k + m
      BY <1>4, <2>1 DEF CarriedOnce
    <3> QED BY <1>4, <2>1, <3>1
  <2> QED BY <2>1 DEF CarriedOnce
<1> QED BY <1>2, <1>5, <1>6 DEF u

\* What is cut off are the messages of the commands cut off.
LEMMA CutTakes ==
    ASSUME NEW s \in Seq(Command), CarriedOnce(s), NEW k \in 0..Len(s), NEW i, i # 0
    PROVE  i \in {s[l].msg : l \in 1..k}
               <=> i \in Carried(s) \ Carried(SubSeq(s, k + 1, Len(s)))
<1> DEFINE u == SubSeq(s, k + 1, Len(s))
<1>1. /\ Len(s) \in Nat /\ DOMAIN s = 1..Len(s) /\ k \in Nat /\ k <= Len(s)
      /\ \A l \in 1..Len(s) : s[l] \in Command
  BY LenProperties, ElementOfSeq
<1>2. /\ u \in Seq(Command)
      /\ Len(u) = IF k + 1 <= Len(s) THEN Len(s) - (k + 1) + 1 ELSE 0
      /\ \A l \in 1..(Len(s) - (k + 1) + 1) : u[l] = s[(k + 1) + l - 1]
  BY CutOff
<1> HIDE DEF u
<1>3. DOMAIN u = 1..(Len(s) - k) /\ \A l \in 1..(Len(s) - k) : u[l] = s[k + l]
  <2>1. DOMAIN u = 1..Len(u)
    BY <1>2, LenProperties
  <2>2. Len(u) = Len(s) - k
    <3>0. k \in Nat /\ k <= Len(s) /\ Len(s) \in Nat
      BY <1>1
    <3>1. CASE k + 1 <= Len(s)
      <4>1. Len(u) = Len(s) - (k + 1) + 1
        BY <1>2, <3>1
      <4> QED BY <1>1, <4>1
    <3>2. CASE ~(k + 1 <= Len(s))
      <4>1. Len(u) = 0
        BY <1>2, <3>2
      <4> QED BY <3>0, <3>2, <4>1
    <3> QED BY <3>1, <3>2
  <2>3. \A l \in 1..(Len(s) - k) : (k + 1) + l - 1 = k + l /\ l \in 1..(Len(s) - (k + 1) + 1)
    BY <1>1
  <2> QED BY <1>1, <1>2, <2>1, <2>2, <2>3
<1>4. ASSUME NEW l \in 1..k, s[l].msg = i
      PROVE  i \in Carried(s) /\ i \notin Carried(u)
  <2>1. l \in StoredAt(s) /\ l \in Nat /\ l <= k
    BY <1>1, <1>4, OnlyStoresCarry DEF StoredAt
  <2>2. ASSUME NEW m \in StoredAt(u) PROVE u[m].msg # i
    <3>1. m \in 1..(Len(s) - k) /\ u[m] = s[k + m] /\ u[m].op = "STORE" /\ u[m].msg # 0
      BY <1>3, <2>2 DEF StoredAt
    <3>2. k + m \in 1..Len(s) /\ k + m # l
      BY <1>1, <2>1, <3>1
    <3>3. k + m \in StoredAt(s)
      BY <1>1, <3>1, <3>2 DEF StoredAt
    <3> QED BY <1>4, <2>1, <3>1, <3>2, <3>3 DEF CarriedOnce
  <2> QED BY <1>4, <2>1, <2>2 DEF Carried
<1>5. ASSUME i \in Carried(s), i \notin Carried(u)
      PROVE  \E l \in 1..k : s[l].msg = i
  <2>1. PICK l \in StoredAt(s) : s[l].msg = i
    BY <1>5 DEF Carried
  <2>2. l \in 1..Len(s) /\ s[l].op = "STORE" /\ s[l].msg # 0
    BY <1>1, <2>1 DEF StoredAt
  <2>3. CASE ~(l <= k)
    <3> DEFINE m == l - k
    <3>1. m \in 1..(Len(s) - k) /\ k + m = l
      BY <1>1, <2>2, <2>3
    <3> HIDE DEF m
    <3>2. m \in StoredAt(u) /\ u[m].msg = i
      BY <1>3, <2>1, <2>2, <3>1 DEF StoredAt
    <3> QED BY <1>5, <3>2 DEF Carried
  <2> QED BY <1>1, <2>1, <2>2, <2>3
<1> QED BY <1>4, <1>5 DEF u

\* The same for the answer to the oldest command; an answered STORE takes its
\* message off the lane.
LEMMA CarriedTail ==
    ASSUME NEW s \in Seq(Command), s # << >>, CarriedOnce(s)
    PROVE  /\ Tail(s) \in Seq(Command) /\ Head(s) \in Command
           /\ Carried(Tail(s)) \subseteq Carried(s)
           /\ Head(s).op # "STORE" => Carried(Tail(s)) = Carried(s)
           /\ Carried(s) \ {Head(s).msg} \subseteq Carried(Tail(s))
           /\ Head(s).msg # 0 => Head(s).msg \in Carried(s) \ Carried(Tail(s))
           /\ CarriedOnce(Tail(s))
<1> DEFINE u == Tail(s)
<1>1. /\ u \in Seq(Command) /\ Head(s) = s[1] /\ Len(u) = Len(s) - 1
      /\ \A l \in 1..Len(u) : u[l] = s[l + 1]
      /\ Len(s) \in Nat /\ Len(s) >= 1
      /\ DOMAIN u = 1..Len(u) /\ DOMAIN s = 1..Len(s)
      /\ Head(s) \in Command
  BY HeadTailProperties, LenProperties, EmptySeq
<1> HIDE DEF u
<1>2. ASSUME NEW l \in StoredAt(u)
      PROVE  l \in Nat /\ l + 1 \in StoredAt(s) /\ u[l].msg = s[l + 1].msg
  <2>1. l \in 1..Len(u) /\ u[l].op = "STORE" /\ u[l].msg # 0
    BY <1>1 DEF StoredAt
  <2>2. u[l] = s[l + 1] /\ l + 1 \in 1..Len(s)
    BY <1>1, <2>1
  <2> QED BY <1>1, <2>1, <2>2 DEF StoredAt
<1>3. Carried(u) \subseteq Carried(s)
  BY <1>2, CarriedWithin
<1>4. CarriedOnce(u)
  <2>1. ASSUME NEW l \in StoredAt(u), NEW m \in StoredAt(u), u[l].msg = u[m].msg
        PROVE  l = m
    <3>1. l + 1 = m + 1
      BY <1>2, <2>1 DEF CarriedOnce
    <3> QED BY <1>2, <2>1, <3>1
  <2> QED BY <2>1 DEF CarriedOnce
<1>5. ASSUME NEW l \in StoredAt(s), l # 1
      PROVE  \E m \in StoredAt(u) : s[l].msg = u[m].msg
  <2>1. l \in 1..Len(s) /\ s[l].op = "STORE" /\ s[l].msg # 0
    BY <1>1 DEF StoredAt
  <2> DEFINE m == l - 1
  <2>2. m \in 1..Len(u) /\ m + 1 = l
    BY <1>1, <1>5, <2>1
  <2> HIDE DEF m
  <2>3. m \in StoredAt(u) /\ s[l].msg = u[m].msg
    BY <1>1, <2>1, <2>2 DEF StoredAt
  <2> QED BY <2>3
<1>6. Head(s).op # "STORE" => 1 \notin StoredAt(s)
  BY <1>1 DEF StoredAt
<1>7. Head(s).op # "STORE" => Carried(s) \subseteq Carried(u)
  BY <1>5, <1>6, CarriedWithin
<1>8. Carried(s) \ {Head(s).msg} \subseteq Carried(u)
  BY <1>1, <1>5 DEF Carried
<1>9. ASSUME Head(s).msg # 0
      PROVE  Head(s).msg \in Carried(s) \ Carried(u)
  <2>1. 1 \in StoredAt(s)
    <3>1. 1 \in DOMAIN s /\ s[1] \in Command /\ s[1].msg # 0
      BY <1>1, <1>9
    <3>2. s[1].op = "STORE"
      BY <3>1, OnlyStoresCarry
    <3>3. 1 \in DOMAIN s /\ s[1].op = "STORE" /\ s[1].msg # 0
      BY <3>1, <3>2, Zenon
    <3> QED BY <3>3, Zenon DEF StoredAt
  <2>2. ASSUME NEW l \in StoredAt(u) PROVE u[l].msg # s[1].msg
    <3>1. l \in 1..Len(u) /\ l + 1 \in StoredAt(s) /\ u[l].msg = s[l + 1].msg
      BY <1>1, <1>2 DEF StoredAt
    <3>2. l + 1 # 1
      BY <1>1, <3>1
    <3> QED BY <2>1, <3>1, <3>2 DEF CarriedOnce
  <2> QED BY <1>1, <2>1, <2>2 DEF Carried
<1> QED BY <1>1, <1>3, <1>4, <1>7, <1>8, <1>9 DEF u

\* The commands of a flush carry the flushed messages, one STORE each.
LEMMA StoresCarry ==
    ASSUME NEW S \in SUBSET (Nat \ {0}), IsFiniteSet(S), NEW order \in Listings(S)
    PROVE  /\ Stores(order) \in Seq(Command)
           /\ Carried(Stores(order)) = S
           /\ CarriedOnce(Stores(order))
<1> DEFINE n == Cardinality(S)
           u == Stores(order)
<1>1. n \in Nat
  BY FS_CardinalityType
<1>2. /\ order \in [1..n -> S]
      /\ \A j, k \in 1..n : order[j] = order[k] => j = k
      /\ \A i \in S : \E k \in 1..n : order[k] = i
  BY DEF Listings, Bijection, Injection, Surjection, IsInjective
<1> HIDE DEF n
<1>3. u = [k \in 1..n |-> Store(order[k])]
  BY <1>2 DEF Stores
<1> HIDE DEF u
<1>4. \A k \in 1..n : /\ u[k] = Store(order[k]) /\ order[k] \in Nat /\ order[k] # 0
                      /\ u[k].op = "STORE" /\ u[k].msg = order[k] /\ u[k] \in Command
  <2>1. \A k \in 1..n : u[k] = Store(order[k]) /\ order[k] \in Nat /\ order[k] # 0
    BY <1>2, <1>3
  <2> QED BY <2>1, CommandFields
<1>5. u \in [1..n -> Command]
  BY <1>3, <1>4
<1>6. u \in Seq(Command)
  BY <1>1, <1>5
<1>7. StoredAt(u) = 1..n
  BY <1>4, <1>5 DEF StoredAt
<1>8. CarriedOnce(u)
  BY <1>2, <1>4, <1>7 DEF CarriedOnce
<1>9. \A i \in Carried(u) : i \in S
  BY <1>2, <1>4, <1>7 DEF Carried
<1>10. \A i \in S : i \in Carried(u)
  BY <1>2, <1>4, <1>7 DEF Carried
<1> QED BY <1>6, <1>8, <1>9, <1>10 DEF u

\* Receipts, finds and single commands other than a message's STORE are plain.
LEMMA PlainCommands ==
    /\ << >> \in Seq(Command) /\ Plain(<< >>)
    /\ \A n \in Nat : Receipts(n) \in Seq(Command) /\ Plain(Receipts(n))
    /\ <<Receipt>> \in Seq(Command) /\ Plain(<<Receipt>>)
    /\ <<Fetch>> \in Seq(Command) /\ Plain(<<Fetch>>)
    /\ <<Register>> \in Seq(Command) /\ Plain(<<Register>>)
    /\ \A n \in Nat : \A ps \in [1..n -> Peers] :
           Finds(ps) \in Seq(Command) /\ Plain(Finds(ps))
<1>1. \A n \in Nat : Receipts(n) \in [1..n -> Command] /\ Plain(Receipts(n))
  BY CommandFields DEF Receipts, Plain, StoredAt, Receipt, Store
<1>2. \A n \in Nat : \A ps \in [1..n -> Peers] :
          Finds(ps) \in [1..n -> Command] /\ Plain(Finds(ps))
  BY CommandFields DEF Finds, Plain, StoredAt, Find
<1>3. /\ << >> \in Seq(Command) /\ Plain(<< >>)
      /\ <<Receipt>> \in Seq(Command) /\ Plain(<<Receipt>>)
      /\ <<Fetch>> \in Seq(Command) /\ Plain(<<Fetch>>)
      /\ <<Register>> \in Seq(Command) /\ Plain(<<Register>>)
  BY CommandFields DEF Plain, StoredAt, Receipt, Store, Fetch, Register
<1> QED BY <1>1, <1>2, <1>3

-----------------------------------------------------------------------------
(***************************************************************************)
(* The two halves of a step of the lane: what is left of it, and what the  *)
(* step adds.                                                              *)
(***************************************************************************)

\* t is what is left of the lane s: it carries nothing s does not.
LeftOf(s, t) ==
    /\ t \in Seq(Command)
    /\ Carried(t) \subseteq Carried(s) /\ CarriedOnce(t)
    /\ HasNoFind(s) => HasNoFind(t)

\* t adds exactly the messages of S to a lane, and asks for no peer.
Adds(t, S) ==
    t \in Seq(Command) /\ Carried(t) = S /\ CarriedOnce(t) /\ HasNoFind(t)

\* A lane without a FIND stays without one when commands of that kind are added.
LEMMA NoFindConcat ==
    ASSUME NEW s \in Seq(Command), NEW t \in Seq(Command), HasNoFind(s), HasNoFind(t)
    PROVE  HasNoFind(s \o t)
<1>1. /\ DOMAIN (s \o t) = 1..(Len(s) + Len(t))
      /\ \A k \in 1..Len(s) : (s \o t)[k] = s[k]
      /\ \A k \in 1..Len(t) : (s \o t)[Len(s) + k] = t[k]
      /\ Len(s) \in Nat /\ Len(t) \in Nat
      /\ DOMAIN s = 1..Len(s) /\ DOMAIN t = 1..Len(t)
  BY ConcatProperties, LenProperties
<1>2. SUFFICES ASSUME NEW k \in 1..(Len(s) + Len(t)) PROVE (s \o t)[k].op # "FIND"
  BY <1>1 DEF HasNoFind
<1>3. CASE k <= Len(s)
  BY <1>1, <1>3 DEF HasNoFind
<1>4. CASE ~(k <= Len(s))
  <2> DEFINE l == k - Len(s)
  <2>1. l \in 1..Len(t) /\ k = Len(s) + l
    BY <1>1, <1>4
  <2> HIDE DEF l
  <2>2. (s \o t)[k] = t[l]
    BY <1>1, <2>1
  <2> QED BY <1>1, <2>1, <2>2 DEF HasNoFind
<1> QED BY <1>3, <1>4

\* Nothing, everything but the oldest command, everything after the first k.
LEMMA LeftOfLane ==
    ASSUME NEW s \in Seq(Command), CarriedOnce(s)
    PROVE  /\ LeftOf(s, s)
           /\ s # << >> => LeftOf(s, Tail(s))
           /\ \A k \in 0..Len(s) : LeftOf(s, SubSeq(s, k + 1, Len(s)))
<1>1. LeftOf(s, s)
  BY DEF LeftOf
<1>2. ASSUME s # << >> PROVE LeftOf(s, Tail(s))
  <2>1. /\ Tail(s) \in Seq(Command) /\ Carried(Tail(s)) \subseteq Carried(s)
        /\ CarriedOnce(Tail(s))
    BY <1>2, CarriedTail
  <2>2. /\ DOMAIN Tail(s) = 1..(Len(s) - 1) /\ DOMAIN s = 1..Len(s) /\ Len(s) \in Nat
        /\ \A l \in 1..(Len(s) - 1) : Tail(s)[l] = s[l + 1] /\ l + 1 \in 1..Len(s)
    BY <1>2, HeadTailProperties, LenProperties
  <2>3. HasNoFind(s) => HasNoFind(Tail(s))
    BY <2>2 DEF HasNoFind
  <2> QED BY <2>1, <2>3 DEF LeftOf
<1>3. ASSUME NEW k \in 0..Len(s) PROVE LeftOf(s, SubSeq(s, k + 1, Len(s)))
  <2> DEFINE u == SubSeq(s, k + 1, Len(s))
  <2>1. u \in Seq(Command) /\ Carried(u) \subseteq Carried(s) /\ CarriedOnce(u)
    BY CarriedCut
  <2>2. Len(s) \in Nat /\ DOMAIN s = 1..Len(s)
    BY LenProperties
  <2>3. /\ Len(u) = IF k + 1 <= Len(s) THEN Len(s) - (k + 1) + 1 ELSE 0
        /\ \A l \in 1..(Len(s) - (k + 1) + 1) : u[l] = s[(k + 1) + l - 1]
    BY CutOff
  <2> HIDE DEF u
  <2>4. DOMAIN u = 1..Len(u)
    BY <2>1, LenProperties
  <2>5. HasNoFind(s) => HasNoFind(u)
    <3>1. SUFFICES ASSUME HasNoFind(s), NEW l \in 1..Len(u) PROVE u[l].op # "FIND"
      BY <2>4 DEF HasNoFind
    <3>2. k + 1 <= Len(s)
      <4>1. CASE ~(k + 1 <= Len(s))
        <5>1. Len(u) = 0
          BY <2>3, <4>1
        <5> QED BY <5>1, <3>1
      <4> QED BY <4>1
    <3>3. Len(u) = Len(s) - (k + 1) + 1
      BY <2>3, <3>2
    <3>4. l \in 1..(Len(s) - (k + 1) + 1)
      BY <3>1, <3>3
    <3>5. u[l] = s[(k + 1) + l - 1]
      BY <2>3, <3>4
    <3>6. (k + 1) + l - 1 \in 1..Len(s)
      BY <2>2, <3>4
    <3> QED BY <2>2, <3>1, <3>5, <3>6 DEF HasNoFind
  <2> QED BY <2>1, <2>5 DEF LeftOf, u
<1> QED BY <1>1, <1>2, <1>3

\* Additions of different messages add up.
LEMMA AddsConcat ==
    ASSUME NEW S, NEW T, NEW s, NEW t, Adds(s, S), Adds(t, T), S \cap T = {}
    PROVE  Adds(s \o t, S \cup T)
BY CarriedConcat, NoFindConcat DEF Adds

\* A flush adds the flushed messages.
LEMMA AddsStores ==
    ASSUME NEW S \in SUBSET (Nat \ {0}), IsFiniteSet(S), NEW order \in Listings(S)
    PROVE  Adds(Stores(order), S)
<1>1. HasNoFind(Stores(order))
  BY DEF HasNoFind, Stores, Store
<1> QED BY <1>1, StoresCarry DEF Adds

\* Everything else adds no message.
LEMMA AddsNothing ==
    /\ Adds(<< >>, {}) /\ Adds(<<Receipt>>, {}) /\ Adds(<<Fetch>>, {}) /\ Adds(<<Register>>, {})
    /\ \A n \in Nat : Adds(Receipts(n), {})
<1>1. \A t \in Seq(Command) : Plain(t) => Carried(t) = {} /\ CarriedOnce(t)
  BY DEF Plain, Carried, CarriedOnce
<1>2. /\ HasNoFind(<< >>) /\ HasNoFind(<<Receipt>>) /\ HasNoFind(<<Fetch>>)
      /\ HasNoFind(<<Register>>)
      /\ \A n \in Nat : HasNoFind(Receipts(n))
  BY DEF HasNoFind, Receipts, Receipt, Store, Fetch, Register
<1> QED BY <1>1, <1>2, PlainCommands DEF Adds
=============================================================================
