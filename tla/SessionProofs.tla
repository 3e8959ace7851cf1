---------------------------- MODULE SessionProofs ---------------------------
(***************************************************************************)
(* Sign-in, sign-out and the identities, for any accounts and any number   *)
(* of starts.                                                              *)
(***************************************************************************)
EXTENDS Session, SequenceTheorems, TLAPS

Cmd == [op : Ops, nick : Nicks, key : Nat, stored : BOOLEAN]
FormOps == {"AUTH_REGISTER", "AUTH_LOGIN"}

\* The form waits for one command at most, with the nickname that is typed.
FormInv ==
    /\ \A i \in DOMAIN asked : asked[i].op \in FormOps =>
          /\ loading /\ asked[i].nick = typed
          /\ asked[i].op = "AUTH_LOGIN" => pending = typed
          /\ \A j \in DOMAIN asked : asked[j].op \in FormOps => i = j

\* The saved session is asked about first, before anyone is in.
VerifyInv ==
    /\ saved # NoSession => saved.nick = saved.token
    /\ \A i \in DOMAIN asked : asked[i].op = "AUTH_VERIFY" =>
          i = 1 /\ shown = None /\ saved = [nick |-> asked[i].nick, token |-> asked[i].nick]

\* The identity in use is the one stored, and so are those registered.
KeyInv ==
    /\ ready => current \in Nicks /\ identities[current] # 0 /\ mine = identities[current]
    /\ \A i \in DOMAIN asked : asked[i].stored =>
          asked[i].key = identities[asked[i].nick] /\ identities[asked[i].nick] # 0

IInv == TypeOK /\ FormInv /\ VerifyInv /\ KeyInv /\ ShownIsSaved

\* The commands after a step: without the first d, and with those of extra behind them.
Kept(d, extra) ==
    \A j \in DOMAIN asked' :
        \/ j + d \in DOMAIN asked /\ asked'[j] = asked[j + d]
        \/ j + d \notin DOMAIN asked /\ j + d > Len(asked) /\ asked'[j] \in extra

-----------------------------------------------------------------------------
LEMMA QueueTypes ==
    ASSUME TypeOK
    PROVE  /\ asked \in Seq(Cmd) /\ Len(asked) \in Nat /\ DOMAIN asked = 1..Len(asked)
           /\ \A i \in DOMAIN asked :
                 /\ asked[i] \in Cmd /\ asked[i].op \in Ops /\ asked[i].nick \in Nicks
                 /\ asked[i].key \in Nat /\ asked[i].stored \in BOOLEAN
<1>1. asked \in Seq(Cmd)
  BY DEF TypeOK, Cmd
<1>2. /\ Len(asked) \in Nat /\ DOMAIN asked = 1..Len(asked)
      /\ \A i \in DOMAIN asked : asked[i] \in Cmd
  BY <1>1
<1>3. \A i \in DOMAIN asked : /\ asked[i].op \in Ops /\ asked[i].nick \in Nicks
                              /\ asked[i].key \in Nat /\ asked[i].stored \in BOOLEAN
  BY <1>2 DEF Cmd
<1> QED BY <1>1, <1>2, <1>3

\* The ways in which the queue changes.
LEMMA NothingAsked ==
    ASSUME TypeOK, asked' = asked
    PROVE  Kept(0, {}) /\ asked' \in Seq(Cmd)
BY QueueTypes DEF Kept

LEMMA OneAsked ==
    ASSUME TypeOK, NEW c \in Cmd, asked' = Append(asked, c)
    PROVE  Kept(0, {c}) /\ asked' \in Seq(Cmd) /\ \A j \in DOMAIN asked' : j <= Len(asked) + 1
<1>1. asked \in Seq(Cmd) /\ Len(asked) \in Nat /\ DOMAIN asked = 1..Len(asked)
  BY QueueTypes
<1>2. /\ asked' \in Seq(Cmd) /\ DOMAIN asked' = 1..(Len(asked) + 1)
      /\ \A j \in 1..Len(asked) : asked'[j] = asked[j]
      /\ asked'[Len(asked) + 1] = c
  BY <1>1
<1> QED BY <1>1, <1>2 DEF Kept

LEMMA TwoAsked ==
    ASSUME TypeOK, NEW c \in Cmd, NEW d \in Cmd, asked' = asked \o <<c, d>>
    PROVE  Kept(0, {c, d}) /\ asked' \in Seq(Cmd)
<1>1. asked \in Seq(Cmd) /\ Len(asked) \in Nat /\ DOMAIN asked = 1..Len(asked)
  BY QueueTypes
<1>2. <<c, d>> \in Seq(Cmd) /\ Len(<<c, d>>) = 2 /\ <<c, d>>[1] = c /\ <<c, d>>[2] = d
  OBVIOUS
<1>3. /\ asked' \in Seq(Cmd) /\ Len(asked') = Len(asked) + 2
      /\ \A j \in 1..Len(asked) : asked'[j] = asked[j]
      /\ \A j \in 1..2 : asked'[Len(asked) + j] = <<c, d>>[j]
  BY <1>1, <1>2, ConcatProperties
<1>4. DOMAIN asked' = 1..(Len(asked) + 2)
  BY <1>1, <1>3
<1>5. ASSUME NEW j \in DOMAIN asked', j \notin DOMAIN asked
      PROVE  j > Len(asked) /\ asked'[j] \in {c, d}
  <2>1. j = Len(asked) + 1 \/ j = Len(asked) + 2
    BY <1>1, <1>4, <1>5
  <2> QED BY <1>1, <1>2, <1>3, <2>1
<1>6. ASSUME NEW j \in DOMAIN asked'
      PROVE  j + 0 = j
  BY <1>1, <1>4, <1>6
<1> QED BY <1>1, <1>3, <1>5, <1>6 DEF Kept

LEMMA OneAnswered ==
    ASSUME TypeOK, asked # << >>
    PROVE  /\ Tail(asked) \in Seq(Cmd) /\ Len(Tail(asked)) = Len(asked) - 1
           /\ Head(asked) = asked[1] /\ 1 \in DOMAIN asked
           /\ \A j \in DOMAIN Tail(asked) :
                 j + 1 \in DOMAIN asked /\ j \in Nat \ {0} /\ Tail(asked)[j] = asked[j + 1]
<1>1. asked \in Seq(Cmd) /\ Len(asked) \in Nat /\ DOMAIN asked = 1..Len(asked)
  BY QueueTypes
<1>2. Len(asked) # 0
  BY <1>1, EmptySeq
<1>3. /\ Tail(asked) \in Seq(Cmd) /\ Len(Tail(asked)) = Len(asked) - 1
      /\ \A j \in 1..(Len(asked) - 1) : Tail(asked)[j] = asked[j + 1]
  BY <1>1, <1>2, HeadTailProperties
<1>4. DOMAIN Tail(asked) = 1..(Len(asked) - 1)
  BY <1>3
<1> QED BY <1>1, <1>2, <1>3, <1>4

LEMMA AnsweredAndAsked ==
    ASSUME TypeOK, asked # << >>, NEW extra \in SUBSET Cmd,
           \/ asked' = Tail(asked)
           \/ \E c \in extra : asked' = Append(Tail(asked), c)
    PROVE  Kept(1, extra) /\ asked' \in Seq(Cmd) /\ \A j \in DOMAIN asked' : j <= Len(asked)
<1>1. /\ Tail(asked) \in Seq(Cmd) /\ Len(Tail(asked)) = Len(asked) - 1
      /\ Len(asked) \in Nat /\ DOMAIN asked = 1..Len(asked)
      /\ \A j \in DOMAIN Tail(asked) : j + 1 \in DOMAIN asked /\ Tail(asked)[j] = asked[j + 1]
  BY QueueTypes, OneAnswered
<1>2. CASE asked' = Tail(asked)
  BY <1>1, <1>2 DEF Kept
<1>3. ASSUME NEW c \in extra, asked' = Append(Tail(asked), c)
      PROVE  Kept(1, extra) /\ asked' \in Seq(Cmd) /\ \A j \in DOMAIN asked' : j <= Len(asked)
  <2> PICK t \in Seq(Cmd) : t = Tail(asked)
    BY <1>1
  <2> PICK k \in Nat : k = Len(t)
    OBVIOUS
  <2>1. k = Len(asked) - 1 /\ DOMAIN t = 1..k /\ Len(asked) = k + 1
    BY <1>1
  <2>2. c \in Cmd
    BY <1>3
  <2>3. /\ asked' \in Seq(Cmd) /\ DOMAIN asked' = 1..(k + 1)
        /\ \A j \in 1..k : asked'[j] = t[j]
        /\ asked'[k + 1] = c
    BY <1>3, <2>2
  <2>4. ASSUME NEW j \in 1..k
        PROVE  j + 1 \in DOMAIN asked /\ asked'[j] = asked[j + 1]
    BY <1>1, <2>1, <2>3
  <2>5. k + 1 + 1 \notin DOMAIN asked /\ k + 1 + 1 > Len(asked)
    BY <1>1, <2>1
  <2>6. \A j \in 1..(k + 1) : j \in 1..k \/ j = k + 1
    OBVIOUS
  <2>7. Kept(1, extra)
    BY <1>3, <2>3, <2>4, <2>5, <2>6 DEF Kept
  <2> QED BY <2>1, <2>3, <2>7
<1> QED BY <1>2, <1>3

LEMMA SomeLost ==
    ASSUME TypeOK, NEW n \in 0..Len(asked), asked' = SubSeq(asked, n + 1, Len(asked))
    PROVE  Kept(n, {}) /\ asked' \in Seq(Cmd)
<1>1. asked \in Seq(Cmd) /\ Len(asked) \in Nat /\ DOMAIN asked = 1..Len(asked)
  BY QueueTypes
<1> PICK len \in Nat : len = Len(asked)
  BY <1>1
<1>2. /\ asked' \in Seq(Cmd) /\ Len(asked') = len - n
      /\ \A j \in 1..(len - n) : asked'[j] = asked[n + 1 + j - 1]
  <2>1. n + 1 \in Int /\ len \in Int /\ \A i \in (n + 1)..len : asked[i] \in Cmd
    BY <1>1
  <2>2. /\ asked' \in Seq(Cmd)
        /\ Len(asked') = IF n + 1 <= len THEN len - (n + 1) + 1 ELSE 0
        /\ \A j \in 1..(len - (n + 1) + 1) : asked'[j] = asked[n + 1 + j - 1]
    BY <2>1, SubSeqProperties
  <2> QED BY <2>2
<1>3. ASSUME NEW j \in DOMAIN asked'
      PROVE  j + n \in DOMAIN asked /\ asked'[j] = asked[j + n]
  <2>1. j \in 1..(len - n)
    BY <1>2
  <2>2. n + 1 + j - 1 = j + n /\ j + n \in 1..len
    BY <2>1
  <2> QED BY <1>1, <1>2, <2>1, <2>2
<1> QED BY <1>2, <1>3 DEF Kept
-----------------------------------------------------------------------------
\* The form: nothing that is not its own disturbs it, and its own answer frees it.
LEMMA FormUntouched ==
    ASSUME TypeOK, FormInv, NEW d \in Nat, NEW extra \in SUBSET Cmd, Kept(d, extra),
           asked' \in Seq(Cmd), UNCHANGED formVars, \A c \in extra : c.op \notin FormOps
    PROVE  FormInv'
<1>1. DOMAIN asked' \subseteq Nat /\ UNCHANGED <<typed, loading, pending>>
  BY DEF formVars
<1>2. ASSUME NEW i \in DOMAIN asked', asked'[i].op \in FormOps
      PROVE  i + d \in DOMAIN asked /\ asked'[i] = asked[i + d]
  BY <1>2 DEF Kept
<1>3. ASSUME NEW i \in DOMAIN asked', asked'[i].op \in FormOps,
             NEW j \in DOMAIN asked', asked'[j].op \in FormOps
      PROVE  i = j
  <2>1. i + d = j + d
    BY <1>2, <1>3 DEF FormInv
  <2> QED BY <1>1, <2>1
<1>4. ASSUME NEW i \in DOMAIN asked', asked'[i].op \in FormOps
      PROVE  /\ loading' /\ asked'[i].nick = typed'
             /\ asked'[i].op = "AUTH_LOGIN" => pending' = typed'
  BY <1>1, <1>2, <1>4 DEF FormInv
<1> QED BY <1>3, <1>4 DEF FormInv

LEMMA FormAnswered ==
    ASSUME TypeOK, FormInv, asked # << >>, Head(asked).op \in FormOps,
           NEW extra \in SUBSET Cmd, Kept(1, extra), asked' \in Seq(Cmd)
    PROVE  /\ \A i \in DOMAIN asked' : asked'[i].op \in FormOps => asked'[i] \in extra /\ i >= Len(asked)
           /\ loading /\ Head(asked).nick = typed
           /\ Head(asked).op = "AUTH_LOGIN" => pending = typed
<1>1. Head(asked) = asked[1] /\ 1 \in DOMAIN asked /\ Len(asked) \in Nat
  BY OneAnswered, QueueTypes
<1>2. /\ loading /\ Head(asked).nick = typed
      /\ Head(asked).op = "AUTH_LOGIN" => pending = typed
      /\ \A j \in DOMAIN asked : asked[j].op \in FormOps => j = 1
  BY <1>1 DEF FormInv
<1>3. ASSUME NEW i \in DOMAIN asked', asked'[i].op \in FormOps
      PROVE  asked'[i] \in extra /\ i >= Len(asked)
  <2>1. i \in Nat \ {0}
    BY <1>3
  <2>2. i + 1 # 1
    BY <2>1
  <2>3. ~(i + 1 \in DOMAIN asked /\ asked'[i] = asked[i + 1])
    BY <1>2, <1>3, <2>2
  <2>4. i + 1 > Len(asked) /\ asked'[i] \in extra
    BY <1>3, <2>3 DEF Kept
  <2> QED BY <1>1, <2>1, <2>4
<1> QED BY <1>2, <1>3

\* The saved session: with a command less in front, nobody asks about it any more.
LEMMA VerifyUntouched ==
    ASSUME TypeOK, VerifyInv, NEW extra \in SUBSET Cmd, Kept(0, extra), asked' \in Seq(Cmd),
           UNCHANGED <<saved, shown>>, \A c \in extra : c.op # "AUTH_VERIFY"
    PROVE  VerifyInv'
<1>1. ASSUME NEW i \in DOMAIN asked', asked'[i].op = "AUTH_VERIFY"
      PROVE  i \in DOMAIN asked /\ asked'[i] = asked[i]
  <2>1. i \in Nat /\ i + 0 = i
    BY <1>1
  <2> QED BY <1>1, <2>1 DEF Kept
<1> QED BY <1>1 DEF VerifyInv

LEMMA VerifyAnswered ==
    ASSUME TypeOK, VerifyInv, NEW d \in Nat \ {0}, NEW extra \in SUBSET Cmd, Kept(d, extra),
           asked' \in Seq(Cmd), saved' # NoSession => saved'.nick = saved'.token,
           \A c \in extra : c.op # "AUTH_VERIFY"
    PROVE  VerifyInv'
<1>1. ASSUME NEW i \in DOMAIN asked', asked'[i].op = "AUTH_VERIFY"
      PROVE  FALSE
  <2>1. i \in Nat \ {0}
    BY <1>1
  <2>2. i + d # 1
    BY <2>1
  <2>3. i + d \in DOMAIN asked /\ asked'[i] = asked[i + d]
    BY <1>1 DEF Kept
  <2> QED BY <1>1, <2>2, <2>3 DEF VerifyInv
<1> QED BY <1>1 DEF VerifyInv, NoSession

\* Registered identities stay right while stored identities stay.
LEMMA KeysKept ==
    ASSUME TypeOK, KeyInv, NEW d \in Nat, NEW extra \in SUBSET Cmd, Kept(d, extra),
           \A n \in Nicks : identities[n] # 0 => identities'[n] = identities[n],
           \A c \in extra : c.stored => c.key = identities'[c.nick] /\ identities'[c.nick] # 0,
           ready' => current' \in Nicks /\ identities'[current'] # 0
                     /\ mine' = identities'[current']
    PROVE  KeyInv'
<1>1. ASSUME NEW i \in DOMAIN asked', asked'[i].stored
      PROVE  asked'[i].key = identities'[asked'[i].nick] /\ identities'[asked'[i].nick] # 0
  <2>1. CASE i + d \in DOMAIN asked /\ asked'[i] = asked[i + d]
    <3>1. asked[i + d].nick \in Nicks
      BY <2>1, QueueTypes
    <3>2. asked[i + d].key = identities[asked[i + d].nick] /\ identities[asked[i + d].nick] # 0
      BY <1>1, <2>1 DEF KeyInv
    <3> QED BY <2>1, <3>1, <3>2
  <2>2. CASE asked'[i] \in extra
    BY <1>1, <2>2
  <2> QED BY <1>1, <2>1, <2>2 DEF Kept
<1> QED BY <1>1 DEF KeyInv

\* A command of the form or of sign-out registers nothing.
LEMMA CommandType ==
    ASSUME NEW op \in Ops, NEW n \in Nicks
    PROVE  /\ Command(op, n) \in Cmd /\ Command(op, n).op = op /\ Command(op, n).nick = n
           /\ ~Command(op, n).stored
BY DEF Command, Cmd

\* An identity is stored once.
LEMMA StoredOnce ==
    ASSUME TypeOK, NEW n \in Nicks, identities' = Stored(n)
    PROVE  /\ identities' \in [Nicks -> Nat] /\ identities'[n] # 0
           /\ \A m \in Nicks : identities[m] # 0 => identities'[m] = identities[m]
<1>1. identities \in [Nicks -> Nat] /\ mine \in Nat \ {0}
  BY DEF TypeOK
<1> QED BY <1>1 DEF Stored

LEMMA SetCurrentKeys ==
    ASSUME TypeOK, KeyInv, NEW n \in Nicks, SetCurrent(n)
    PROVE  /\ identities' \in [Nicks -> Nat] /\ mine' \in Nat \ {0} /\ ready' \in BOOLEAN
           /\ current' = n
           /\ \A m \in Nicks : identities[m] # 0 => identities'[m] = identities[m]
           /\ ready' => identities'[n] # 0 /\ mine' = identities'[n]
<1>1. identities \in [Nicks -> Nat] /\ mine \in Nat \ {0}
  BY DEF TypeOK
<1>2. CASE ready'
  <2>1. identities' = Stored(n) /\ mine' = identities'[n] /\ current' = n
    BY <1>2 DEF SetCurrent
  <2> QED BY <1>2, <2>1, StoredOnce DEF SetCurrent
<1>3. CASE ~ready'
  BY <1>1, <1>3 DEF SetCurrent
<1> QED BY <1>2, <1>3
-----------------------------------------------------------------------------
\* The program starts with the saved session, in whatever state it was killed.
LEMMA Starting ==
    ASSUME IInv, Start, identities' \in [Nicks -> Nat]
    PROVE  IInv'
<1> USE DEF IInv
<1>1. /\ starts' = starts + 1 /\ mine' = starts' /\ current' = None /\ ready' = FALSE
      /\ listening' = FALSE /\ typed' = None /\ loading' = FALSE /\ pending' = None
      /\ shown' = None /\ up' = FALSE /\ saved' = saved
      /\ asked' = IF saved = NoSession THEN << >> ELSE <<Command("AUTH_VERIFY", saved.token)>>
  BY DEF Start
<1>2. starts \in Nat \ {0} /\ saved \in [nick : Nicks, token : Nicks] \cup {NoSession}
  BY DEF TypeOK
<1>3. starts' \in Nat \ {0}
  BY <1>1, <1>2
<1>4. CASE saved = NoSession
  <2>1. asked' = << >> /\ DOMAIN asked' = {} /\ asked' \in Seq(Cmd)
    BY <1>1, <1>4
  <2>2. TypeOK'
    BY <1>1, <1>2, <1>3, <2>1 DEF TypeOK, MaybeNick, Cmd
  <2> QED BY <1>1, <1>4, <2>1, <2>2 DEF FormInv, VerifyInv, KeyInv, ShownIsSaved
<1>5. CASE saved # NoSession
  <2>1. /\ saved.token \in Nicks /\ saved.nick = saved.token
        /\ saved = [nick |-> saved.token, token |-> saved.token]
    BY <1>2, <1>5 DEF VerifyInv
  <2> PICK c \in Cmd : c = Command("AUTH_VERIFY", saved.token)
    BY <2>1, CommandType DEF Ops
  <2>2. c.op = "AUTH_VERIFY" /\ c.nick = saved.token /\ ~c.stored
    BY <2>1, CommandType DEF Ops
  <2>3. asked' = <<c>> /\ DOMAIN asked' = {1} /\ asked'[1] = c /\ asked' \in Seq(Cmd)
    BY <1>1, <1>5
  <2>4. TypeOK'
    BY <1>1, <1>2, <1>3, <2>3 DEF TypeOK, MaybeNick, Cmd
  <2>5. FormInv'
    BY <2>2, <2>3 DEF FormInv, FormOps
  <2>6. VerifyInv'
    BY <1>1, <2>1, <2>2, <2>3 DEF VerifyInv
  <2>7. KeyInv' /\ ShownIsSaved'
    BY <1>1, <2>2, <2>3 DEF KeyInv, ShownIsSaved
  <2> QED BY <2>4, <2>5, <2>6, <2>7
<1> QED BY <1>4, <1>5

\* An account gets in: it is shown, is the current one, and its own key is registered.
LEMMA Entering ==
    ASSUME IInv, NEW n \in Nicks, asked # << >>, SetCurrent(n), Enter(n, Tail(asked)),
           saved' = [nick |-> n, token |-> n], UNCHANGED <<starts, typed, pending, up>>,
           \/ UNCHANGED loading /\ Head(asked).op \notin FormOps
           \/ loading' = FALSE /\ Head(asked).op \in FormOps
    PROVE  IInv'
<1> USE DEF IInv
<1>1. /\ identities' \in [Nicks -> Nat] /\ mine' \in Nat \ {0} /\ ready' \in BOOLEAN
      /\ current' = n
      /\ \A m \in Nicks : identities[m] # 0 => identities'[m] = identities[m]
      /\ ready' => identities'[n] # 0 /\ mine' = identities'[n]
  BY SetCurrentKeys
<1>2. listening' \in BOOLEAN /\ shown' = n
  BY DEF Enter, TypeOK
<1> PICK c : c = [op |-> "REGISTER", nick |-> n, key |-> mine', stored |-> ready']
  OBVIOUS
<1>3. c \in Cmd /\ c.op = "REGISTER" /\ c.nick = n /\ c.key = mine' /\ c.stored = ready'
  BY <1>1 DEF Cmd, Ops
<1>4. asked' = Tail(asked) \/ asked' = Append(Tail(asked), c)
  BY DEF Enter, Registered
<1>5. Kept(1, {c}) /\ asked' \in Seq(Cmd)
  BY <1>3, <1>4, AnsweredAndAsked
<1>6. TypeOK'
  BY <1>1, <1>2, <1>5 DEF TypeOK, MaybeNick, Cmd
<1>7. FormInv'
  <2>1. CASE UNCHANGED loading
    BY <1>3, <1>5, <2>1, FormUntouched DEF FormOps, formVars
  <2>2. CASE Head(asked).op \in FormOps
    <3>1. \A i \in DOMAIN asked' : asked'[i].op \in FormOps => asked'[i] \in {c}
      BY <1>3, <1>5, <2>2, FormAnswered
    <3>2. \A i \in DOMAIN asked' : asked'[i].op \notin FormOps
      BY <1>3, <3>1 DEF FormOps
    <3> QED BY <3>2 DEF FormInv
  <2> QED BY <2>1, <2>2
<1>8. VerifyInv'
  BY <1>3, <1>5, VerifyAnswered
<1>9. KeyInv'
  BY <1>1, <1>3, <1>5, KeysKept
<1>10. ShownIsSaved'
  BY <1>1, <1>2 DEF ShownIsSaved
<1> QED BY <1>6, <1>7, <1>8, <1>9, <1>10

\* Every other step leaves the identities and the current account alone.
LEMMA Queueing ==
    ASSUME IInv, NEW d \in Nat, NEW extra \in SUBSET Cmd, Kept(d, extra), asked' \in Seq(Cmd),
           UNCHANGED <<identities, coreVars>>,
           \A c \in extra : c.stored => c.key = identities[c.nick] /\ identities[c.nick] # 0
    PROVE  KeyInv'
<1>1. UNCHANGED <<starts, mine, current, ready, listening>>
  BY DEF coreVars
<1>2. ready' => current' \in Nicks /\ identities'[current'] # 0 /\ mine' = identities'[current']
  BY <1>1 DEF IInv, KeyInv
<1>3. \A c \in extra : c.stored => c.key = identities'[c.nick] /\ identities'[c.nick] # 0
  OBVIOUS
<1> QED BY <1>2, <1>3, KeysKept DEF IInv

LEMMA Submitting ==
    ASSUME IInv, NEW n \in Nicks, NEW op \in FormOps, Submit(op, n)
    PROVE  IInv'
<1> USE DEF IInv
<1>1. /\ shown = None /\ ~loading /\ typed' = n /\ loading' = TRUE
      /\ pending' = IF op = "AUTH_LOGIN" THEN n ELSE pending
      /\ asked' = Append(asked, Command(op, n))
      /\ UNCHANGED <<diskVars, coreVars, shown, up>>
  BY DEF Submit
<1> PICK c \in Cmd : c = Command(op, n) /\ c.op = op /\ c.nick = n /\ ~c.stored
  BY CommandType DEF Ops, FormOps
<1>2. /\ Kept(0, {c}) /\ asked' \in Seq(Cmd) /\ \A j \in DOMAIN asked' : j <= Len(asked) + 1
  BY <1>1, OneAsked
<1>3. TypeOK'
  BY <1>1, <1>2 DEF TypeOK, MaybeNick, Cmd, diskVars, coreVars
<1>4. FormInv'
  <2>1. \A i \in DOMAIN asked : asked[i].op \notin FormOps
    BY <1>1 DEF FormInv
  <2>2. ASSUME NEW i \in DOMAIN asked', asked'[i].op \in FormOps
        PROVE  asked'[i] = c /\ i = Len(asked) + 1
    <3>1. i \in Nat /\ i + 0 = i /\ Len(asked) \in Nat
      BY <1>2, <2>2, QueueTypes
    <3>2. i > Len(asked) /\ asked'[i] = c
      BY <1>2, <2>1, <2>2, <3>1 DEF Kept
    <3> QED BY <1>2, <2>2, <3>1, <3>2
  <2> QED BY <1>1, <2>2 DEF FormInv
<1>5. VerifyInv'
  BY <1>1, <1>2, VerifyUntouched DEF diskVars, FormOps
<1>6. KeyInv'
  BY <1>1, <1>2, Queueing DEF diskVars
<1>7. ShownIsSaved'
  BY <1>1 DEF ShownIsSaved
<1> QED BY <1>3, <1>4, <1>5, <1>6, <1>7

LEMMA SigningOut ==
    ASSUME IInv, SignOut
    PROVE  IInv'
<1> USE DEF IInv
<1>1. /\ shown # None /\ saved' = NoSession /\ shown' = None
      /\ asked' = IF saved = NoSession THEN asked
                  ELSE asked \o <<Command("UNREGISTER", saved.nick),
                                  Command("AUTH_LOGOUT", saved.token)>>
      /\ UNCHANGED <<identities, coreVars, formVars, up>>
  BY DEF SignOut
<1>2. saved = [nick |-> shown, token |-> shown] /\ shown \in Nicks
  BY <1>1 DEF ShownIsSaved, TypeOK, MaybeNick
<1>3. saved # NoSession /\ saved.nick = shown /\ saved.token = shown
  <2>1. saved.nick = shown /\ saved.token = shown
    BY <1>2
  <2>2. NoSession.nick = None
    BY DEF NoSession
  <2> QED BY <1>1, <2>1, <2>2
<1> PICK c \in Cmd : c = Command("UNREGISTER", shown) /\ c.op = "UNREGISTER" /\ ~c.stored
  BY <1>2, CommandType DEF Ops
<1> PICK e \in Cmd : e = Command("AUTH_LOGOUT", shown) /\ e.op = "AUTH_LOGOUT" /\ ~e.stored
  BY <1>2, CommandType DEF Ops
<1>4. asked' = asked \o <<c, e>>
  BY <1>1, <1>3
<1>5. Kept(0, {c, e}) /\ asked' \in Seq(Cmd) /\ {c, e} \in SUBSET Cmd
  BY <1>4, TwoAsked
<1>6. TypeOK'
  BY <1>1, <1>5 DEF TypeOK, MaybeNick, Cmd, coreVars, formVars
<1>7. FormInv'
  BY <1>1, <1>5, FormUntouched DEF FormOps
<1>8. VerifyInv'
  <2>1. ASSUME NEW i \in DOMAIN asked', asked'[i].op = "AUTH_VERIFY"
        PROVE  FALSE
    <3>1. i \in Nat /\ i + 0 = i
      BY <1>5, <2>1
    <3>2. i \in DOMAIN asked /\ asked[i].op = "AUTH_VERIFY"
      BY <1>5, <2>1, <3>1 DEF Kept
    <3> QED BY <1>1, <3>2 DEF VerifyInv
  <2> QED BY <1>1, <2>1 DEF VerifyInv, NoSession
<1>9. KeyInv'
  BY <1>1, <1>5, Queueing
<1>10. ShownIsSaved'
  BY <1>1 DEF ShownIsSaved
<1> QED BY <1>6, <1>7, <1>8, <1>9, <1>10
\* AUTH_REG_OK passes the form on to the login; an error frees it, as AUTH_LOGIN_ERR does.
LEMMA FormAnswers ==
    ASSUME IInv, RegisterAnswered \/ LoginFailed
    PROVE  IInv'
<1> USE DEF IInv
<1>1. /\ asked # << >> /\ Head(asked).op \in FormOps /\ UNCHANGED <<diskVars, coreVars, typed, shown, up>>
  BY DEF RegisterAnswered, LoginFailed, Answered, FormOps
<1>2. /\ Head(asked) = asked[1] /\ 1 \in DOMAIN asked
      /\ loading /\ Head(asked).nick = typed /\ typed \in Nicks
  <2>1. Head(asked) = asked[1] /\ 1 \in DOMAIN asked
    BY <1>1, OneAnswered
  <2> QED BY <1>1, <2>1, QueueTypes DEF FormInv
<1> PICK c \in Cmd : c = Command("AUTH_LOGIN", typed) /\ c.op = "AUTH_LOGIN" /\ c.nick = typed /\ ~c.stored
  BY <1>2, CommandType DEF Ops
<1>3. \/ pending' = typed /\ asked' = Append(Tail(asked), c) /\ UNCHANGED loading
      \/ loading' = FALSE /\ asked' = Tail(asked) /\ UNCHANGED pending
  BY DEF RegisterAnswered, LoginFailed
<1>4. /\ Kept(1, {c}) /\ asked' \in Seq(Cmd) /\ {c} \in SUBSET Cmd
      /\ \A j \in DOMAIN asked' : j <= Len(asked)
  BY <1>1, <1>3, AnsweredAndAsked
<1>5. TypeOK'
  BY <1>1, <1>2, <1>3, <1>4 DEF TypeOK, MaybeNick, Cmd, diskVars, coreVars
<1>6. \A i \in DOMAIN asked' : asked'[i].op \in FormOps => asked'[i] = c /\ i = Len(asked)
  <2>1. \A i \in DOMAIN asked' : asked'[i].op \in FormOps => asked'[i] \in {c} /\ i >= Len(asked)
    BY <1>1, <1>4, FormAnswered
  <2>2. DOMAIN asked' \subseteq Nat /\ Len(asked) \in Nat
    BY <1>4, QueueTypes
  <2> QED BY <1>4, <2>1, <2>2
<1>7. FormInv'
  <2>1. CASE pending' = typed /\ UNCHANGED loading
    BY <1>1, <1>2, <1>6, <2>1 DEF FormInv
  <2>2. CASE asked' = Tail(asked)
    <3>1. \A j \in DOMAIN asked' : j < Len(asked)
      <4>1. /\ Len(Tail(asked)) = Len(asked) - 1 /\ Len(asked) \in Nat
            /\ DOMAIN asked' = 1..Len(asked')
        BY <1>1, <1>4, OneAnswered, QueueTypes
      <4> QED BY <2>2, <4>1
    <3>2. Len(asked) \in Nat
      BY QueueTypes
    <3> QED BY <1>6, <3>1, <3>2 DEF FormInv
  <2> QED BY <1>3, <2>1, <2>2
<1>8. VerifyInv'
  BY <1>1, <1>4, VerifyAnswered DEF VerifyInv, diskVars
<1>9. KeyInv'
  BY <1>1, <1>4, Queueing DEF diskVars
<1>10. ShownIsSaved'
  BY <1>1 DEF ShownIsSaved, diskVars, coreVars
<1> QED BY <1>5, <1>7, <1>8, <1>9, <1>10

\* An answer that leaves the form alone, or commands that got lost.
LEMMA Shortening ==
    ASSUME IInv, NEW d \in Nat, Kept(d, {}), asked' \in Seq(Cmd), up' \in BOOLEAN,
           UNCHANGED <<identities, coreVars, formVars, shown>>,
           \/ UNCHANGED saved
           \/ d = 1 /\ saved' = NoSession /\ shown = None
    PROVE  IInv'
<1> USE DEF IInv
<1>1. TypeOK'
  BY DEF TypeOK, MaybeNick, Cmd, coreVars, formVars
<1>2. FormInv'
  BY FormUntouched
<1>3. VerifyInv'
  <2>1. CASE d = 0
    BY <2>1, VerifyUntouched
  <2>2. CASE d # 0
    <3>1. saved' # NoSession => saved'.nick = saved'.token
      BY DEF VerifyInv
    <3> QED BY <2>2, <3>1, VerifyAnswered
  <2> QED BY <2>1, <2>2
<1>4. KeyInv'
  BY Queueing
<1>5. ShownIsSaved'
  BY DEF ShownIsSaved, coreVars
<1> QED BY <1>1, <1>2, <1>3, <1>4, <1>5

LEMMA Connecting ==
    ASSUME IInv, Connected
    PROVE  IInv'
<1> USE DEF IInv
<1>1. /\ up' = TRUE /\ UNCHANGED <<diskVars, coreVars, formVars, shown>>
      /\ UNCHANGED <<identities, saved, mine, current, ready, listening>>
      /\ asked' = IF current = None THEN asked ELSE Registered(asked, current)
  BY DEF Connected, diskVars, coreVars
<1>2. CASE asked' = asked
  <2>1. Kept(0, {}) /\ asked' \in Seq(Cmd)
    BY <1>2, NothingAsked
  <2> QED BY <1>1, <2>1, Shortening
<1>3. CASE asked' # asked
  <2> PICK c : c = [op |-> "REGISTER", nick |-> current, key |-> mine, stored |-> ready]
    OBVIOUS
  <2>1. current \in Nicks /\ asked' = Append(asked, c)
    BY <1>1, <1>3 DEF Registered, TypeOK, MaybeNick
  <2>2. /\ c \in Cmd /\ c.op = "REGISTER"
        /\ c.stored => c.key = identities[c.nick] /\ identities[c.nick] # 0
    <3>1. mine \in Nat /\ ready \in BOOLEAN
      BY DEF TypeOK
    <3> QED BY <2>1, <3>1 DEF Cmd, Ops, KeyInv
  <2>3. Kept(0, {c}) /\ asked' \in Seq(Cmd) /\ {c} \in SUBSET Cmd
    BY <2>1, <2>2, OneAsked
  <2>4. TypeOK'
    BY <1>1, <2>3 DEF TypeOK, MaybeNick, Cmd, diskVars, coreVars, formVars
  <2>5. FormInv'
    BY <1>1, <2>2, <2>3, FormUntouched DEF FormOps
  <2>6. VerifyInv'
    BY <1>1, <2>2, <2>3, VerifyUntouched DEF diskVars
  <2>7. KeyInv'
    BY <1>1, <2>2, <2>3, Queueing
  <2>8. ShownIsSaved'
    BY <1>1 DEF ShownIsSaved
  <2> QED BY <2>4, <2>5, <2>6, <2>7, <2>8
<1> QED BY <1>2, <1>3

-----------------------------------------------------------------------------
LEMMA Initially ==
    ASSUME Init
    PROVE  IInv
<1>1. asked = << >> /\ DOMAIN asked = {} /\ saved = NoSession /\ shown = None /\ ready = FALSE
  BY DEF Init
<1>2. TypeOK
  <2>1. /\ starts = 1 /\ mine = 1 /\ current = None /\ typed = None /\ pending = None
        /\ listening = FALSE /\ loading = FALSE /\ up = FALSE
        /\ identities = [n \in Nicks |-> 0]
    BY DEF Init
  <2>2. asked \in Seq([op : Ops, nick : Nicks, key : Nat, stored : BOOLEAN])
    BY <1>1
  <2>3. /\ identities \in [Nicks -> Nat] /\ saved \in {NoSession}
        /\ {starts, mine} \subseteq Nat \ {0}
    BY <1>1, <2>1
  <2>4. /\ {current, typed, pending, shown} \subseteq {None}
        /\ {ready, listening, loading, up} \subseteq BOOLEAN
    BY <1>1, <2>1
  <2> QED BY <2>2, <2>3, <2>4 DEF TypeOK, MaybeNick
<1> QED BY <1>1, <1>2 DEF IInv, FormInv, VerifyInv, KeyInv, ShownIsSaved

LEMMA Step ==
    ASSUME IInv, [Next]_vars
    PROVE  IInv' /\ \A n \in Nicks : identities[n] # 0 => identities'[n] = identities[n]
<1> DEFINE Same == UNCHANGED identities
<1> USE DEF IInv
<1>1. ASSUME NEW n \in Nicks, NEW op \in FormOps, Submit(op, n)
      PROVE  IInv' /\ Same
  BY <1>1, Submitting DEF Submit, diskVars
<1>2. CASE SignOut
  BY <1>2, SigningOut DEF SignOut
<1>3. CASE RegisterAnswered \/ LoginFailed
  BY <1>3, FormAnswers DEF RegisterAnswered, LoginFailed, diskVars
<1>4. CASE LoggedIn
  <2>1. /\ asked # << >> /\ Head(asked).op = "AUTH_LOGIN" /\ SetCurrent(pending)
        /\ saved' = [nick |-> pending, token |-> Head(asked).nick]
        /\ loading' = FALSE /\ Enter(typed, Tail(asked)) /\ UNCHANGED <<starts, typed, pending, up>>
    BY <1>4 DEF LoggedIn, Answered
  <2>2. pending = typed /\ Head(asked).nick = typed /\ typed \in Nicks
    <3>1. Head(asked) = asked[1] /\ 1 \in DOMAIN asked
      BY <2>1, OneAnswered
    <3> QED BY <2>1, <3>1, QueueTypes DEF FormInv, FormOps
  <2>3. IInv'
    BY <2>1, <2>2, Entering DEF FormOps
  <2> QED BY <2>1, <2>2, <2>3, SetCurrentKeys
<1>5. CASE Restored
  <2>1. /\ asked # << >> /\ Head(asked).op = "AUTH_VERIFY" /\ SetCurrent(Head(asked).nick)
        /\ Enter(Head(asked).nick, Tail(asked)) /\ UNCHANGED <<saved, starts, typed, loading, pending, up>>
    BY <1>5 DEF Restored, Answered, formVars
  <2>2. /\ Head(asked).nick \in Nicks
        /\ saved = [nick |-> Head(asked).nick, token |-> Head(asked).nick]
    <3>1. Head(asked) = asked[1] /\ 1 \in DOMAIN asked
      BY <2>1, OneAnswered
    <3> QED BY <2>1, <3>1, QueueTypes DEF VerifyInv
  <2>3. IInv'
    BY <2>1, <2>2, Entering DEF FormOps
  <2> QED BY <2>1, <2>2, <2>3, SetCurrentKeys
<1>6. CASE Expired \/ Acknowledged
  <2>1. asked # << >> /\ asked' = Tail(asked) /\ UNCHANGED <<identities, coreVars, formVars, shown, up>>
    BY <1>6 DEF Expired, Acknowledged, Answered, diskVars
  <2>2. Kept(1, {}) /\ asked' \in Seq(Cmd)
    BY <2>1, AnsweredAndAsked
  <2>3. UNCHANGED saved \/ (saved' = NoSession /\ shown = None)
    <3>1. CASE Acknowledged
      <4>1. UNCHANGED <<identities, saved>>
        BY <3>1 DEF Acknowledged, diskVars
      <4> QED BY <4>1
    <3>2. CASE Expired
      <4>1. Head(asked) = asked[1] /\ 1 \in DOMAIN asked
        BY <2>1, OneAnswered
      <4> QED BY <3>2, <4>1 DEF Expired, Answered, VerifyInv
    <3> QED BY <1>6, <3>1, <3>2
  <2>4. up' \in BOOLEAN
    BY <2>1 DEF TypeOK
  <2>5. IInv'
    BY <2>1, <2>2, <2>3, <2>4, Shortening
  <2> QED BY <2>1, <2>5
<1>7. CASE Lost
  <2>1. PICK n \in 0..Len(asked) : asked' = SubSeq(asked, n + 1, Len(asked))
    BY <1>7 DEF Lost
  <2>2. n \in Nat /\ Kept(n, {}) /\ asked' \in Seq(Cmd)
    BY <2>1, SomeLost, QueueTypes
  <2>3. up' \in BOOLEAN /\ UNCHANGED <<identities, saved, coreVars, formVars, shown>>
    BY <1>7 DEF Lost, diskVars
  <2> QED BY <2>2, <2>3, Shortening
<1>8. CASE Connected
  BY <1>8, Connecting DEF Connected, diskVars
<1>9. CASE Restart
  <2>1. identities' \in [Nicks -> Nat] /\ Start /\ Same
    BY <1>9 DEF Restart, TypeOK
  <2> QED BY <2>1, Starting
<1>10. CASE KilledSigningIn
  <2>1. PICK n \in Nicks : identities' = Stored(n)
    BY <1>10 DEF KilledSigningIn
  <2>2. Start
    BY <1>10 DEF KilledSigningIn
  <2> QED BY <2>1, <2>2, StoredOnce, Starting
<1>11. CASE UNCHANGED vars
  <2>1. Kept(0, {}) /\ asked' \in Seq(Cmd)
    BY <1>11, NothingAsked DEF vars
  <2>2. up' \in BOOLEAN /\ UNCHANGED <<identities, saved, coreVars, formVars, shown>>
    BY <1>11 DEF vars, diskVars, TypeOK
  <2> QED BY <2>1, <2>2, Shortening
<1> QED BY <1>1, <1>2, <1>3, <1>4, <1>5, <1>6, <1>7, <1>8, <1>9, <1>10, <1>11
        DEF Next, FormOps

LEMMA Inductive == Spec => []IInv
<1>1. IInv /\ [Next]_vars => IInv'
  BY Step
<1> QED BY <1>1, Initially, PTL DEF Spec

\* Types, for any accounts and any number of starts and commands.
THEOREM SessionTypeCorrect == Spec => []TypeOK
<1>1. IInv => TypeOK
  BY DEF IInv
<1> QED BY <1>1, Inductive, PTL

\* The account shown is the current one and the saved one.
THEOREM OneAccount == Spec => []ShownIsSaved
<1>1. IInv => ShownIsSaved
  BY DEF IInv
<1> QED BY <1>1, Inductive, PTL

\* Every registration carries the stored key of its account.
THEOREM OwnKeyRegistered == Spec => []RegistersOwnKey
<1>1. IInv => RegistersOwnKey
  BY DEF IInv, KeyInv, RegistersOwnKey
<1> QED BY <1>1, Inductive, PTL

\* No sign-in and no kill replaces a stored identity.
THEOREM IdentityIsKept == Spec => IdentityKept
<1>1. IInv /\ [Next]_vars
        => [\A n \in Nicks : identities[n] # 0 => identities'[n] = identities[n]]_vars
  BY Step
<1> QED BY <1>1, Inductive, PTL DEF Spec, IdentityKept
=============================================================================
