---------------------------- MODULE BootstrapLink ---------------------------
(***************************************************************************)
(* What Bootstrap_Client promises the core: one lane of commands to the    *)
(* bootstrap server, answered in the order they were given.  `asked` holds *)
(* the commands that have no answer yet, those still in m_queue and those  *)
(* on the wire together.  The two transports behind the lane are left out. *)
(***************************************************************************)
EXTENDS Contacts

VARIABLES
    asked,    \* commands without an answer, oldest first
    linked,   \* a socket to the server is connected
    findNick  \* m_pending_find_nickname

linkVars == <<asked, linked, findNick>>

\* A STORE carries the id of an own message, or 0 for a read receipt.
Find(p) == [op |-> "FIND", peer |-> p, msg |-> 0]
Store(i) == [op |-> "STORE", peer |-> None, msg |-> i]
Receipt == Store(0)
Fetch == [op |-> "FETCH", peer |-> None, msg |-> 0]
Register == [op |-> "REGISTER", peer |-> None, msg |-> 0]

Command ==
    [op : {"FIND"}, peer : Peers, msg : {0}] \cup
    [op : {"STORE"}, peer : {None}, msg : Nat] \cup {Fetch, Register}

LinkTypeOK ==
    /\ asked \in Seq(Command)
    /\ linked \in BOOLEAN
    /\ findNick \in Peers \cup {None}

LinkInit ==
    /\ asked = << >>
    /\ linked = TRUE
    /\ findNick = None

Stores(ids) == [k \in DOMAIN ids |-> Store(ids[k])]
Receipts(n) == [k \in 1..n |-> Receipt]
Finds(ps) == [k \in DOMAIN ps |-> Find(ps[k])]

\* The own messages some STORE of the sequence s carries, and that each is in one.
StoredAt(s) == {k \in DOMAIN s : s[k].op = "STORE" /\ s[k].msg # 0}
Carried(s) == {s[k].msg : k \in StoredAt(s)}
CarriedOnce(s) == \A k, l \in StoredAt(s) : s[k].msg = s[l].msg => k = l

HasNoFind(s) == \A k \in DOMAIN s : s[k].op # "FIND"

\* enqueue of several commands by one handler.
Ask(cmds) == asked' = asked \o cmds /\ UNCHANGED <<linked, findNick>>

\* find_user of several nicknames: the last one overwrites m_pending_find_nickname.
AskFinds(ps) ==
    /\ asked' = asked \o Finds(ps)
    /\ findNick' = IF ps = << >> THEN findNick ELSE ps[Len(ps)]
    /\ UNCHANGED linked

Due(op) == linked /\ asked # << >> /\ Head(asked).op = op

\* The server answers the oldest command, and the handler gives new ones.
Answered(op, cmds) ==
    /\ Due(op)
    /\ asked' = Tail(asked) \o cmds
    /\ UNCHANGED <<linked, findNick>>

\* One of several answer lines to a FETCH: the command stays the oldest one.
AnsweredInPart(op, cmds) ==
    /\ Due(op)
    /\ asked' = asked \o cmds
    /\ UNCHANGED <<linked, findNick>>

\* The socket breaks: the k commands already written are not answered any more.
Break(k) ==
    /\ linked /\ k <= Len(asked)
    /\ asked' = SubSeq(asked, k + 1, Len(asked))
    /\ linked' = FALSE
    /\ UNCHANGED findNick

\* on_connected of a later connection, with the commands its signal gives.
Relink(cmds) ==
    /\ ~linked
    /\ linked' = TRUE
    /\ asked' = asked \o cmds
    /\ UNCHANGED findNick
=============================================================================
