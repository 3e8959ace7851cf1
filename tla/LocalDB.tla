------------------------------ MODULE LocalDB -------------------------------
(***************************************************************************)
(* Local_DB: the SQLite file of the signed-in user, as far as delivery     *)
(* depends on it.  A row of `messages` written by this user is an element  *)
(* of the sequence below and its id is its position; rows written by       *)
(* peers are only counted, by the nickname each came under (None: none     *)
(* that a contact has) and by the peer whose keys it was encrypted with.   *)
(* An outbox row is the id of the message whose blob it holds: the table's *)
(* ORDER BY id is then the order of those ids.                             *)
(* Texts, replies and the contacts table (written, never read) are left    *)
(* out.                                                                    *)
(***************************************************************************)
EXTENDS Contacts

VARIABLES
    messages,  \* own rows: addressee, timestamp in seconds, MessageStatus
    outbox,    \* ids of the messages kept until their peer is reachable
    received   \* number of rows stored of each kind of chat

dbVars == <<messages, outbox, received>>

Statuses == {"Pending", "Sent", "Failed", "Read"}

Row == [peer : Peers, sec : Nat, status : Statuses]

Chat == [by : Peers, as : Peers \cup {None}]

DbTypeOK ==
    /\ messages \in Seq(Row)
    /\ outbox \in SUBSET (1..Len(messages))
    /\ received \in [Chat -> Nat]

DbInit ==
    /\ messages = << >>
    /\ outbox = {}
    /\ received = [f \in Chat |-> 0]

\* save_message of an outgoing row followed, in the same handler, by update_status.
Saved_Fails(p, sec, status) == messages
Saved(p, sec, status) ==
    Append(messages, [peer |-> p, sec |-> sec, status |-> status])

\* update_status.
WithStatus_AnyRow(id, status) ==
    [i \in DOMAIN messages |-> [messages[i] EXCEPT !.status = status]]
WithStatus(id, status) == [messages EXCEPT ![id].status = status]

\* mark_read_up_to.
MarkedRead_AllOfPeer(p, sec) ==
    [i \in 1..Len(messages) |->
        IF messages[i].peer = p THEN [messages[i] EXCEPT !.status = "Read"] ELSE messages[i]]
MarkedRead(p, sec) ==
    [i \in 1..Len(messages) |->
        IF messages[i].peer = p /\ messages[i].sec <= sec
        THEN [messages[i] EXCEPT !.status = "Read"]
        ELSE messages[i]]

\* peek_outbox, as a set; has_pending is its being non-empty.
Waiting_ByStatus(p) ==
    {i \in 1..Len(messages) : messages[i].peer = p /\ messages[i].status = "Pending"}
Waiting(p) == {i \in outbox : messages[i].peer = p}

\* The orders in which walking the peers in turn, and each peer's outbox by
\* id, meets the ids of S; the order of the peers is their QMap's.
FlushOrders(S) ==
    {order \in Listings(S) :
        \A j, k \in 1..Cardinality(S) : j < k =>
            /\ messages[order[j]].peer = messages[order[k]].peer => order[j] < order[k]
            /\ \A l \in j..k : messages[order[j]].peer = messages[order[k]].peer =>
                    messages[order[l]].peer = messages[order[j]].peer}
=============================================================================
