--------------------------- MODULE NetworkManager ---------------------------
(***************************************************************************)
(* Network_Manager: the direct TCP connections to peers.  Slots bounds how *)
(* many exist at once; m_connections is the set of the listed ones.  Each  *)
(* operator below is the network's half of one event; the signals it emits *)
(* are handled in the same event by the core, so the module that composes  *)
(* the two supplies the other half.                                        *)
(***************************************************************************)
EXTENDS Contacts

CONSTANTS
    Slots,    \* connections the operating system may have open at once
    Dangling  \* a pointer to a Tcp_Connection that has been deleted

ASSUME SlotsAssumption ==
    /\ IsFiniteSet(Slots) /\ Slots # {}
    /\ Slots \cap Peers = {}
    /\ {None, Dangling} \cap (Slots \cup Peers) = {} /\ None # Dangling

VARIABLES
    conn,    \* the connection in each slot
    claim,   \* m_pending_verification: the connection that last claimed a nickname
    orphan,  \* running connect timeouts, per nickname, whose connection is gone
    skip     \* m_skip_p2p

netVars == <<conn, claim, orphan, skip>>

(***************************************************************************)
(* The life of a connection this side dials: connecting, open.  Of one it  *)
(* accepts: raw, claimed (handshake read), auth.  `who` is the peer at the *)
(* other end, `as` the nickname given to connect_to_host or claimed in the *)
(* handshake, `key` the peer whose public key the handshake claimed; and   *)
(* `listed` says whether m_connections holds it.                           *)
(***************************************************************************)
Connection ==
    [st : {"connecting", "open", "raw", "claimed", "auth"},
     who : Peers, as : Peers \cup {None}, key : Peers \cup {None}, listed : BOOLEAN]
Free == [st |-> "free", who |-> None, as |-> None, key |-> None, listed |-> FALSE]

NetTypeOK ==
    /\ conn \in [Slots -> Connection \cup {Free}]
    /\ claim \in [Peers -> Slots \cup {None, Dangling}]
    /\ orphan \in [Peers -> Nat]
    /\ skip \in BOOLEAN

NetInit ==
    /\ conn = [s \in Slots |-> Free]
    /\ claim = [p \in Peers |-> None]
    /\ orphan = [p \in Peers |-> 0]
    /\ skip = FALSE

Listed == {s \in Slots : conn[s].listed}
\* Connections whose socket is in ConnectedState, and those of them listed.
Live == {s \in Slots : conn[s].st \notin {"free", "connecting"}}
Wired == Listed \cap Live
HasConnections == Listed # {}
\* A socket on which a broadcast of send_data reaches peer p.
WiredTo(p) == \E s \in Wired : conn[s].who = p

\* Deleting connections leaves the pointers to them, and their timeouts, behind.
Freed(S) == [s \in Slots |-> IF s \in S THEN Free ELSE conn[s]]
Unclaimed(S) == [p \in Peers |-> IF claim[p] \in S THEN Dangling ELSE claim[p]]
Orphaned(S) ==
    [p \in Peers |-> orphan[p] +
        Cardinality({s \in S : conn[s].st = "connecting" /\ conn[s].as = p})]

\* connect_to_host once m_skip_p2p and m_connections let it through: peer w
\* listens at the address given for nickname p.
Dial(p, w) ==
    /\ ~skip /\ ~HasConnections
    /\ \E s \in Slots :
        /\ conn[s] = Free
        /\ conn' = [conn EXCEPT ![s] = [st |-> "connecting", who |-> w, as |-> p,
                                        key |-> None, listed |-> TRUE]]
    /\ UNCHANGED <<claim, orphan, skip>>

\* QTcpSocket::connected: the timeout stops and the handshake is sent.
Connect(s) ==
    /\ conn[s].st = "connecting"
    /\ conn' = [conn EXCEPT ![s].st = "open"]
    /\ UNCHANGED <<claim, orphan, skip>>

\* The timeout of a connection that is still there; emits p2p_failed.
TimeOut(s) ==
    /\ conn[s].st = "connecting"
    /\ conn' = Freed({s})
    /\ UNCHANGED <<claim, orphan, skip>>

\* The timeout of a connection that disconnect_from_host deleted; emits p2p_failed.
TimeOutOrphan(p) ==
    /\ orphan[p] > 0
    /\ orphan' = [orphan EXCEPT ![p] = @ - 1]
    /\ UNCHANGED <<conn, claim, skip>>

\* handle_new_connection: peer w has connected to this user's server.
AcceptFrom(s, w) ==
    /\ conn[s] = Free
    /\ conn' = [conn EXCEPT ![s] = [st |-> "raw", who |-> w, as |-> None,
                                    key |-> None, listed |-> TRUE]]
    /\ UNCHANGED <<claim, orphan, skip>>

\* The handshake frame, with a nickname n and the public key of a peer k, neither of
\* them necessarily the sender's; emits incoming_peer_needs_verification.
ReadHandshake(s, n, k) ==
    /\ conn[s].st = "raw"
    /\ conn' = [conn EXCEPT ![s] = [@ EXCEPT !.st = "claimed", !.as = n, !.key = k]]
    /\ claim' = [claim EXCEPT ![n] = s]
    /\ UNCHANGED <<orphan, skip>>

\* Any other frame before authentication drops the connection, without a signal.
DropInvalid(s) ==
    /\ conn[s].st \in {"raw", "claimed"}
    /\ conn' = Freed({s})
    /\ claim' = Unclaimed({s})
    /\ UNCHANGED <<orphan, skip>>

\* The socket disconnects; emits all_connections_lost if no other one is listed.
Lose(s) ==
    /\ s \in Live
    /\ conn' = Freed({s})
    /\ claim' = Unclaimed({s})
    /\ UNCHANGED <<orphan, skip>>

\* The connections disconnect_from_host may pass over: closing one takes it out of
\* the list the loop walks by position, so that of more than two connected ones the
\* loop misses some.  Its last positions are then past the end, which leaves open which.
Missable == {S \in SUBSET Wired : S = {} \/ 2 * Cardinality(S) < Cardinality(Wired)}

\* disconnect_from_host; the connections missed stay open, but the list is cleared.
\* A socket that was connecting emits no disconnected, and a missed one is listed
\* until the end: all_connections_lost is emitted only without either.
CloseAll(missed) ==
    LET closed == Listed \ missed
    IN  /\ conn' = [s \in Slots |->
                      IF s \in closed THEN Free
                      ELSE IF s \in missed THEN [conn[s] EXCEPT !.listed = FALSE] ELSE conn[s]]
        /\ claim' = Unclaimed(closed)
        /\ orphan' = Orphaned(closed)
        /\ UNCHANGED skip
CloseAllSignals(missed) == HasConnections /\ Listed = Wired /\ missed = {}

\* confirm_incoming_peer; emits incoming_peer_authenticated.
Confirm(p) ==
    /\ claim[p] # None
    /\ conn' = [s \in Slots |->
                  IF s = claim[p] THEN [conn[s] EXCEPT !.st = "auth"] ELSE conn[s]]
    /\ claim' = [claim EXCEPT ![p] = None]
    /\ UNCHANGED <<orphan, skip>>

\* reject_incoming_peer.
Reject_KeepsClaim(p) ==
    /\ claim[p] # None
    /\ conn' = Freed({claim[p]})
    /\ UNCHANGED <<claim, orphan, skip>>
Reject(p) ==
    /\ claim[p] # None
    /\ conn' = Freed({claim[p]})
    /\ claim' = [claim EXCEPT ![p] = None]
    /\ UNCHANGED <<orphan, skip>>

SetSkip(b) == skip' = b /\ UNCHANGED <<conn, claim, orphan>>
=============================================================================
