---------------------------- MODULE MessengerCore ---------------------------
(***************************************************************************)
(* Messenger_Core of one signed-in user, composed with its Local_DB, its   *)
(* Network_Manager and its lane to the bootstrap server.  Qt runs every    *)
(* slot to completion and signals call slots directly, so each action is   *)
(* one event of the loop with all the handlers it reaches.  The peers, the *)
(* server and the network are the environment: they keep to the protocol's *)
(* form, and may answer, fail, connect or disconnect at any time.  A peer  *)
(* that connects may claim any nickname and any public key, and its chats  *)
(* may come under any nickname; receipts and relayed messages name their   *)
(* writer.                                                                 *)
(*                                                                         *)
(* `fate` follows each own message outside the program, for properties     *)
(* only:                                                                   *)
(*   kept     in the outbox              flying   in a STORE not answered  *)
(*   reached  stored by the relay, or written to its addressee's socket    *)
(*   acked    its addressee's read receipt was processed                   *)
(*   lost     given to a transport that did not bring it to its addressee  *)
(*   dropped  given up by this program without being put on any transport  *)
(*            in a form its addressee can read                             *)
(* `arrived` counts, in the same way, the chats that came in.              *)
(***************************************************************************)
EXTENDS LocalDB, NetworkManager, BootstrapLink, CryptoManager

CONSTANTS
    OwnKey,    \* the public key of this user
    PublicKey  \* and those of the peers

ASSUME KeysAssumption == OwnKey \in Nat /\ PublicKey \in [Peers -> Nat \ {OwnKey}]

VARIABLES
    session,       \* m_crypto_map: whose public key each peer's session was made from
    mode,          \* m_peer_state: relay_mode of each peer that has an entry
    held,          \* m_undecryptable_messages, counted per kind of chat
    verifying,     \* m_pending_verification: whose public key is claimed for a nickname
    pendingRelay,  \* m_pending_relay_ids
    now,           \* the wall clock, in seconds
    fate,          \* what became of each own message
    arrived        \* chats that have come in, of each kind

coreVars == <<session, mode, held, verifying, pendingRelay, now, fate, arrived>>
vars == <<dbVars, netVars, linkVars, coreVars>>

Modes == {"absent", "direct", "relay"}
Fates == {"kept", "flying", "reached", "acked", "lost", "dropped"}

TypeOK ==
    /\ DbTypeOK /\ NetTypeOK /\ LinkTypeOK
    /\ session \in [Peers -> Peers \cup {None}]
    /\ mode \in [Peers -> Modes]
    /\ held \in [Chat -> Nat] /\ arrived \in [Chat -> Nat]
    /\ verifying \in [Peers -> Peers \cup {None}]
    /\ pendingRelay \in Seq(1..Len(messages))
    /\ now \in Nat
    /\ fate \in Seq(Fates) /\ Len(fate) = Len(messages)

Init ==
    /\ DbInit /\ NetInit /\ LinkInit
    /\ session = [p \in Peers |-> None]
    /\ mode = [p \in Peers |-> "absent"]
    /\ held = [f \in Chat |-> 0] /\ arrived = [f \in Chat |-> 0]
    /\ verifying = [p \in Peers |-> None]
    /\ pendingRelay = << >>
    /\ now = 0
    /\ fate = << >>

Ready(p) == session[p] # None

\* Whether this side and w read each other in a session made from `source`'s key.
Readable(w, source) ==
    /\ source # None
    /\ Agree(SharedSecret(OwnKey, PublicKey[source]), SharedSecret(PublicKey[w], OwnKey))
Shared(p) == Readable(p, session[p])
\* A chat of kind f is decrypted with the session of the nickname it comes under.
Legible(f, sessions) == f.as # None /\ Readable(f.by, sessions[f.as])

\* compute_shared_secret for a peer without a session, as on_peer_found and
\* messages_fetched do it, and, after set_identity has cleared the session, for any
\* peer whose connection was verified.
LearnKey_Always(p, key) == [session EXCEPT ![p] = key]
LearnKey(p, key) == IF Ready(p) THEN session ELSE [session EXCEPT ![p] = key]
AdoptKey(p, key) == [session EXCEPT ![p] = key]

\* m_pending_verification when a handshake claims k's key for nickname n, and the
\* comparison of the key claimed with the one the server's answer gives.
Claimed_First(n, k) == IF verifying[n] = None THEN [verifying EXCEPT ![n] = k] ELSE verifying
Claimed(n, k) == [verifying EXCEPT ![n] = k]
ClaimedKeyFound == PublicKey[verifying[findNick]] = PublicKey[Head(asked).peer]

\* m_peer_state[p] read through operator[], which inserts a direct entry.
Touched(m, S) == [p \in Peers |-> IF p \in S /\ m[p] = "absent" THEN "direct" ELSE m[p]]

FatesOf(S, f) == [i \in DOMAIN fate |-> IF i \in S THEN f ELSE fate[i]]

-----------------------------------------------------------------------------
(***************************************************************************)
(* Handlers reached from several events.                                   *)
(***************************************************************************)

\* The outbox rows S are encrypted, given to the relay and deleted.
FlushToRelay_KeepsRows(S) ==
    /\ outbox' = outbox
    /\ fate' = FatesOf(S, "flying")
FlushToRelay_FirstOnly(S) ==
    /\ outbox' = outbox \ {i \in S : \A j \in S : i <= j}
    /\ fate' = FatesOf(S, "flying")
FlushToRelay(S) ==
    /\ outbox' = outbox \ S
    /\ fate' = FatesOf(S, "flying")
FlushCommands_SkipsFirst(S) ==
    {SubSeq(Stores(order), 2, Len(order)) : order \in FlushOrders(S)}
FlushCommands(S) == {Stores(order) : order \in FlushOrders(S)}

\* on_p2p_failed: without a session the loop of flush_pending_via_relay stops at
\* once, and confirm_outbox deletes the rows all the same.
FallBack(p) ==
    /\ mode' = [mode EXCEPT ![p] = "relay"]
    /\ IF Ready(p)
       THEN FlushToRelay(Waiting(p)) /\ \E cmds \in FlushCommands(Waiting(p)) : Ask(cmds)
       ELSE /\ outbox' = outbox \ Waiting(p)
            /\ fate' = FatesOf(Waiting(p), "dropped")
            /\ UNCHANGED linkVars

\* The rows all_connections_lost flushes, when m_peer_state is m.
Flushable(m) ==
    {i \in outbox : m[messages[i].peer] # "absent" /\ session'[messages[i].peer] # None}
AllToRelay(m) == [p \in Peers |-> IF m[p] = "absent" THEN "absent" ELSE "relay"]

\* The same rows when the signal is emitted or not, and the modes it leaves.
LostRows(m, emitted) == IF emitted THEN Flushable(m) ELSE {}
LostModes(m, emitted) == IF emitted THEN AllToRelay(m) ELSE m

\* try_decrypt_pending: the chats held of the kinds S are stored; a receipt for each
\* goes out, through the relay for the nicknames in relay mode.
Release_Drops(S) ==
    /\ held' = [f \in Chat |-> IF f \in S THEN 0 ELSE held[f]]
    /\ received' = received
Release(S) ==
    /\ held' = [f \in Chat |-> IF f \in S THEN 0 ELSE held[f]]
    /\ received' = [f \in Chat |-> IF f \in S THEN received[f] + held[f] ELSE received[f]]
Releasable == {f \in Chat : held[f] > 0 /\ Legible(f, session')}
Senders(S) == {f.as : f \in S}
RelayedReceipts(S) ==
    Receipts(Cardinality(UNION {{f} \X (1..held[f]) : f \in {g \in S : mode[g.as] = "relay"}}))

\* The ChatMessage handler, for a chat of kind f (i = 0), or the ReadReceipt handler,
\* for a receipt for own message i that comes under nickname f.as.
Handle(f, i) ==
    IF i = 0
    THEN received' = [received EXCEPT ![f] = @ + 1] /\ UNCHANGED messages
    ELSE messages' = MarkedRead(f.as, messages[i].sec) /\ UNCHANGED received
Arrives(f) == arrived' = [arrived EXCEPT ![f] = @ + 1]
Relayed(w) == [by |-> w, as |-> w]
Acked(f, i) == [j \in DOMAIN f |-> IF j = i THEN "acked" ELSE f[j]]
Receiptable(p) == {i \in DOMAIN fate : fate[i] = "reached" /\ messages[i].peer = p}

-----------------------------------------------------------------------------
(***************************************************************************)
(* The user and the timers.                                                *)
(***************************************************************************)

NewRow(p, status, f) ==
    /\ messages' = Saved(p, now, status)
    /\ fate' = Append(fate, f)

\* send_message without a session, or with one but no connection.
SendQueued(p) ==
    /\ \/ ~Ready(p) /\ mode' = mode
       \/ /\ Ready(p) /\ mode[p] # "relay" /\ ~HasConnections
          /\ mode' = Touched(mode, {p})
    /\ NewRow(p, "Pending", "kept")
    /\ outbox' = outbox \cup {Len(messages) + 1}
    /\ UNCHANGED <<received, netVars, linkVars, session, held, arrived, verifying,
                   pendingRelay, now>>

\* send_message in relay mode.
SendRelayed(p) ==
    /\ Ready(p) /\ mode[p] = "relay"
    /\ NewRow(p, "Pending", "flying")
    /\ pendingRelay' = Append(pendingRelay, Len(messages) + 1)
    /\ Ask(<<Store(Len(messages) + 1)>>)
    /\ UNCHANGED <<outbox, received, netVars, session, mode, held, arrived, verifying, now>>

\* send_message over the direct connections: to all of them, whoever they are.
SendDirect(p) ==
    /\ Ready(p) /\ mode[p] # "relay" /\ HasConnections
    /\ mode' = Touched(mode, {p})
    /\ \E f \in IF ~WiredTo(p) THEN {"dropped"}
                ELSE {"lost"} \cup {x \in {"reached"} : Shared(p)} : NewRow(p, "Sent", f)
    /\ UNCHANGED <<outbox, received, netVars, linkVars, session, held, arrived, verifying,
                   pendingRelay, now>>

\* find_peer: the search box, a tapped contact, the contact list at start-up.
FindPeer(p) ==
    /\ AskFinds(<<p>>)
    /\ UNCHANGED <<dbVars, netVars, coreVars>>

\* connect_to_host from the UI's connection panel.
Join(p) ==
    /\ \/ /\ skip
          /\ FallBack(p)
          /\ UNCHANGED netVars
       \/ /\ Dial(p, p)
          /\ UNCHANGED <<linkVars, mode, outbox, fate>>
    /\ UNCHANGED <<messages, received, session, held, arrived, verifying, pendingRelay, now>>

\* poll_relay_messages.
PollRelay ==
    /\ Ask(<<Fetch>>)
    /\ UNCHANGED <<dbVars, netVars, coreVars>>

\* retry_p2p_connections.
RetryP2P ==
    /\ LET relayed == {p \in Peers : mode[p] = "relay"}
       IN  /\ mode' = [p \in Peers |-> IF p \in relayed THEN "direct" ELSE mode[p]]
           /\ \E order \in Listings(relayed) : AskFinds(order)
    /\ UNCHANGED <<dbVars, netVars, session, held, arrived, verifying, pendingRelay, now,
                   fate>>

\* The clock passes to another second.  Seconds in which nothing was written are
\* not counted: only the order of the rows' timestamps matters.
Tick ==
    /\ \E i \in DOMAIN messages : messages[i].sec = now
    /\ now' = now + 1
    /\ UNCHANGED <<dbVars, netVars, linkVars, session, mode, held, arrived, verifying,
                   pendingRelay, fate>>

-----------------------------------------------------------------------------
(***************************************************************************)
(* Answers of the bootstrap server.                                        *)
(***************************************************************************)

PeerNotFound ==
    /\ Answered("FIND", << >>)
    /\ UNCHANGED <<dbVars, netVars, coreVars>>

\* on_peer_found for a nickname under verification.  The answer may be about another
\* nickname, and the comparison is of the keys alone.
ClaimFalse ==
    /\ Due("FIND") /\ verifying[findNick] # None
    /\ Answered("FIND", << >>)
    /\ ~ClaimedKeyFound
    /\ verifying' = [verifying EXCEPT ![findNick] = None]
    /\ Reject(findNick)
    /\ UNCHANGED <<dbVars, session, mode, held, arrived, pendingRelay, now, fate>>

\* The same, with confirm_incoming_peer and incoming_peer_authenticated: the
\* outbox is broadcast without the sender's name, so that nobody can read it.  If
\* the connection was deleted in the meantime the handlers run all the same.
ClaimTrue ==
    /\ Due("FIND") /\ verifying[findNick] # None
    /\ verifying' = [verifying EXCEPT ![findNick] = None]
    /\ session' = AdoptKey(findNick, Head(asked).peer)
    /\ mode' = [Touched(mode, Senders(Releasable)) EXCEPT ![findNick] = "direct"]
    /\ Release(Releasable)
    /\ Answered("FIND", RelayedReceipts({f \in Releasable : f.as # findNick}))
    /\ ClaimedKeyFound
    /\ Confirm(findNick)
    /\ outbox' = outbox \ Waiting(findNick)
    /\ fate' = FatesOf(Waiting(findNick), "dropped")
    /\ UNCHANGED <<messages, arrived, pendingRelay, now>>

\* on_peer_found for any other nickname: m_pending_find_nickname gets the key and
\* the address of the peer this answer is about.
ContactFound ==
    /\ Due("FIND") /\ verifying[findNick] = None
    /\ LET n == findNick
           w == Head(asked).peer
           fresh == ~Ready(n)
           out == IF fresh THEN Releasable ELSE {}
           m == Touched(mode, Senders(out) \cup {n})
           viaRelay == m[n] = "relay" \/ (skip /\ ~HasConnections)
       IN  /\ session' = LearnKey(n, w)
           /\ Release(out)
           /\ \/ /\ viaRelay
                 /\ mode' = [m EXCEPT ![n] = "relay"]
                 /\ FlushToRelay(Waiting(n))
                 /\ \E cmds \in FlushCommands(Waiting(n)) :
                        Answered("FIND", RelayedReceipts(out) \o cmds)
                 /\ UNCHANGED netVars
              \/ /\ ~viaRelay
                 /\ mode' = m
                 /\ Answered("FIND", RelayedReceipts(out))
                 /\ IF HasConnections THEN UNCHANGED netVars ELSE Dial(n, w)
                 /\ UNCHANGED <<outbox, fate>>
    /\ UNCHANGED <<messages, arrived, verifying, pendingRelay, now>>

\* OK or ERROR to a STORE: store_confirmed and store_failed both take the oldest
\* id of m_pending_relay_ids, whatever was stored.
StoreAnswered(ok) ==
    /\ Answered("STORE", << >>)
    /\ LET i == Head(asked).msg
       IN  fate' = FatesOf({i}, IF ok /\ Shared(messages[i].peer) THEN "reached" ELSE "lost")
    /\ IF pendingRelay = << >>
       THEN UNCHANGED <<messages, pendingRelay>>
       ELSE /\ messages' = WithStatus(Head(pendingRelay), IF ok THEN "Sent" ELSE "Failed")
            /\ pendingRelay' = Tail(pendingRelay)
    /\ UNCHANGED <<outbox, received, netVars, session, mode, held, arrived, verifying, now>>

NothingFetched ==
    /\ Answered("FETCH", << >>)
    /\ UNCHANGED <<dbVars, netVars, coreVars>>

\* messages_fetched with one blob of peer w, a chat (i = 0) or a receipt for own
\* message i; more is TRUE when another line of the same answer follows.  A blob that
\* the session of its nickname cannot read is given up.
FetchedUnreadable(w, more) ==
    /\ Ready(w) /\ ~Shared(w)
    /\ IF more THEN AnsweredInPart("FETCH", << >>) ELSE Answered("FETCH", << >>)
    /\ Arrives(Relayed(w)) \/ UNCHANGED arrived
    /\ UNCHANGED <<dbVars, netVars, session, mode, held, verifying, pendingRelay, now, fate>>

FetchedFrom(w, i, more, missed) ==
    /\ Due("FETCH")
    /\ Ready(w) => Shared(w)
    /\ session' = LearnKey(w, w)
    /\ LET m == [mode EXCEPT ![w] = "relay"]
           leaving == mode[w] # "relay"
           emitted == leaving /\ CloseAllSignals(missed)
           gone == LostRows(m, emitted)
           reply == IF i = 0 THEN <<Receipt>> ELSE << >>
       IN  /\ IF leaving THEN CloseAll(missed) ELSE UNCHANGED netVars
           /\ mode' = LostModes(m, emitted)
           /\ outbox' = outbox \ gone
           /\ fate' = Acked(FatesOf(gone, "flying"), i)
           /\ \E cmds \in FlushCommands(gone) :
                  IF more THEN AnsweredInPart("FETCH", cmds \o reply)
                          ELSE Answered("FETCH", cmds \o reply)
    /\ Handle(Relayed(w), i)
    /\ IF i = 0 THEN Arrives(Relayed(w)) ELSE UNCHANGED arrived
    /\ UNCHANGED <<held, verifying, pendingRelay, now>>

\* REGISTER_OK: an address the server sees but this host does not have is a NAT.
Registered(nat) ==
    /\ Answered("REGISTER", << >>)
    /\ SetSkip(skip \/ nat)
    /\ UNCHANGED <<dbVars, coreVars>>

-----------------------------------------------------------------------------
(***************************************************************************)
(* The network.                                                            *)
(***************************************************************************)

\* disconnected of the link: of the k commands on the wire the server had carried
\* out the first j.
LinkDown(k, j) ==
    /\ Break(k) /\ j <= k
    /\ LET sent(from, to) == {asked[l].msg : l \in from..to}
       IN  fate' = [i \in DOMAIN fate |->
                      IF i \in sent(1, j) /\ Shared(messages[i].peer) THEN "reached"
                      ELSE IF i \in sent(1, k) THEN "lost" ELSE fate[i]]
    /\ UNCHANGED <<dbVars, netVars, session, mode, held, arrived, verifying, pendingRelay,
                   now>>

\* reconnected: P2P is allowed again and the user is registered anew.
LinkUp ==
    /\ Relink(<<Register>>)
    /\ SetSkip(FALSE)
    /\ UNCHANGED <<dbVars, coreVars>>

\* reachabilityChanged: the direct connections are dropped; back online, network_restored
\* fetches from the relay.
Reachability(online, missed) ==
    /\ CloseAll(missed)
    /\ UNCHANGED <<messages, received, session, held, arrived, verifying, pendingRelay, now>>
    /\ LET emitted == CloseAllSignals(missed)
           gone == LostRows(mode, emitted)
       IN  /\ mode' = LostModes(mode, emitted)
           /\ outbox' = outbox \ gone
           /\ fate' = FatesOf(gone, "flying")
           /\ \E cmds \in FlushCommands(gone) :
                  Ask(cmds \o IF online THEN <<Fetch>> ELSE << >>)

DialConnected(s) ==
    /\ Connect(s)
    /\ UNCHANGED <<dbVars, linkVars, coreVars>>

DialTimedOut(s) ==
    /\ TimeOut(s)
    /\ FallBack(conn[s].as)
    /\ UNCHANGED <<messages, received, session, held, arrived, verifying, pendingRelay, now>>

\* The timeout of a dialled connection that was dropped before it connected.
LateTimeout(p) ==
    /\ TimeOutOrphan(p)
    /\ FallBack(p)
    /\ UNCHANGED <<messages, received, session, held, arrived, verifying, pendingRelay, now>>

PeerConnects(s, w) ==
    /\ AcceptFrom(s, w)
    /\ UNCHANGED <<dbVars, linkVars, coreVars>>

\* incoming_peer_needs_verification: the claimed key is checked with the server.
PeerClaims(s, n, k) ==
    /\ ReadHandshake(s, n, k)
    /\ verifying' = Claimed(n, k)
    /\ AskFinds(<<n>>)
    /\ UNCHANGED <<dbVars, session, mode, held, arrived, pendingRelay, now, fate>>

\* The peer sends no handshake, or, connected as far as it knows, writes before the
\* server has answered.
PeerTooEarly(s) ==
    /\ DropInvalid(s)
    /\ UNCHANGED <<dbVars, linkVars, coreVars>>

\* Closed by the peer, broken, or silent for longer than checkPing allows.
ConnectionLost(s) ==
    /\ Lose(s)
    /\ UNCHANGED <<messages, received, session, held, arrived, verifying, pendingRelay, now>>
    /\ LET emitted == Listed \subseteq {s}
           gone == LostRows(mode, emitted)
       IN  /\ mode' = LostModes(mode, emitted)
           /\ outbox' = outbox \ gone
           /\ fate' = FatesOf(gone, "flying")
           /\ \E cmds \in FlushCommands(gone) : Ask(cmds)

\* Frames of a peer whose connection is open or authenticated go to
\* handle_data_received.  It keeps a chat under a nickname n that has no session, or
\* under none: what incoming_peer_authenticated sends has no nickname.
MayWrite(s) == conn[s].st \in {"open", "auth"}
DataHeld(s, n) ==
    /\ MayWrite(s) /\ (n # None => ~Ready(n))
    /\ LET f == [by |-> conn[s].who, as |-> n]
       IN  held' = [held EXCEPT ![f] = @ + 1] /\ Arrives(f)
    /\ UNCHANGED <<dbVars, netVars, linkVars, session, mode, verifying, pendingRelay,
                   now, fate>>

\* A chat that the session of its nickname cannot read is given up.
DataUnreadable(s, n) ==
    /\ MayWrite(s) /\ Ready(n) /\ ~Readable(conn[s].who, session[n])
    /\ Arrives([by |-> conn[s].who, as |-> n])
    /\ UNCHANGED <<dbVars, netVars, linkVars, session, mode, held, verifying, pendingRelay,
                   now, fate>>

\* A chat (i = 0), or the writer's receipt for own message i.
DataReceived(s, n, i) ==
    /\ MayWrite(s) /\ Readable(conn[s].who, session[n])
    /\ i # 0 => n = conn[s].who /\ i \in Receiptable(n)
    /\ LET f == [by |-> conn[s].who, as |-> n]
       IN  /\ Handle(f, i)
           /\ IF i = 0 THEN Arrives(f) ELSE UNCHANGED arrived
    /\ mode' = IF i = 0 THEN Touched(mode, {n}) ELSE mode
    /\ Ask(IF i = 0 /\ mode[n] = "relay" THEN <<Receipt>> ELSE << >>)
    /\ fate' = Acked(fate, i)
    /\ UNCHANGED <<outbox, netVars, session, held, verifying, pendingRelay, now>>

-----------------------------------------------------------------------------
UserOrTimer ==
    \/ \E p \in Peers : \/ SendQueued(p) \/ SendRelayed(p) \/ SendDirect(p)
                        \/ FindPeer(p) \/ Join(p)
    \/ PollRelay \/ RetryP2P \/ Tick

ServerAnswers ==
    \/ PeerNotFound \/ ClaimFalse \/ ClaimTrue \/ ContactFound
    \/ \E ok \in BOOLEAN : StoreAnswered(ok)
    \/ NothingFetched
    \/ \E w \in Peers : \/ \E more \in BOOLEAN : FetchedUnreadable(w, more)
                        \/ \E i \in {0} \cup Receiptable(w), more \in BOOLEAN,
                              missed \in Missable : FetchedFrom(w, i, more, missed)
    \/ \E nat \in BOOLEAN : Registered(nat)

NetworkEvent ==
    \/ \E k \in 0..Len(asked) : \E j \in 0..k : LinkDown(k, j)
    \/ LinkUp
    \/ \E online \in BOOLEAN, missed \in Missable : Reachability(online, missed)
    \/ \E s \in Slots : \/ DialConnected(s) \/ DialTimedOut(s)
                        \/ PeerTooEarly(s) \/ ConnectionLost(s)
                        \/ \E w \in Peers : PeerConnects(s, w)
                        \/ \E n, k \in Peers : PeerClaims(s, n, k)
                        \/ \E n \in Peers \cup {None} : DataHeld(s, n)
                        \/ \E n \in Peers : DataUnreadable(s, n)
                        \/ \E n \in Peers, i \in 0..Len(messages) : DataReceived(s, n, i)
    \/ \E p \in Peers : LateTimeout(p)

Next == UserOrTimer \/ ServerAnswers \/ NetworkEvent

Spec == Init /\ [][Next]_vars

-----------------------------------------------------------------------------
(***************************************************************************)
(* Safety.                                                                 *)
(***************************************************************************)

\* A message takes one way out.  While it waits in the outbox no STORE carries it
\* and no relay answer is awaited for it; no two STOREs carry the same message; and
\* each id awaits one answer, in the order of sending.  Flushes start from five
\* different events, and each must leave the outbox and the lane in step.
OneWayOut ==
    /\ outbox \cap Carried(asked) = {}
    /\ CarriedOnce(asked)
    /\ outbox \cap Range(pendingRelay) = {}
    /\ \A k, l \in DOMAIN pendingRelay : k < l => pendingRelay[k] < pendingRelay[l]

\* A message in the outbox, or one whose id is still in m_pending_relay_ids, is never
\* shown as sent or failed: only a read receipt may have overtaken it.  This does not say
\* that its own STORE was answered when its id is taken: see RelayAnswerIsOwn.
WaitingShowsPending ==
    \A i \in outbox \cup Range(pendingRelay) : messages[i].status \in {"Pending", "Read"}

\* What became of a message and where the program has it agree: a message is in the
\* outbox until it is sent or given up, and in a STORE that awaits its answer until the
\* answer comes or the link breaks.  A STORE that leaves its row behind, is answered
\* twice or is cut off unnoticed would break these books; a row given up unsent is booked
\* as dropped, and is the matter of PendingIsNotGivenUp.
Accounted ==
    \A i \in DOMAIN messages :
        /\ fate[i] = "kept" <=> i \in outbox
        /\ fate[i] = "flying" <=> i \in Carried(asked)

\* What the mark of a read message is worth: the peer has acknowledged it, or another
\* message not older than it.  Messages in the outbox may show it all the same.
ReadWasAcked ==
    \A i \in DOMAIN messages :
        messages[i].status = "Read" =>
            \E j \in DOMAIN messages :
                /\ fate[j] = "acked" /\ messages[j].peer = messages[i].peer
                /\ messages[j].sec >= messages[i].sec

\* The core's and the network's tables of nicknames under verification name the same
\* ones: no claim is left that no answer can settle.  The connection a claim leads to may
\* be gone by then, or be that of a later claim to the same nickname.
VerificationPaired == \A p \in Peers : verifying[p] # None <=> claim[p] # None

\* The lemmas the properties rest on: a live claim points to the connection that made it,
\* and is checked against the key that one claimed; a dialled connection knows the nickname it falls back for;
\* an answer to FIND finds a nickname to take it for; no STORE outruns the messages.
ClaimsPointToClaimed ==
    \A p \in Peers : claim[p] \in Slots => /\ conn[claim[p]].st = "claimed"
                                           /\ conn[claim[p]].as = p
                                           /\ conn[claim[p]].key = verifying[p]
DialsAreNamed == \A s \in Slots : conn[s].st = "connecting" => conn[s].as \in Peers
FindsAreNamed == findNick = None => HasNoFind(asked)
CarriedAreWritten == Carried(asked) \subseteq 1..Len(messages)

\* The inductive invariant: what concerns connections, and what concerns messages.
NetInv ==
    /\ NetTypeOK
    /\ session \in [Peers -> Peers \cup {None}] /\ verifying \in [Peers -> Peers \cup {None}]
    /\ VerificationPaired /\ ClaimsPointToClaimed /\ DialsAreNamed
LaneInv ==
    /\ messages \in Seq(Row) /\ outbox \in SUBSET (1..Len(messages))
    /\ asked \in Seq(Command) /\ findNick \in Peers \cup {None}
    /\ pendingRelay \in Seq(1..Len(messages))
    /\ fate \in Seq(Fates) /\ Len(fate) = Len(messages)
    /\ OneWayOut /\ WaitingShowsPending /\ FindsAreNamed /\ CarriedAreWritten
CountersOK ==
    /\ received \in [Chat -> Nat] /\ held \in [Chat -> Nat] /\ arrived \in [Chat -> Nat]
    /\ mode \in [Peers -> Modes] /\ linked \in BOOLEAN /\ now \in Nat
IInv == NetInv /\ LaneInv /\ CountersOK

\* A connection passes verification only on an answer that gives the very key it claimed
\* itself, and the session of the nickname it claimed is then made from that key:
\* although another connection may claim the nickname before the answer comes, and
\* although the slot of a claim may have been freed and taken again.
AuthenticatedAsClaimed ==
    [][\A s \in Slots :
          conn'[s].st = "auth" /\ conn[s].st # "auth" =>
              /\ Due("FIND") /\ PublicKey[Head(asked).peer] = PublicKey[conn[s].key]
              /\ session'[conn[s].as] = Head(asked).peer]_vars

\* A session, once there, is replaced only when a verification of its nickname ends, and
\* then by the key that was claimed: no contact's FIND, no fetched header and no claim
\* that is not confirmed changes it.
SessionKept ==
    [][\A p \in Peers :
          Ready(p) /\ session'[p] # session[p] =>
              /\ verifying[p] # None /\ verifying'[p] = None
              /\ PublicKey[session'[p]] = PublicKey[verifying[p]]]_vars

\* A peer's outbox leaves as a whole: confirm_outbox never leaves part of it behind,
\* and no flush takes a row without the rows before it.
OutboxLeavesWhole ==
    [][\A i, j \in outbox : messages[i].peer = messages[j].peer
                            => (i \in outbox' <=> j \in outbox')]_vars

\* A chat that comes in is stored or held, and once held is stored or stays held; each
\* once, although several events bring sessions and some release what was held.  Only a
\* chat that comes under a nickname with a session made from another key than its
\* writer's is lost, and then on its arrival.
Missing(f) == arrived[f] - (received[f] + held[f])
ChatsAreKept ==
    [][\A f \in Chat :
          Missing(f)' # Missing(f) =>
              /\ Missing(f)' = Missing(f) + 1 /\ arrived'[f] = arrived[f] + 1
              /\ f.as # None /\ Ready(f.as)
              /\ PublicKey[session[f.as]] # PublicKey[f.by]]_vars

\* The way of each message, as MessageCustody promises it: from the outbox to the
\* relay or out, never back, however flushes, lost links and answers interleave.
Custody ==
    [i \in 1..Len(messages) |->
        IF i \in outbox THEN "waiting"
        ELSE IF i \in Carried(asked) THEN "relaying" ELSE "gone"]
Promise == INSTANCE MessageCustody WITH custody <- Custody
MovesForward == Promise!Spec

-----------------------------------------------------------------------------
(***************************************************************************)
(* What the repository's texts say of the core.                            *)
(***************************************************************************)

\* README: each peer conversation uses unique session keys, so no two peers'
\* sessions are made from the same public key.
SessionsAreUnique ==
    \A p, q \in Peers : Ready(p) /\ session[p] = session[q] => p = q

\* messenger_core.h: m_pending_relay_ids holds the ids waiting for store_confirmed
\* or store_failed.  An answer is taken for the oldest id, so the oldest STORE, when
\* its answer may come, carries that id.
RelayAnswerIsOwn ==
    Due("STORE") /\ pendingRelay # << >> => Head(asked).msg = Head(pendingRelay)

\* types.h: MsgSent is a message delivered to its peer or to the relay; at least it
\* was put on a transport towards one of them.
SentWasSent ==
    \A i \in DOMAIN messages : messages[i].status = "Sent" => fate[i] # "dropped"

\* README: messages go through the relay when P2P is unavailable; a message that
\* still shows as pending has not been given up.
PendingIsNotGivenUp ==
    \A i \in DOMAIN messages : messages[i].status = "Pending" => fate[i] # "dropped"
=============================================================================
