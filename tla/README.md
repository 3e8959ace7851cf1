# Hogrin, specified

TLA+ modules for the client of Hogrin, a Qt messenger with end-to-end
encryption: direct TCP connections between peers, and a bootstrap server for
looking peers up and for relaying messages to those that cannot be reached. The
modules say what the C++ code under `src/` does; TLC checks them on small instances and
TLAPS proves the safety properties for every instance.

## 1. The system

| Part | State it keeps | Operations | Talks to |
| --- | --- | --- | --- |
| `Messenger_Core` (`core/`) | a `Crypto_Manager` per peer, `relay_mode` per peer, messages it cannot decrypt yet, nicknames under verification, ids awaiting the relay's answer | send a message, look a peer up, connect, poll the relay, retry P2P, and a slot for each signal of the parts below | everything: signals are direct calls in one thread |
| `Network_Manager` (`network/`) | list of connections, connection per nickname under verification, running dial timeouts, `m_skip_p2p` | dial, accept, read a handshake, confirm, reject, send to all, close all | core (signals), `Tcp_Connection` |
| `Tcp_Connection` | receive buffer, expected frame size, last activity | send a frame, read frames, ping and time out, close | socket |
| `Bootstrap_Client` | queue of commands, two sockets (TCP, WebSocket), three timers and two delayed calls, the nickname looked up last | enqueue, flush, parse an answer, reconnect, fall back to the WebSocket | server, core (signals) |
| `Local_DB` (`db/`) | tables `messages`, `outbox`, `identity`, `contacts` | save, update status, mark read, enqueue, peek, confirm | core |
| `Crypto_Manager` (`crypto/`) | key pair, session keys | derive a session, encrypt, decrypt | core |
| `UI_Handler`, QML, saved session | login state, token | sign in, restore, sign out; forwards the rest | core |
| `Update_Checker` | versions | compare, download | HTTP |
| `DB_Manager` | - | - | not compiled by `CMakeLists.txt` |

The program has one thread. Qt runs a slot to its end and `emit` calls the
connected slots at once, so there are no races inside an event; what is hard is
the order of events. Commands to the server carry no identifier and neither do
its answers; flushes of the outbox start from five events; connections,
timeouts and answers outlive what they were started for.

What each part should guarantee:

* Core: a queued message leaves the outbox once, by one way; its status says
  what is known of it; a session is made from a key the server named, and kept; a
  chat that comes in is not lost when its key is known or still to come.
* Network manager: a connection is authenticated only with the key it claimed,
  when the server has confirmed that key; every claim is settled or forgotten on both sides.
* Bootstrap client: commands are answered in order, whichever transport carries
  them, and something brings a broken link back.
* TCP connection: messages come out as they were put in, and a dead path is
  noticed without closing a live one.
* Session: the account on the screen, in the core, in the saved session and on
  the server is one, and each account keeps its own identity.
* Database: rows and outbox stay consistent over a crash.

The hazards are listed one by one, with their lines, in `PROJECT.json`.

## 2. The modules

```
Contacts                 names shared by the modules of the core
 +- LocalDB              messages, outbox
 +- NetworkManager       direct connections
 +- BootstrapLink        the lane to the server     <- BootstrapLinkProofs
 |    ^ implemented by
 |  BootstrapClient      both transports and timers <- BootstrapClientProofs
 |    MCBootstrapClient
 +- CryptoManager        session keys               <- CryptoManagerProofs
 |
MessengerCore            the composition: one action per event of the loop
 |   implements MessageCustody                      <- MessengerCoreProofs <- CustodyProofs
MCMessengerCore          bounds and symmetry for TLC

TcpConnection            framing and keep-alive of one direct connection
     implements FrameStream                         <- TcpConnectionProofs

Session                  accounts, saved session, identities, restarts
MCSession                symmetry for TLC           <- SessionProofs (of Session)
```

A module that ends in `Proofs` holds the theorems about the one it is named for.
The operators named `X_Variant` just before a definition `X` are faulty forms of it, which
a property of a run must reject.

**`LocalDB`** - `messages` is the sequence of the user's own rows (addressee,
timestamp in seconds, status) and a row's position is its id; `received` counts
the rows peers wrote, by their writer and the nickname they came under (a *kind* of chat). `outbox` is the set of ids whose blob waits: outbox rows have ids of their
own in the code, but each is written in the same handler as its message, so
both orders agree. `Saved` stands for `save_message` with the `update_status` that follows it
in the handler.

**`NetworkManager`** - `conn` gives each slot a connection: one this side
dials is `connecting` then `open`, one it accepts is `raw`, `claimed`
(handshake read), `auth`; `who` is the peer at the other end, `as` and `key` the nickname and the public
key its handshake claims, which need not be its own; `listed` says whether `m_connections` holds it. `claim` is `m_pending_verification`, with the value `Dangling` for
a pointer to a deleted connection, `orphan` counts dial timeouts
whose connection is gone, `skip` is `m_skip_p2p`. Each operator is the
network's half of an event. `CloseAll(missed)` is `disconnect_from_host` with the
connections `missed` that its loop passes over, because closing one changes the list it walks.

**`BootstrapLink`** - `asked` is the lane: the commands without an answer, in
`m_queue` or on the wire. `Answered` is `parse_response`; `AnsweredInPart` is a
`MSG:` line followed by another one; `Break(k)` is `on_disconnected` with `k` commands
on the wire, which nobody answers any more; `Relink` is `on_connected`.

**`CryptoManager`** - pure: the role each end takes by comparing public keys, the transmit and the
receive key each role gets, and who can read whom. A key is a number, compared as `QByteArray` compares
keys; a session key is named by what `crypto_kx` derives it from.

**`MessengerCore`** - `session[p]` is whose public key the session of `p` was
made from (`None`: not ready). `Readable(w, source)` says, by `CryptoManager`, that a session made from
`source`'s key and the one `w` made from this user's key read each other, `Shared(p)` that `p`'s own session does; keys differ between this user and a peer but two peers may
have the same one (accounts of one device may, see `identity_new`). `mode` is
`m_peer_state`, `"absent"` for a peer without an entry: it matters because `operator[]`
inserts one and `all_connections_lost` walks the entries. `held` counts
`m_undecryptable_messages` by kind of chat, `verifying` is the core's
`m_pending_verification`: whose key is claimed for each nickname; `pendingRelay` is `m_pending_relay_ids`.

Each action is one event with every handler it reaches. Where the code sends
several commands in one handler the action adds them all, and in the code's
order; where the order is that of a `QMap`, any order of the peers.

| Action | Event |
| --- | --- |
| `SendQueued`, `SendRelayed`, `SendDirect` | the three ways through `send_message` |
| `FindPeer`, `Join`, `PollRelay`, `RetryP2P` | lookups, the connect panel, the two timers |
| `ClaimTrue`, `ClaimFalse`, `ContactFound`, `PeerNotFound` | an answer to FIND |
| `StoreAnswered` | OK or ERROR |
| `FetchedFrom`, `FetchedUnreadable`, `NothingFetched` | an answer to FETCH |
| `Registered`, `LinkUp`, `LinkDown` | registration and the state of the link |
| `Reachability` | the operating system reports a change |
| `DialConnected`, `DialTimedOut`, `LateTimeout` | the life of a dialled connection |
| `PeerConnects`, `PeerClaims`, `PeerTooEarly`, `ConnectionLost` | the life of an accepted one |
| `DataReceived`, `DataHeld`, `DataUnreadable` | a frame: read; kept, because its nickname has no session or it names none; given up, because that session cannot read it |

`fate` and `arrived` are not in the program. `fate` records what really became of each own message, so that
properties can compare it with the status the program shows; `arrived` counts the chats that came in, those the
program gives up included, so that one that disappears can be missed.

**`MessageCustody`** - the abstract promise: a message waits, is relaying, or is gone, and only
moves forward. `MessengerCore!Custody` is the refinement mapping.

**`BootstrapClient`** - `conn` is the state of the two sockets, `wire` what was written to each and
not answered (lost with the socket: the program does not keep it), `queue` is `m_queue`, `useWs` is
`m_use_ws`, `stale` says that `m_last_response_time` is more than six seconds old. `armed` is the set of
timers that run: `fallback`, `reconnect` and `ping` are the three `QTimer`s, `force` and
`ensure` the two `singleShot` calls. `Lane` is the refinement mapping to `BootstrapLink`:
the commands on both wires and in the queue are its lane, and it is linked while a socket is connected.

| Action | Code |
| --- | --- |
| `Enqueue` | `enqueue`, with its three ways on: hold back for a zombie, flush, wait for a connection |
| `Connected`, `Closed`, `TcpRefused` | the slots of the two sockets, with `on_connected` (and the registration its signal causes) and `on_disconnected` |
| `FallbackTimeout`, `EnsureTimeout`, `ForceReconnect` | the timers |
| `EnsureConnected` | `ensure_connected`, called by the core's poll timer |
| `Answer`, `Silence` | a line arrives; six seconds pass without one |

**`TcpConnection`** - one direction of a connection: a writing end and the end that reads. A byte
is its position in the stream, which makes `m_buffer` the interval from `taken` to `arrived`; `expected` is
`m_expectedSize`, `age` the time since `m_lastActivity`. `onReadyRead` is not atomic here: `Arrive`
enters its loop (`reading`) and `ReadHeader`, `ReadPing`, `ReadMessage` and `ReadLater` are the loop's
steps, because its invariant is the interesting part; nothing else happens meanwhile. A
header read anywhere but at the start of a frame gives any size, so a reader that is out
of step is not quietly right. Time is in ticks; a frame carries the ticks it may still take, and time stops for a
healthy path that would be late (`Tick`), which is what "healthy" means.

**`FrameStream`** - the abstract stream: what is given is received, in order, each once.

**`Session`** - `identities` and `saved` survive a restart: the key pair in each account's database and
the session in `QSettings`. `mine`, `current`, `ready`, `listening` are the core's;
`typed` and `loading` the form's; `shown` is who the interface says is signed in. `asked` are the commands without an
answer, as in `BootstrapLink`. A token is the account it opens, a key pair the number
of the start that generated it: `Crypto_Manager`'s constructor makes one per start.

| Action | Code |
| --- | --- |
| `Submit`, `SignOut` | `submitAuth` in `AuthScreen.qml`; Sign Out in `ChatList.qml` with `logout` |
| `RegisterAnswered`, `LoggedIn`, `LoginFailed` | answers to the form, through the core's slots, the handler's and the form's |
| `Restored`, `Expired` | the answer to `check_saved_session` |
| `Lost`, `Connected`, `Acknowledged` | the link to the server, with the registration of the `reconnected` slot |
| `Restart`, `KilledSigningIn` | the process ends between two events, or after `set_current_nickname` and before the session is saved |

### What the environment may do

The server answers commands in order, with the keys registered for the nicknames asked for, or fails to. Frames are
well formed, and a connection gives one handshake, because a second one drops it. What a handshake says is free: any
peer may claim any nickname and any peer's public key (`ReadHandshake(s, n, k)`); a key nobody registered is
rejected like that of a peer the answer is not about. So may a chat come
under any nickname, or under none, whoever writes it; receipts and relayed messages name their writer, and a relayed
message carries the writer's own key in its header. A peer can read and write only with its own keys. Otherwise anything may
happen at any time: answers as late as one likes, links and connections lost at every point, peers
connecting, claiming, writing too early.

What verification gives is what the code compares: the key that was claimed with the key in the answer that is taken for
the nickname (`messenger_core.cpp:481-489`). Answers carry no nickname, so with a lookup of another peer in flight two
things happen that the model has both: a true claim is rejected, and a claim of one nickname with the other's key is
confirmed and the nickname's session is made from that key. `AuthenticatedAsClaimed` and `SessionKept` therefore
speak of the key that was claimed and that the server named. That it is the key registered under the nickname
is false of this code, for verified connections as for looked-up contacts (the run `unique_sessions`), and nothing here states it.

### Abstractions

* The lane of `MessengerCore` is one sequence. `BootstrapClient` implements it except in the moments in
  which both sockets are connected (TCP connected while the fallback's WebSocket was
  opening): then commands are on two wires and answers may overtake each other, which `LaneKept` excepts by
  name.
* Qt and Cloudflare, as the code relies on them: opening a `QWebSocket` again drops its old
  connection without a signal; a failed attempt of a `QWebSocket` signals `disconnected`, one of a `QTcpSocket` does not; `abort` signals
  `disconnected` like a loss; a WebSocket without pings is closed by the proxy. The reachability handler in
  `bootstrap_client.cpp:80-95` is not compiled: no build file defines `HAS_QT_NETWORK_INFORMATION`.
* A timer of `BootstrapClient` runs or does not; how much of its time is left is not kept, so nothing is said of
  commands that restart the fallback timer for ever. For the same reason a host lookup counts as connecting, although
  `ensure_connected` does not return then: Qt refuses the second `connectToHost`, and the fallback timer, which
  already runs (`TypeOK`, proved), starts again.
* `TcpConnection` writes the sizes this program writes. The two directions of a connection share only
  the socket, so each is an instance of its own; the reader is the dialling end, whose `m_lastActivity`
  runs before the socket is connected, which is the harder case.
* `Session`: values written to `QSettings` are durable when the handler ends; a kill inside a handler matters only between the two
  stores (identity, session). The form gives one command at a time, because it is
  disabled while it waits.
* A claim whose connection was deleted is confirmed or rejected through a dangling
  pointer. The model takes the usual outcome: the write hits freed memory nobody
  reads, and the remaining handlers run.
* The server socket listens (`start_server` succeeded), so a link that comes back
  always registers. `crypto_kx` accepts every key, and SQL statements succeed.
* `disconnect_from_host` changes the list it iterates, which skips elements: fewer than half of the
  connected sockets are passed over. The reads past the end of the shortened list leave
  open which and how many, so any such set is allowed; it stays connected, and unlisted.
* A peer's key differs from the user's own (`KeysAssumption`): with a key like its own an end can talk to nobody
  (`EndsAgree`).
* The contacts table is written and never read, texts and replies matter to no
  property, and receipts a direct connection carries are dropped when sent: both are left out.
* Peers' nicknames differ from the user's own. The clock counts only seconds in
  which something was written.
* `Init` is the state just after sign-in with an empty database and a connected
  link.

## 3. What is checked

| Run | Instance | Property | What it says |
| --- | --- | --- | --- |
| `one_peer` | 1 peer, 1 connection, 2 messages | `TypeOK` | types, and that every message has a row and a fate |
| | | `OneWayOut` | no message is both in the outbox and on its way, none is in two STOREs |
| | | `WaitingShowsPending` | a message in the outbox, or with its id still in `m_pending_relay_ids`, shows as pending or read; of an unanswered STORE whose id another answer took it says nothing (see `relay_answers`) |
| | | `Accounted` | the recorded fate of a message agrees with the outbox and the unanswered STOREs: what is given up is recorded so when it happens, and nothing disappears otherwise |
| | | `ReadWasAcked` | a message shown as read was acknowledged, or one of the same peer not older than it |
| | | `OutboxLeavesWhole` | a peer's outbox leaves as a whole |
| | | `MovesForward` | the core implements `MessageCustody` |
| `two_peers` | 2 peers, 2 connections, no message, any claim | `VerificationPaired` | both tables of claims name the same nicknames |
| | | `AuthenticatedAsClaimed` | a connection is authenticated only by an answer with the key it claimed itself, and the session of its nickname is then made from that key |
| | | `SessionKept` | a session is replaced only when a verification of its nickname ends, by the key claimed for it |
| `chats` | 2 peers, 3 connections, some unlisted, 2 incoming chats | `ChatsAreKept` | a chat that comes in is stored or held, once, and a held one is stored or stays held; given up, on arrival, are only those whose nickname has a session made from another key than their writer's |
| `bootstrap_client` | 2 lookups and FETCH, 3 commands unanswered | `TypeOK` | types, commands on connected sockets only, no fallback while TCP is connected |
| | | `PingFollowsTransport` | the ping timer runs exactly while the WebSocket is in use |
| | | `LaneKept` | two sockets, a queue and five timers are one lane |
| | | `WrittenOnce` | the queue is written whole, in order, to one socket, also while both are connected |
| | | `QueueDrains` | a queued command is written in the end |
| `tcp_connection` | 3 frames of up to 2 bytes, headers of 2 | `TypeOK` | types, and nothing is read before it arrives |
| | | `NothingLeft` | when the loop ends, every whole message is delivered |
| | | `InOrder` | framing implements `FrameStream` |
| | ticks of half a second | `HealthyStaysOpen` | the zombie check closes no healthy connection |
| | | `SilenceIsNoticed` | and every silent one a check after its patience |
| `session` | 2 accounts, 3 starts, 5 commands | `TypeOK` | types |
| | | `ShownIsSaved` | the account shown is the core's and the saved one |
| | | `RegistersOwnKey` | a registration carries the account's stored key |
| | | `IdentityKept` | a stored identity is never replaced |

Six runs check what a text of the repository says, and fail:

| Run | The text | What the code does |
| --- | --- | --- |
| `unique_sessions` | README: each conversation uses unique session keys | with two lookups in flight, one peer's session is made from the other's key |
| `relay_answers` | `messenger_core.h`: ids wait for `store_confirmed`/`store_failed` | an answer to a receipt's or a flushed row's STORE settles the id of another message |
| `sent_was_sent` | `types.h`: sent means delivered to peer or relay | shown as sent with the only connection still connecting, or another peer's |
| `pending_kept` | README: relay fallback when P2P is unavailable | without a session the fallback deletes the outbox unsent |
| `bootstrap_retry` | `bootstrap_client.cpp:139`: disconnected, retrying in 2s | with an unused WebSocket still open the single retry does nothing, and commands stay queued until that is closed too |
| `identity_new` | `messenger_core.cpp:555`: new identity keys generated and saved | the keys saved are those in memory, so an account that is new on the device gets the identity of the one before it |

**Bounds.** One peer and one connection reach every flush, every lost link and
late timeout; two messages are the least for which order, duplication and
"part of an outbox" make sense; two commands without an answer let an answer
overtake its command's kind. Two peers and two connections are the least for answers taken for
another nickname, for a claim of another's nickname or with another's key, for a claim next to another connection, and for
a second claim to the same nickname; none of this depends on own messages, so `two_peers` writes none. In `chats`
three connections are the least of which `disconnect_from_host` misses one; `OnePeerInCrowd` explores states with several connections, or a
missed one, only while they concern one peer. In `two_peers` and `chats` the link to the server holds (`LinkHolds`): an
answer may still be a failure, and `one_peer` loses the link at every point. The keys of `two_peers` and `chats` lie on both sides of the user's own.
In `one_peer` there are two seconds; `LaterSecond` explores the later one without a direct connection (receipts
then come through the relay) and while another message may still be written in it. `Bounds` in `MCMessengerCore` names each limit: `MaxMessages`,
`MaxAsked`, `MaxIncoming`, `MaxOrphans`, `MaxSeconds`. A state past a limit is
checked but not explored further; `MaxIncoming` counts the chats that have come in, whatever became of them. `two_peers` and `chats` use the symmetry of peers and slots, which no property
or action tells apart: the order of the peers' keys matters only to `Readable`, which by `ReadableByKey` comes down to their equality, and the comparison of
a claim (`ClaimedKeyFound`) and the properties ask no more than whether two keys are equal.
No liveness is checked under symmetry.

In `bootstrap_client` three commands are enough for one on the wire, one held back in the queue and one that meets
both; two lookups tell order apart. In `tcp_connection` a header of two bytes can be cut, and so can a message of two; three frames give a
ping between messages, or two messages behind one, in one read or many. Its times are the code's in half seconds, `PingPeriod` 2 s,
`Patience` 8 s and `DialLimit` 5 s, and a delay of half a second: with those `TimesAssumption` holds with equality, so one tick less of
patience is too little. It may stop when its frames are used up or the connection is closed, so deadlock is not checked. In `session` three starts let an account be created, restored and restored
again after a kill; two accounts and five commands cover a sign-in that waits behind a saved session or a sign-out. `MaxStarts`
and `MaxAsked` are in the guards.

**Fairness.** Only `BootstrapClient` assumes any, for `QueueDrains`. A timer that is armed fires (`FallbackTimeout`,
`ForceReconnect`, `EnsureTimeout`): Qt's event loop does that. `EnsureConnected` happens again and again, because
`m_poll_timer` calls it every `RELAY_POLL_INTERVAL_MS` once a user has signed in. Of the
outside world: a WebSocket that nobody pings is closed (`Idle`), and of infinitely many attempts to open one, some succeed
(strong fairness of `Connected("ws")`, because each attempt may be cut off). Nothing is assumed of TCP, which may never connect, nor of
the server, which may never answer. Without `EnsureConnected` the property fails: when TCP and WebSocket have both failed,
no timer runs. That is the program before anyone has signed in, so of it `QueueDrains` says nothing. The other modules state safety only, and need none.

## 4. What is proved

`BootstrapLinkProofs` proves what a lane carries when commands are added at its end,
answered at its front or cut off. `MessengerCoreProofs` proves, for any finite set of peers, any
finite set of connections, and any number of messages and commands, from the assumptions
`PeersAssumption`, `SlotsAssumption` and `KeysAssumption`:

| Theorem | Property |
| --- | --- |
| `Invariance` | `IInv`, the inductive invariant |
| `TypeCorrect` | `TypeOK` |
| `MessagesGoOnce` | `OneWayOut` |
| `WaitingIsShown` | `WaitingShowsPending` |
| `VerificationIsPaired` | `VerificationPaired` |
| `Authenticity` | `AuthenticatedAsClaimed` |
| `SessionsAreKept` | `SessionKept` |
| `ChatsKept` | `ChatsAreKept` |
| `SharedByKey` | a session can be read at both ends exactly if it was made from the peer's key |

`CustodyProofs` rests on these and proves, under the same assumptions:

| Theorem | Property |
| --- | --- |
| `Refinement` | `MovesForward`: `MessengerCore` implements `MessageCustody` |
| `OutboxesLeaveWhole` | `OutboxLeavesWhole` |
| `NothingDisappears` | `Accounted` |
| `ReadMeansAcked` | `ReadWasAcked` |

`CryptoManagerProofs`, which they rest on too, is about any keys:

| Theorem | What it says |
| --- | --- |
| `OnlyAddresseeReads` | what an end writes can be read in the addressee's session made from the writer's key, and in no other |
| `EndsAgree` | the ends read each other exactly if this one has the other's key and the keys differ |

The inductive invariant has three parts. `NetInv` is about connections: the paired tables alone are
not inductive, because confirming a claim must find the connection of the
peer that made it, with the key that is compared (`ClaimsPointToClaimed`), and a timeout must know whom it is for
(`DialsAreNamed`). `LaneInv` is about messages: that a flush adds no second STORE of a message
follows from `OneWayOut`, but a *new* message must not be in the lane
already (`CarriedAreWritten`), and an answer to FIND must find a nickname
(`FindsAreNamed`). `CountersOK` is the type of the rest. A step is taken apart in the same way: its
connections' half is one disjunct of `NetStep`, its messages' half is a change of the
lane (`LaneMoves`), a new message, or FINDs; so each action's proof only
says which of these it is. `CustodyProofs` goes the same way: `CustodyStep` lists what any step may do
to a message's custody (commands are settled, a message is written, the rows of a
flush are handed over or given up) and what becomes of the fates meanwhile (`Follows`), one lemma per part of `Next` puts each action under one of
these, and the refinement, the wholeness of an outbox and the accounts follow from the list. `Accounted` needs exactly that: the messages a broken
link or an answer takes off the lane are those whose fate changes (`CutTakes`, `CarriedTail`). `ReadWasAcked` is inductive only together with `Accounted`,
by which an acknowledged message is neither in the outbox nor in a STORE, so that no flush or answer takes the acknowledgement back (`AcksStay`);
`ReadsFollow` is what a step may do to the rows.

That missed connections (`CloseAll`) keep `NetInv` is `CloseAllKeeps`, for any number of connections and any choice of the missed.

`BootstrapClientProofs`, from `RequestsAssumption` (the core gives commands of the lane):

| Theorem | Property |
| --- | --- |
| `ClientTypeCorrect` | `TypeOK` |
| `KeepAlive` | `PingFollowsTransport` |
| `LaneIsKept` | `LaneKept` |
| `QueueIsWrittenOnce` | `WrittenOnce` |

The first two are inductive together. `LaneStepKept` has one case per action, each of which names the step of the lane it is:
where not both sockets are connected one wire is empty, so `Asked` is the other wire and the queue (`AskedByOne`). The moments `LaneKept` excepts are covered by `WrittenOnce`, which looks at
each socket by itself and so holds in them too.

`TcpConnectionProofs`, from `SizesAssumption` and `TimesAssumption`, for any sizes, times and number of frames:

| Theorem | Property |
| --- | --- |
| `TcpTypeCorrect` | `TypeOK` |
| `HealthyLinkStays` | `HealthyStaysOpen` |
| `ZombieIsClosed` | `SilenceIsNoticed` |
| `BufferIsDrained` | `NothingLeft` |
| `FramesInOrder` | `InOrder`: the refinement of `FrameStream` |

`StreamInv` is the invariant of the reading loop: there is a frame up to which the reader has read, and perhaps the header of the next
(`ReadTo`), and what it has delivered are the messages up to there; so a header is read only where one lies. `TimeInv` says for a healthy path which event will end
the present silence and that it is soon enough: the writer's next ping (`NextInTime`), or the last frame on its way (`LastInTime`).

`SessionProofs`, from `NicksAssumption`, for any accounts, starts and commands:

| Theorem | Property |
| --- | --- |
| `SessionTypeCorrect` | `TypeOK` |
| `OneAccount` | `ShownIsSaved` |
| `OwnKeyRegistered` | `RegistersOwnKey` |
| `IdentityIsKept` | `IdentityKept` |

`ShownIsSaved` needs to know which answers can still come: the form waits for one command at most, with the nickname
that is typed (`FormInv`), and the saved session is asked about first, before anyone is in (`VerifyInv`). `KeyInv` says that with a database open the identity in use is the one stored.
`Kept` is how any step changes the queue of commands (some gone in front, some new behind), so that each
part of the invariant is carried over once for all steps.

The safety properties of the passing runs are all proved; `QueueDrains` is only model-checked, because liveness under
fairness (and `ENABLED`) is out of the prover's reach. The six violated properties have nothing to prove. What a recursive definition computes for every
input is out of reach too, and no module declares one.

## 5. Plan, and what is not modelled

1. `Conversation`: two cores and the server's relay queue: order and loss at the
   addressee, receipts, and eventual delivery. The relay is not in this repository, so this is a model of its
   use only.
2. Restarts of `MessengerCore`: what of a message survives a kill between its row, its outbox entry and its STORE.

Not modelled:

* `Update_Checker`: one request, one comparison, one download and a call of the platform's installer: HTTP, file and JNI calls
  around string parsing, without state that several steps share.
* `DB_Manager`: not compiled and used nowhere.
* The rest of QML: presentation; its calls are the user's actions above. The entry point and the build files wire objects.
* `Session` and `MessengerCore` are not composed: what the core keeps of the account before (sessions, ids that
  await an answer, held messages) is listed as a hazard and has no property.
* libsodium, SQLite and Qt are taken to do what they say.
