--------------------------- MODULE MCMessengerCore --------------------------
(***************************************************************************)
(* MessengerCore on small instances.  The bounds below cut the unbounded   *)
(* counters: a state beyond one of them is checked but not left.           *)
(***************************************************************************)
EXTENDS MessengerCore, TLC, FiniteSetsExt

CONSTANTS
    MaxMessages,  \* messages the user writes
    MaxAsked,     \* commands without an answer
    MaxIncoming,  \* chats that have come in
    MaxOrphans,   \* running timeouts of deleted connections
    MaxSeconds    \* distinct timestamps

\* Keys on both sides of the user's own, when there are two peers.
Keys == CHOOSE keys \in [Peers -> (1..(Cardinality(Peers) + 1)) \ {OwnKey}] : IsInjective(keys)

Bounds ==
    /\ Len(messages) <= MaxMessages
    /\ Len(asked) <= MaxAsked
    /\ MapThenSumSet(LAMBDA f : arrived[f], Chat) <= MaxIncoming
    /\ MapThenSumSet(LAMBDA p : orphan[p], Peers) <= MaxOrphans
    /\ now <= MaxSeconds

\* A second connection, or one that disconnect_from_host missed, only in states that
\* concern one peer.
Crowded ==
    LET open == {s \in Slots : conn[s] # Free}
    IN  Cardinality(open) > 1 \/ open # Listed
Concerned ==
    {p \in Peers :
        \/ Ready(p) \/ mode[p] # "absent" \/ verifying[p] # None
        \/ \E q \in Peers : p \in {session[q], verifying[q]}
        \/ \E f \in Chat : arrived[f] > 0 /\ p \in {f.by, f.as}
        \/ \E k \in DOMAIN asked : asked[k].peer = p
        \/ \E s \in Slots : p \in {conn[s].who, conn[s].as, conn[s].key}}
OnePeerInCrowd == Crowded => Cardinality(Concerned) <= 1

\* A later second only without a direct connection, where receipts come through the
\* relay, and only as long as another message may be written in it.
LaterSecond ==
    now > 0 => /\ \A s \in Slots : conn[s] = Free
               /\ Len(messages) = MaxMessages => messages[MaxMessages].sec = now

\* The link to the server holds: an answer may still fail to come, as NOT_FOUND.
LinkHolds == linked

Interchangeable == Permutations(Peers) \cup Permutations(Slots)
=============================================================================
