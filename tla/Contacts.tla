------------------------------ MODULE Contacts ------------------------------
(***************************************************************************)
(* The names every module shares: the other users of the messenger, and    *)
(* the ways a Qt container of queued messages can be walked.               *)
(***************************************************************************)
EXTENDS Naturals, Sequences, FiniteSets, Functions

CONSTANTS
    Peers,  \* nicknames of the contacts; a peer also stands for its own identity key
    None    \* no peer, no key, no connection

ASSUME PeersAssumption == IsFiniteSet(Peers) /\ None \notin Peers

\* The sequences that list every element of the finite set S exactly once.
Listings(S) == Bijection(1..Cardinality(S), S)
=============================================================================
