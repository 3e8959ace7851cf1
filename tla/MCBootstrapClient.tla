------------------------- MODULE MCBootstrapClient -------------------------
(***************************************************************************)
(* BootstrapClient for TLC: the core looks a peer up, stores a message and *)
(* fetches.                                                                *)
(***************************************************************************)
EXTENDS BootstrapClient

Lookups == {Lane!Find(p) : p \in Peers}
SomeRequests == Lookups \cup {Lane!Fetch}
=============================================================================
