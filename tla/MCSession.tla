----------------------------- MODULE MCSession ------------------------------
(* Two accounts on one device. *)
EXTENDS Session, TLC

CONSTANTS alice, bob

Accounts == Permutations(Nicks)
=============================================================================
