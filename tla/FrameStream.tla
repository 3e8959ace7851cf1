----------------------------- MODULE FrameStream ----------------------------
(***************************************************************************)
(* What a direct connection promises: the messages given to one end come   *)
(* out of the other in the same order, each once.  The last ones may be    *)
(* missing, because a connection can break.  A message is named by the     *)
(* order in which it was given.                                            *)
(***************************************************************************)
EXTENDS Naturals, Sequences

VARIABLES given, received

Init == given = << >> /\ received = << >>

Give == given' = Append(given, Len(given) + 1) /\ UNCHANGED received

Receive == /\ Len(received) < Len(given)
           /\ received' = Append(received, given[Len(received) + 1])
           /\ UNCHANGED given

Spec == Init /\ [][Give \/ Receive]_<<given, received>>
=============================================================================
