---------------------------- MODULE MessageCustody --------------------------
(***************************************************************************)
(* What the messenger promises about the way of an own message: it waits   *)
(* in the outbox, or is relaying (given to the relay, no answer yet), or   *)
(* is gone (sent, answered for, or given up).  It only moves forward, so a *)
(* message that left is not taken up again.                                *)
(***************************************************************************)
EXTENDS Naturals, Sequences

VARIABLE custody  \* the place of each own message, by id

Places == {"waiting", "relaying", "gone"}

Init == custody = << >>

\* The user writes a message, which takes any of the three ways.
Write == \E place \in Places : custody' = Append(custody, place)

\* Messages in the place `from` move on together.
Move(from, to) ==
    \E S \in SUBSET {i \in DOMAIN custody : custody[i] = from} :
        custody' = [i \in DOMAIN custody |-> IF i \in S THEN to ELSE custody[i]]

Next == Write \/ Move("waiting", "relaying") \/ Move("waiting", "gone")
              \/ Move("relaying", "gone")

Spec == Init /\ [][Next]_custody
=============================================================================
