------------------------- MODULE CryptoManagerProofs ------------------------
(***************************************************************************)
(* Whose messages whom can read, for any keys.                             *)
(***************************************************************************)
EXTENDS CryptoManager, TLAPS

\* What an end writes, in a session made from the key `key`, can be read by the owner of
\* that key in a session made from the writer's key, and in no other session of anyone;
\* with a key like its own an end can talk to nobody.
THEOREM OnlyAddresseeReads ==
    ASSUME NEW own \in Nat, NEW key \in Nat, NEW reader \in Nat, NEW source \in Nat
    PROVE  Decrypts(SharedSecret(own, key), SharedSecret(reader, source))
               <=> own # key /\ reader = key /\ source = own
<1>1. CASE own > key
  <2>1. SharedSecret(own, key).tx = SessionKey(key, own, "down")
    BY <1>1 DEF SharedSecret, ServerKeys
  <2>2. CASE reader > source
    BY <1>1, <2>1, <2>2 DEF SharedSecret, ServerKeys, SessionKey, Decrypts
  <2>3. CASE ~(reader > source)
    BY <1>1, <2>1, <2>3 DEF SharedSecret, ClientKeys, SessionKey, Decrypts
  <2> QED BY <2>2, <2>3
<1>2. CASE ~(own > key)
  <2>1. SharedSecret(own, key).tx = SessionKey(own, key, "up")
    BY <1>2 DEF SharedSecret, ClientKeys
  <2>2. CASE reader > source
    BY <1>2, <2>1, <2>2 DEF SharedSecret, ServerKeys, SessionKey, Decrypts
  <2>3. CASE ~(reader > source)
    BY <1>2, <2>1, <2>3 DEF SharedSecret, ClientKeys, SessionKey, Decrypts
  <2> QED BY <2>2, <2>3
<1> QED BY <1>1, <1>2

\* The two ends agree exactly if this end made its session from the other's key and the
\* other has a key of its own; one direction that can be read means that both can.
THEOREM EndsAgree ==
    ASSUME NEW own \in Nat, NEW key \in Nat, NEW peer \in Nat
    PROVE  LET mine == SharedSecret(own, key)
               its == SharedSecret(peer, own)
           IN  /\ Agree(mine, its) <=> own # peer /\ key = peer
               /\ Decrypts(mine, its) <=> Agree(mine, its)
               /\ Decrypts(its, mine) <=> Agree(mine, its)
<1>1. Decrypts(SharedSecret(own, key), SharedSecret(peer, own)) <=> own # peer /\ key = peer
  BY OnlyAddresseeReads
<1>2. Decrypts(SharedSecret(peer, own), SharedSecret(own, key)) <=> own # peer /\ key = peer
  BY OnlyAddresseeReads
<1> QED BY <1>1, <1>2 DEF Agree
=============================================================================
