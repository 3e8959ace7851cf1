---------------------------- MODULE CryptoManager ---------------------------
(***************************************************************************)
(* Crypto_Manager: how the two ends of a conversation come to session      *)
(* keys.  A public key is a number, ordered as QByteArray orders keys, and *)
(* stands for its secret half too.  A session key is named by what         *)
(* libsodium derives it from: the ends that took the roles of client and   *)
(* server, and the way the messages go.                                    *)
(***************************************************************************)
EXTENDS Naturals

\* crypto_kx: what the client writes goes up, what the server writes goes down.
SessionKey(client, server, way) == [client |-> client, server |-> server, way |-> way]

\* m_rx and m_tx of each role.
ClientKeys(own, peer) ==
    [rx |-> SessionKey(own, peer, "down"), tx |-> SessionKey(own, peer, "up")]
ServerKeys(own, peer) ==
    [rx |-> SessionKey(peer, own, "up"), tx |-> SessionKey(peer, own, "down")]

\* compute_shared_secret: the end with the greater key is the server.
SharedSecret(own, peer) ==
    IF own > peer THEN ServerKeys(own, peer) ELSE ClientKeys(own, peer)

\* encrypt at one end and decrypt at the other.
Decrypts(writer, reader) == writer.tx = reader.rx
Agree(one, other) == Decrypts(one, other) /\ Decrypts(other, one)
=============================================================================
