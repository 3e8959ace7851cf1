------------------------------- MODULE Session ------------------------------
(***************************************************************************)
(* Who is signed in: the sign-in form and sign-out of the interface, the   *)
(* saved session (QSettings), set_current_nickname of the core, and the    *)
(* identity keys in each account's database.  The program may be killed    *)
(* and started again; the databases and the saved session remain.          *)
(*                                                                         *)
(* Commands wait in the order they were given, sent or not; the server     *)
(* answers the oldest one, and a lost connection takes those it had been   *)
(* sent.  A token is the account it opens; an identity is the number of    *)
(* the start that generated it.                                            *)
(***************************************************************************)
EXTENDS Naturals, Sequences

CONSTANTS
    Nicks,      \* accounts used on this device
    None,       \* no account
    MaxStarts,  \* bound: starts of the program
    MaxAsked    \* bound: commands waiting

ASSUME NicksAssumption == None \notin Nicks

VARIABLES
    identities, \* key pair in each account's database, 0 if there is none
    saved,      \* session/nickname and session/token
    starts,     \* starts so far
    mine,       \* key pair of m_identity_crypto
    current,    \* m_current_nickname
    ready,      \* m_ready of its Local_DB
    listening,  \* m_listening_port # 0
    typed,      \* nicknameInput
    loading,    \* isLoading of the form
    pending,    \* m_pending_auth_nickname
    shown,      \* loggedInUser, None while the sign-in form is shown
    up,         \* connected to the bootstrap server
    asked       \* commands without an answer

diskVars == <<identities, saved>>
coreVars == <<starts, mine, current, ready, listening>>
formVars == <<typed, loading, pending>>
vars == <<diskVars, coreVars, formVars, shown, up, asked>>

NoSession == [nick |-> None, token |-> None]
Command(op, n) == [op |-> op, nick |-> n, key |-> 0, stored |-> FALSE]

\* The program starts: a key pair of its own, no account, and check_saved_session.
Start ==
    /\ starts' = starts + 1
    /\ mine' = starts'
    /\ current' = None /\ ready' = FALSE /\ listening' = FALSE
    /\ typed' = None /\ loading' = FALSE /\ pending' = None
    /\ shown' = None
    /\ up' = FALSE
    /\ asked' = IF saved = NoSession THEN << >> ELSE <<Command("AUTH_VERIFY", saved.token)>>
    /\ UNCHANGED saved

Init ==
    /\ identities = [n \in Nicks |-> 0]
    /\ saved = NoSession
    /\ starts = 1 /\ mine = 1
    /\ current = None /\ ready = FALSE /\ listening = FALSE
    /\ typed = None /\ loading = FALSE /\ pending = None
    /\ shown = None
    /\ up = FALSE
    /\ asked = << >>

-----------------------------------------------------------------------------
\* Mutant: the keys in memory are always stored.
Stored_Always(n) == [identities EXCEPT ![n] = mine]

\* set_current_nickname up to the identity: the account's own, or the one in memory.
Stored(n) == IF identities[n] = 0 THEN [identities EXCEPT ![n] = mine] ELSE identities

\* Mutant: the identity found in the database is not taken over.
SetCurrent_KeepsKeys(n) ==
    /\ current' = n
    /\ ready' \in BOOLEAN
    /\ identities' = IF ready' THEN Stored(n) ELSE identities
    /\ UNCHANGED mine

\* set_current_nickname; the database may fail to open.
SetCurrent(n) ==
    /\ current' = n
    /\ ready' \in BOOLEAN
    /\ identities' = IF ready' THEN Stored(n) ELSE identities
    /\ mine' = IF ready' THEN identities'[n] ELSE mine

\* register_on_bootstrap, on top of the commands waiting.
Registered(cmds, n) ==
    IF listening' THEN Append(cmds, [op |-> "REGISTER", nick |-> n, key |-> mine', stored |-> ready'])
                  ELSE cmds

\* start_server(0) and what the interface does when an account is in.
Enter(n, cmds) ==
    /\ listening' \in {listening, TRUE}
    /\ asked' = Registered(cmds, n)
    /\ shown' = n

\* Mutant: the button stays enabled while an answer is awaited.
Submit_Again(op, n) ==
    /\ shown = None /\ Len(asked) + 1 < MaxAsked
    /\ typed' = n
    /\ loading' = TRUE
    /\ pending' = IF op = "AUTH_LOGIN" THEN n ELSE pending
    /\ asked' = Append(asked, Command(op, n))
    /\ UNCHANGED <<diskVars, coreVars, shown, up>>

\* submitAuth: the button is enabled while the form is not loading.
Submit(op, n) ==
    /\ shown = None /\ ~loading /\ Len(asked) + 1 < MaxAsked
    /\ typed' = n
    /\ loading' = TRUE
    /\ pending' = IF op = "AUTH_LOGIN" THEN n ELSE pending
    /\ asked' = Append(asked, Command(op, n))
    /\ UNCHANGED <<diskVars, coreVars, shown, up>>

\* Mutant: the saved session is cleared before it is read.
SignOut_ClearsFirst ==
    /\ shown # None /\ Len(asked) + 2 < MaxAsked
    /\ saved' = NoSession
    /\ asked' = asked \o <<Command("UNREGISTER", saved'.nick),
                           Command("AUTH_LOGOUT", saved'.token)>>
    /\ shown' = None
    /\ UNCHANGED <<identities, coreVars, formVars, up>>

\* logout: the core is not told, and keeps its nickname.
SignOut ==
    /\ shown # None /\ Len(asked) + 2 < MaxAsked
    /\ asked' = IF saved = NoSession THEN asked
                ELSE asked \o <<Command("UNREGISTER", saved.nick),
                                Command("AUTH_LOGOUT", saved.token)>>
    /\ saved' = NoSession
    /\ shown' = None
    /\ UNCHANGED <<identities, coreVars, formVars, up>>

-----------------------------------------------------------------------------
Answered(op) == up /\ asked # << >> /\ Head(asked).op = op

\* AUTH_REG_OK, and the form signs in with what was typed; or AUTH_REG_ERR.
RegisterAnswered ==
    /\ Answered("AUTH_REGISTER")
    /\ \/ /\ pending' = typed
          /\ asked' = Append(Tail(asked), Command("AUTH_LOGIN", typed))
          /\ UNCHANGED loading
       \/ /\ loading' = FALSE
          /\ asked' = Tail(asked)
          /\ UNCHANGED pending
    /\ UNCHANGED <<diskVars, coreVars, typed, shown, up>>

\* AUTH_LOGIN_OK with a token, which is saved with the nickname last asked for.
LoggedIn ==
    /\ Answered("AUTH_LOGIN")
    /\ SetCurrent(pending)
    /\ saved' = [nick |-> pending, token |-> Head(asked).nick]
    /\ loading' = FALSE
    /\ Enter(typed, Tail(asked))
    /\ UNCHANGED <<starts, typed, pending, up>>

\* AUTH_LOGIN_ERR.
LoginFailed ==
    /\ Answered("AUTH_LOGIN")
    /\ loading' = FALSE
    /\ asked' = Tail(asked)
    /\ UNCHANGED <<diskVars, coreVars, typed, pending, shown, up>>

\* AUTH_VERIFY_OK says the nickname.
Restored ==
    /\ Answered("AUTH_VERIFY")
    /\ SetCurrent(Head(asked).nick)
    /\ Enter(Head(asked).nick, Tail(asked))
    /\ UNCHANGED <<saved, starts, formVars, up>>

\* AUTH_VERIFY_ERR: the token has expired.
Expired ==
    /\ Answered("AUTH_VERIFY")
    /\ saved' = NoSession
    /\ asked' = Tail(asked)
    /\ UNCHANGED <<identities, coreVars, formVars, shown, up>>

\* Answers that change nothing here.
Acknowledged ==
    /\ \E op \in {"AUTH_LOGOUT", "REGISTER", "UNREGISTER"} : Answered(op)
    /\ asked' = Tail(asked)
    /\ UNCHANGED <<diskVars, coreVars, formVars, shown, up>>

\* The connection is lost, with the commands it had been sent.
Lost ==
    /\ up
    /\ up' = FALSE
    /\ \E n \in 0..Len(asked) : asked' = SubSeq(asked, n + 1, Len(asked))
    /\ Len(asked') < MaxAsked
    /\ UNCHANGED <<diskVars, coreVars, formVars, shown>>

\* reconnected: the core registers its nickname again.
Connected ==
    /\ ~up /\ Len(asked) < MaxAsked
    /\ up' = TRUE
    /\ UNCHANGED <<diskVars, coreVars, formVars, shown>>
    /\ asked' = IF current = None THEN asked ELSE Registered(asked, current)

-----------------------------------------------------------------------------
\* The program ends, in the end or between two events, and is started again.
Restart == starts < MaxStarts /\ Start /\ UNCHANGED identities

\* It is killed while signing in, after the identity is stored.
KilledSigningIn ==
    /\ starts < MaxStarts
    /\ \E n \in Nicks : /\ \/ Answered("AUTH_LOGIN") /\ n = pending
                           \/ Answered("AUTH_VERIFY") /\ n = Head(asked).nick
                        /\ identities' = Stored(n)
    /\ Start

Next ==
    \/ \E n \in Nicks, op \in {"AUTH_REGISTER", "AUTH_LOGIN"} : Submit(op, n)
    \/ SignOut
    \/ RegisterAnswered \/ LoggedIn \/ LoginFailed \/ Restored \/ Expired \/ Acknowledged
    \/ Lost \/ Connected
    \/ Restart \/ KilledSigningIn

Spec == Init /\ [][Next]_vars

-----------------------------------------------------------------------------
\* Types.
Ops == {"AUTH_REGISTER", "AUTH_LOGIN", "AUTH_VERIFY", "AUTH_LOGOUT", "REGISTER", "UNREGISTER"}
MaybeNick == Nicks \cup {None}
TypeOK ==
    /\ identities \in [Nicks -> Nat]
    /\ saved \in [nick : Nicks, token : Nicks] \cup {NoSession}
    /\ {starts, mine} \subseteq Nat \ {0}
    /\ {current, typed, pending, shown} \subseteq MaybeNick
    /\ {ready, listening, loading, up} \subseteq BOOLEAN
    /\ asked \in Seq([op : Ops, nick : Nicks, key : Nat, stored : BOOLEAN])

\* The account shown is the one the core works for and the one the next start restores,
\* with that account's token, although answers to the saved session, to the form, and lost
\* ones come in between.
ShownIsSaved ==
    shown # None => current = shown /\ saved = [nick |-> shown, token |-> shown]

\* A peer is told the identity of the account it looks for: every registration waiting
\* carries the key stored in the database of the account it names, if that was open.
RegistersOwnKey ==
    \A i \in DOMAIN asked : asked[i].stored => asked[i].key = identities[asked[i].nick]

\* An account keeps its identity, whoever else signs in and whenever the program is killed.
IdentityKept ==
    [][\A n \in Nicks : identities[n] # 0 => identities'[n] = identities[n]]_vars

\* set_current_nickname says of an account without one: "New identity keys generated and
\* saved.", so that no two accounts have the same.
OwnIdentity ==
    \A m, n \in Nicks : m # n /\ identities[m] # 0 => identities[m] # identities[n]
=============================================================================
