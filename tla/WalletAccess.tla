----------------------------- MODULE WalletAccess ----------------------------
(***************************************************************************)
(* What a wallet's signature opens: single requests, signed one by one     *)
(* (recoverWalletMerchant in src/src/lib/apiKeys.ts), and the workspace    *)
(* session that one signed challenge is exchanged for                      *)
(* (src/src/lib/workspaceSession.ts).  Both burn a nonce in the store      *)
(* (src/src/lib/walletNonce.ts) so that a signature works once, and the    *)
(* store forgets the nonce when the signature should no longer be good.    *)
(*                                                                         *)
(* A handler reads the clock when its request arrives and uses that        *)
(* reading in every later step, while others read later clocks and prune   *)
(* by them.  Signatures are those of the merchant the message names:       *)
(* another signer is refused before anything is stored.  Message stands    *)
(* for the nonces too, which are fresh for each message.                   *)
(***************************************************************************)
EXTENDS Integers, FiniteSets

CONSTANTS
    Merchant,
    Handler,      \* requests served at the same time
    None,         \* no message yet, no nonce, no session, no cookie
    Tolerance,    \* WALLET_AUTH_TOLERANCE_SECONDS, in ticks
    Slack,        \* what a nonce is kept for beyond the tolerance
    ChallengeTTL, \* WORKSPACE_CHALLENGE_TTL_SECONDS
    SessionTTL,   \* WORKSPACE_SESSION_TTL_SECONDS
    MaxSessions,  \* MAX_WORKSPACE_SESSIONS_PER_MERCHANT
    MaxAhead,     \* how far a wallet's clock may run ahead of the servers'
    MaxDuration,  \* ticks a request may be served before the platform ends it
    MaxMessages,  \* bound: messages signed
    MaxCreated,   \* bound: sessions created
    MaxTime       \* bound: last tick of the clock

VARIABLES
    now,
    message,    \* message[m]: what was signed, or None
    nonces,     \* walletAuth.nonces: when the nonce of m is forgotten
    sessions,   \* walletAuth.sessions
    cookie,     \* the session cookie of the merchants' browser
    handler,    \* what each request is doing
    uses,       \* how often each message opened something
    ended       \* session ids that were removed from the store

vars == <<now, message, nonces, sessions, cookie, handler, uses, ended>>

(* The messages that wallets sign, each with a nonce of its own, and the   *)
(* sessions, whose ids are random: both by the order they are made in.     *)
Message == 1 .. MaxMessages
Session == 1 .. MaxCreated

Signed == [kind : {"request", "login"}, merchant : Merchant, time : Int]
SessionRecord == [merchant : Merchant, createdAt : Nat]

(* at: the clock when the request arrived; previous: the cookie it came    *)
(* with.                                                                   *)
Local == [pc : {"idle", "consume", "create"}, message : Message, at : Nat,
          previous : Session \cup {None}]
Idle == [pc |-> "idle"]

ASSUME AccessAssumption ==
    /\ {Tolerance, Slack, ChallengeTTL, SessionTTL} \subseteq Nat \ {0}
    /\ MaxSessions \in Nat \ {0}
    /\ {MaxAhead, MaxDuration, MaxMessages, MaxCreated, MaxTime} \subseteq Nat
    /\ None \notin Signed \cup SessionRecord \cup Nat
    /\ ChallengeTTL <= Tolerance

Init ==
    /\ now = 0
    /\ message = [m \in Message |-> None]
    /\ nonces = [m \in Message |-> None]
    /\ sessions = [s \in Session |-> None]
    /\ cookie = None
    /\ handler = [h \in Handler |-> Idle]
    /\ uses = [m \in Message |-> 0]
    /\ ended = {}

-----------------------------------------------------------------------------
(* The wallet.                                                             *)

Unsigned(m) == m = 1 + Cardinality({n \in Message : message[n] # None})

Put(h, local) == handler' = [handler EXCEPT ![h] = local]

(* A request is signed with the time of the wallet's clock.                *)
Sign(m, merchant, time) ==
    /\ Unsigned(m)
    /\ time <= now + MaxAhead
    /\ message' = [message EXCEPT
           ![m] = [kind |-> "request", merchant |-> merchant, time |-> time]]
    /\ UNCHANGED <<now, nonces, sessions, cookie, handler, uses, ended>>

(* handleWorkspaceChallenge: a sealed challenge, which the store does not  *)
(* keep, and the signature of the wallet.                                  *)
Challenge(m, merchant) ==
    /\ Unsigned(m)
    /\ message' = [message EXCEPT
           ![m] = [kind |-> "login", merchant |-> merchant, time |-> now]]
    /\ UNCHANGED <<now, nonces, sessions, cookie, handler, uses, ended>>

-----------------------------------------------------------------------------
(* Handlers.                                                               *)

(* A signed request is of the right age, on either side of the clock.      *)
Timely(m, at) ==
    message[m].kind = "request" =>
        /\ at - message[m].time <= Tolerance
        /\ message[m].time - at <= Tolerance

(* unseal finds what this server sealed, which the message names, and the  *)
(* challenge is not over.                                                  *)
Unsealed(m, at) ==
    message[m].kind = "login" => message[m].time + ChallengeTTL > at

(* The part of recoverWalletMerchant and handleWorkspaceLogin before the   *)
(* nonce, by the clock of arrival.                                         *)
InWindow(m, at) == message[m] # None /\ Timely(m, at) /\ Unsealed(m, at)

Arrive(h, m) ==
    /\ handler[h].pc = "idle"
    /\ InWindow(m, now)
    /\ Put(h, [pc |-> "consume", message |-> m, at |-> now, previous |-> cookie])
    /\ UNCHANGED <<now, message, nonces, sessions, cookie, uses, ended>>

(* pruneExpired: nonces that are over by the clock of the caller.          *)
Kept(at) ==
    [m \in Message |->
        IF nonces[m] # None /\ nonces[m] <= at THEN None ELSE nonces[m]]

Expiry_AtTolerance(at) == at + Tolerance
Expiry(at) == at + Tolerance + Slack

(* consumeWalletNonce in one mutation, and the end of a signed request.    *)
ConsumeNonce(h) ==
    /\ handler[h].pc = "consume"
    /\ LET l == handler[h]
           m == l.message
           fresh == Kept(l.at)[m] = None
       IN /\ nonces' = IF fresh THEN [Kept(l.at) EXCEPT ![m] = Expiry(l.at)]
                       ELSE Kept(l.at)
          /\ Put(h, IF fresh /\ message[m].kind = "login"
                    THEN [l EXCEPT !.pc = "create"] ELSE Idle)
          /\ uses' = IF fresh /\ message[m].kind = "request"
                     THEN [uses EXCEPT ![m] = @ + 1] ELSE uses
    /\ UNCHANGED <<now, message, sessions, cookie, ended>>

Live(s, at) ==
    sessions[s] # None /\ sessions[s].createdAt + SessionTTL > at

Of(merchant, S) == {s \in S : sessions[s].merchant = merchant}

AppliesCreate_DropsNewest(keep, merchant, at, previous) ==
    LET others == {s \in Session : Live(s, at)} \ {previous}
        mine == Of(merchant, others)
        gone == others \ keep
    IN /\ keep \subseteq others
       /\ gone \subseteq mine
       /\ Cardinality(mine \cap keep) < MaxSessions
       /\ gone # {} => Cardinality(mine \cap keep) = MaxSessions - 1
       /\ \A s \in gone, t \in mine \cap keep :
              sessions[s].createdAt >= sessions[t].createdAt

(* applySessionCreate drops the sessions that are over, the one the        *)
(* browser presented, and the oldest of the merchant's until there is room *)
(* for one more.  Ties go by the order of the object's keys, which is left *)
(* open.                                                                   *)
AppliesCreate(keep, merchant, at, previous) ==
    LET others == {s \in Session : Live(s, at)} \ {previous}
        mine == Of(merchant, others)
        gone == others \ keep
    IN /\ keep \subseteq others
       /\ gone \subseteq mine
       /\ Cardinality(mine \cap keep) < MaxSessions
       /\ gone # {} => Cardinality(mine \cap keep) = MaxSessions - 1
       /\ \A s \in gone, t \in mine \cap keep :
              sessions[s].createdAt <= sessions[t].createdAt

CreateSession(h, s, keep) ==
    /\ handler[h].pc = "create"
    /\ s = 1 + Cardinality({t \in Session : sessions[t] # None} \cup ended)
    /\ LET l == handler[h]
           merchant == message[l.message].merchant
       IN /\ AppliesCreate(keep, merchant, l.at, l.previous)
          /\ sessions' = [t \in Session |->
                 IF t = s THEN [merchant |-> merchant, createdAt |-> l.at]
                 ELSE IF t \in keep THEN sessions[t] ELSE None]
          /\ uses' = [uses EXCEPT ![l.message] = @ + 1]
          /\ ended' = ended \cup ({t \in Session : sessions[t] # None} \ keep)
    /\ \/ cookie' = s
       \/ cookie' = cookie   \* the answer is lost
    /\ Put(h, Idle)
    /\ UNCHANGED <<now, message, nonces>>

(* handleWorkspaceLogout.                                                  *)
Logout ==
    /\ cookie # None
    /\ sessions' = [sessions EXCEPT ![cookie] = None]
    /\ ended' = ended \cup {cookie}
    /\ cookie' = None
    /\ UNCHANGED <<now, message, nonces, handler, uses>>

(* handleWorkspaceSessionStatus clears a cookie that opens nothing.        *)
Status ==
    /\ cookie # None
    /\ ~Live(cookie, now)
    /\ cookie' = None
    /\ UNCHANGED <<now, message, nonces, sessions, handler, uses, ended>>

(* The store fails or the process dies.                                    *)
Abandon(h) ==
    /\ handler[h].pc # "idle"
    /\ Put(h, Idle)
    /\ UNCHANGED <<now, message, nonces, sessions, cookie, uses, ended>>

(* Time passes while no request is served longer than the platform lets it.*)
Tick ==
    /\ now < MaxTime
    /\ \A h \in Handler :
           handler[h].pc # "idle" => now < handler[h].at + MaxDuration
    /\ now' = now + 1
    /\ UNCHANGED <<message, nonces, sessions, cookie, handler, uses, ended>>

Next ==
    \/ \E m \in Message, merchant \in Merchant :
           \/ \E time \in 0 .. MaxTime + MaxAhead : Sign(m, merchant, time)
           \/ Challenge(m, merchant)
    \/ \E h \in Handler :
           \/ \E m \in Message : Arrive(h, m)
           \/ ConsumeNonce(h)
           \/ \E s \in Session, keep \in SUBSET Session : CreateSession(h, s, keep)
           \/ Abandon(h)
    \/ Logout \/ Status \/ Tick

Spec == Init /\ [][Next]_vars

-----------------------------------------------------------------------------
(* Properties.                                                             *)

(* Types of the state.                                                     *)
TypeOK ==
    /\ now \in Nat
    /\ message \in [Message -> Signed \cup {None}]
    /\ nonces \in [Message -> Nat \cup {None}]
    /\ sessions \in [Session -> SessionRecord \cup {None}]
    /\ cookie \in Session \cup {None}
    /\ handler \in [Handler -> Local \cup {Idle}]
    /\ uses \in [Message -> Nat]
    /\ ended \subseteq Session

(* A signature opens one thing at most: a signed request is served once    *)
(* and a challenge is exchanged for one session, however often and however *)
(* late it is sent again and whoever prunes the nonces meanwhile.  It      *)
(* needs the wallet's clock to be less ahead than nonces outlive the       *)
(* tolerance; a wallet that is further ahead signs what is still in its    *)
(* window when its nonce is forgotten.                                     *)
SignatureWorksOnce ==
    MaxAhead + MaxDuration < Slack => \A m \in Message : uses[m] <= 1

(* The session of a sign-in that this step ends, and its handler.          *)
SignsIn(h, new) ==
    /\ handler[h].pc = "create" /\ handler'[h] = Idle
    /\ sessions[new] = None /\ sessions'[new] # None

(* A sign-in of the same merchant takes the last place there is for it,    *)
(* and the sessions that stay were not created before this one.            *)
CrowdedOut(s, new) ==
    LET stay == {t \in Session :
                    /\ sessions'[t] # None
                    /\ sessions'[t].merchant = sessions[s].merchant}
    IN  /\ new \in stay
        /\ Cardinality(stay) = MaxSessions
        /\ \A t \in stay \ {new} : sessions[s].createdAt <= sessions[t].createdAt

(* What ended a session is what the code names: it is over by the clock,   *)
(* its browser signed out or is the one that signs in, or the sign-in is   *)
(* one of the same merchant that now has as many as it may, of which this  *)
(* was the oldest.  A sign-in with an older reading of the clock cannot    *)
(* push out a session that is younger than the ones it leaves, nor more    *)
(* than it needs the room of, nor another merchant's.                      *)
SessionsEndForAReason ==
    \A s \in Session :
        sessions[s] # None /\ sessions'[s] = None =>
            \/ ~Live(s, now)
            \/ s = cookie /\ cookie' = None
            \/ \E h \in Handler, new \in Session :
                   /\ SignsIn(h, new)
                   /\ handler[h].previous = s \/ CrowdedOut(s, new)
EndsForAReason == [][SessionsEndForAReason]_vars

=============================================================================
