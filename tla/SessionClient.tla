---------------------------- MODULE SessionClient ---------------------------
(***************************************************************************)
(* The dashboard's session coordinator (src/src/lib/workspaceSessionClient *)
(* .ts) against the session routes and the browser's cookie jar: any       *)
(* number of loads share one sign-in, while the person at the wallet       *)
(* switches accounts, signs out, and leaves prompts open.                  *)
(*                                                                         *)
(* An async function runs undisturbed between two awaits, so a step is an  *)
(* answer that arrives, with what the code does up to its next request.    *)
(* A request carries the cookie the jar held when it was sent; the server  *)
(* serves it later, and the jar follows the answer whether or not the page *)
(* still cares.  Session ids, and the epochs of the client's sessions, are *)
(* the flights that made them.  What the page displays of the sign-in      *)
(* (status) is left out.                                                   *)
(***************************************************************************)
EXTENDS Integers, FiniteSets

CONSTANTS
    Wallet,         \* accounts of the connected wallet
    Load,           \* workspaceFetch calls of the page
    None,           \* no wallet, no session, no cookie, no flight
    MaxFlights,     \* bound: sign-in attempts
    MaxGeneration   \* bound: account switches and sign-outs

ClientAssumption ==
    /\ {MaxFlights, MaxGeneration} \subseteq Nat \ {0}
    /\ None \notin Wallet \cup Nat

VARIABLES
    wallet,      \* the connected account
    generation,  \* walletGeneration
    session,     \* the client's session, while it is valid
    inflight,    \* the flight that concurrent callers share
    declined,    \* the account that declined or signed out
    leaving,     \* pendingLogout, as the generation it belongs to
    flight,      \* each run of establish
    load,        \* each run of workspaceFetch
    logout,      \* each DELETE of the session
    cookie,      \* the browser's session cookie
    live,        \* the server's sessions: whose each is
    out,         \* history: signed out, and nobody asked to sign in since
    staleNo      \* history: a prompt of an earlier wallet was declined

client == <<wallet, generation, session, inflight, declined, leaving>>
server == <<cookie, live>>
history == <<out, staleNo>>
vars == <<client, flight, load, logout, server, history>>

Flight == 1 .. MaxFlights
Generation == 0 .. MaxGeneration
Cookie == Flight \cup {None}

(* sent: the cookie a request carries; got: what the server answered.      *)
FlightState ==
    [pc : {"unused", "logout", "probe", "probed", "challenge", "sign", "login",
           "loggedIn", "done", "failed"},
     merchant : Wallet \cup {None}, gen : Generation,
     awaits : Generation \cup {None}, sent : Cookie, got : Wallet \cup {None}]

LoadState ==
    [pc : {"idle", "wait", "sent", "served", "done", "thrown"},
     merchant : Wallet \cup {None}, gen : Generation, retried : BOOLEAN,
     waits : Flight \cup {None}, epoch : Cookie, sent : Cookie,
     got : Wallet \cup {None}]

Unused == [pc |-> "unused", merchant |-> None, gen |-> 0, awaits |-> None,
           sent |-> None, got |-> None]

NoLoad == [pc |-> "idle", merchant |-> None, gen |-> 0, retried |-> FALSE,
           waits |-> None, epoch |-> None, sent |-> None, got |-> None]

NoSession == [merchant |-> None, epoch |-> None]

Init ==
    /\ wallet = None
    /\ generation = 0
    /\ session = NoSession
    /\ inflight = None
    /\ declined = None
    /\ leaving = None
    /\ flight = [f \in Flight |-> Unused]
    /\ load = [l \in Load |-> NoLoad]
    /\ logout = [g \in Generation |-> [pc |-> "unused", sent |-> None]]
    /\ cookie = None
    /\ live = [f \in Flight |-> None]
    /\ out = FALSE
    /\ staleNo = FALSE

Valid(m) == session.merchant = m
Current(c) == wallet = c.merchant /\ generation = c.gen

-----------------------------------------------------------------------------
(* establish.                                                              *)

NextFlight == 1 + Cardinality({f \in Flight : flight[f].pc # "unused"})

(* Where an attempt to sign own.merchant in has come to.                   *)
FlightAt(own, pc, sent, got) ==
    [pc |-> pc, merchant |-> own.merchant, gen |-> own.gen, awaits |-> None,
     sent |-> sent, got |-> got]

(* A logout that is under way is awaited before the first request.         *)
Begun(m) ==
    LET own == [merchant |-> m, gen |-> generation] IN
    IF leaving = None THEN FlightAt(own, "probe", cookie, None)
    ELSE [FlightAt(own, "logout", None, None) EXCEPT !.awaits = leaving]

Step(f, state) == flight' = [flight EXCEPT ![f] = state]

(* The promise settles: callers go on, and a later call starts another.    *)
Settle(f, pc) ==
    /\ Step(f, [Unused EXCEPT !.pc = pc])
    /\ inflight' = IF inflight = f THEN None ELSE inflight

Fail(f) == Settle(f, "failed") /\ UNCHANGED <<session, declined>>

AfterLogout(f) ==
    /\ flight[f].pc = "logout"
    /\ logout[flight[f].awaits].pc = "done"
    /\ IF Current(flight[f])
       THEN /\ Step(f, FlightAt(flight[f], "probe", cookie, None))
            /\ UNCHANGED <<session, inflight, declined>>
       ELSE Fail(f)
    /\ UNCHANGED <<wallet, generation, leaving, load, logout, server, history>>

(* handleWorkspaceSessionStatus tells whose session the cookie opens.      *)
Probe(f) ==
    /\ flight[f].pc = "probe"
    /\ Step(f, FlightAt(flight[f], "probed", flight[f].sent,
           IF flight[f].sent = None THEN None ELSE live[flight[f].sent]))
    /\ UNCHANGED <<client, load, logout, server, history>>

(* A session of the connected wallet is taken up without a prompt; a       *)
(* cookie that opens nothing is cleared by the answer.                     *)
Probed(f) ==
    LET own == flight[f] IN
    /\ flight[f].pc = "probed"
    /\ cookie' = IF own.sent # None /\ own.got = None THEN None ELSE cookie
    /\ \/ /\ Current(own) /\ own.got = own.merchant
          /\ session' = [merchant |-> own.merchant, epoch |-> f]
          /\ Settle(f, "done")
          /\ UNCHANGED declined
       \/ /\ Current(own) /\ own.got # own.merchant
          /\ Step(f, FlightAt(own, "challenge", None, None))
          /\ UNCHANGED <<session, inflight, declined>>
       \/ ~Current(own) /\ Fail(f)
    /\ UNCHANGED <<wallet, generation, leaving, load, logout, live, history>>

(* The challenge, which names the wallet, opens the wallet's prompt.       *)
Challenged(f) ==
    /\ flight[f].pc = "challenge"
    /\ IF Current(flight[f])
       THEN /\ Step(f, FlightAt(flight[f], "sign", None, None))
            /\ UNCHANGED <<session, inflight, declined>>
       ELSE Fail(f)
    /\ UNCHANGED <<wallet, generation, leaving, load, logout, server, history>>

Sign(f) ==
    /\ flight[f].pc = "sign"
    /\ IF Current(flight[f])
       THEN /\ Step(f, FlightAt(flight[f], "login", cookie, None))
            /\ UNCHANGED <<session, inflight, declined>>
       ELSE Fail(f)
    /\ UNCHANGED <<wallet, generation, leaving, load, logout, server, history>>

(* Whichever wallet is connected by now.                                   *)
Decline(f) ==
    /\ flight[f].pc = "sign"
    /\ declined' = flight[f].merchant
    /\ staleNo' = (staleNo \/ ~Current(flight[f]))
    /\ Settle(f, "failed")
    /\ UNCHANGED <<wallet, generation, session, leaving, load, logout, server, out>>

(* handleWorkspaceLogin: a new session in place of the one presented.      *)
Login(f) ==
    LET own == flight[f] IN
    /\ own.pc = "login"
    /\ live' = [g \in Flight |-> IF g = f THEN own.merchant
                                 ELSE IF g = own.sent THEN None ELSE live[g]]
    /\ Step(f, FlightAt(own, "loggedIn", None, None))
    /\ UNCHANGED <<client, load, logout, cookie, history>>

LoggedIn(f) ==
    LET own == flight[f] IN
    /\ own.pc = "loggedIn"
    /\ cookie' = f
    /\ IF Current(own)
       THEN /\ session' = [merchant |-> own.merchant, epoch |-> f]
            /\ declined' = None
            /\ Settle(f, "done")
       ELSE Fail(f)
    /\ UNCHANGED <<wallet, generation, leaving, load, logout, live, history>>

(* A request or its answer is lost, or the server refuses it.              *)
Lost(f) ==
    /\ flight[f].pc \in {"probe", "probed", "challenge", "login", "loggedIn"}
    /\ Fail(f)
    /\ UNCHANGED <<wallet, generation, leaving, load, logout, server, history>>

Establish(f) ==
    \/ AfterLogout(f) \/ Probe(f) \/ Probed(f) \/ Challenged(f)
    \/ Sign(f) \/ Decline(f) \/ Login(f) \/ LoggedIn(f) \/ Lost(f)

-----------------------------------------------------------------------------
(* ensureSession and workspaceFetch.                                       *)

(* Where a fetch for c.merchant has come to.                               *)
LoadAt(c, pc, waits, epoch, sent, got) ==
    [pc |-> pc, merchant |-> c.merchant, gen |-> c.gen, retried |-> c.retried,
     waits |-> waits, epoch |-> epoch, sent |-> sent, got |-> got]

Send(l, c) ==
    load' = [load EXCEPT ![l] = LoadAt(c, "sent", None, session'.epoch, cookie, None)]

Await(l, c, f) == load' = [load EXCEPT ![l] = LoadAt(c, "wait", f, None, None, None)]

Throw(l) ==
    load' = [load EXCEPT ![l] = LoadAt(NoLoad, "thrown", None, None, None, None)]

(* The session is there, a flight under way is joined, or one is begun.    *)
Ensure(l, c) ==
    \/ /\ session'.merchant = wallet
       /\ Send(l, c)
       /\ UNCHANGED <<inflight, flight>>
    \/ /\ session'.merchant # wallet /\ inflight # None
       /\ Await(l, c, inflight)
       /\ UNCHANGED <<inflight, flight>>
    \/ /\ session'.merchant # wallet /\ inflight = None /\ declined = wallet
       /\ Throw(l)
       /\ UNCHANGED <<inflight, flight>>
    \/ /\ session'.merchant # wallet /\ inflight = None /\ declined # wallet
       /\ NextFlight \in Flight
       /\ Step(NextFlight, Begun(wallet))
       /\ inflight' = NextFlight
       /\ Await(l, c, NextFlight)

Fetch(l) ==
    /\ load[l].pc = "idle"
    /\ wallet # None
    /\ UNCHANGED session
    /\ Ensure(l, [merchant |-> wallet, gen |-> generation, retried |-> FALSE])
    /\ UNCHANGED <<wallet, generation, declined, leaving, logout, server, history>>

(* The flight it waits for settled.                                        *)
Ensured(l) ==
    /\ load[l].pc = "wait"
    /\ UNCHANGED session
    /\ \/ /\ flight[load[l].waits].pc = "done" /\ Current(load[l])
          /\ Send(l, load[l])
       \/ /\ flight[load[l].waits].pc = "done" /\ ~Current(load[l])
          /\ Throw(l)
       \/ /\ flight[load[l].waits].pc = "failed"
          /\ Throw(l)
    /\ UNCHANGED <<wallet, generation, inflight, declined, leaving, flight, logout,
                   server, history>>

(* authenticateWorkspaceSession: the cookie must open a session of the     *)
(* wallet that the request names.                                          *)
Authenticated(sent, merchant) ==
    IF sent # None /\ live[sent] = merchant THEN merchant ELSE None

Serve(l) ==
    LET c == load[l] IN
    /\ c.pc = "sent"
    /\ load' = [load EXCEPT ![l] =
           LoadAt(c, "served", None, c.epoch, None, Authenticated(c.sent, c.merchant))]
    /\ UNCHANGED <<client, flight, logout, server, history>>

Answered_Unchecked(l) ==
    LET c == load[l] IN
    /\ c.pc = "served"
    /\ \/ /\ c.got # None
          /\ load' = [load EXCEPT ![l] = [c EXCEPT !.pc = "done"]]
          /\ UNCHANGED <<session, inflight, flight>>
       \/ /\ c.got = None
          /\ Throw(l)
          /\ UNCHANGED <<session, inflight, flight>>
    /\ UNCHANGED <<wallet, generation, declined, leaving, logout, server, history>>

(* A refused request is tried once more, with a session that is not the    *)
(* one it was refused with.                                                *)
Answered(l) ==
    LET c == load[l] IN
    /\ c.pc = "served"
    /\ \/ /\ ~Current(c)
          /\ Throw(l)
          /\ UNCHANGED <<session, inflight, flight>>
       \/ /\ Current(c) /\ (c.got # None \/ c.retried)
          /\ load' = [load EXCEPT ![l] = [c EXCEPT !.pc = "done"]]
          /\ UNCHANGED <<session, inflight, flight>>
       \/ /\ Current(c) /\ c.got = None /\ ~c.retried
          /\ session' = IF session.epoch = c.epoch THEN NoSession ELSE session
          /\ Ensure(l, [c EXCEPT !.retried = TRUE])
    /\ UNCHANGED <<wallet, generation, declined, leaving, logout, server, history>>

-----------------------------------------------------------------------------
(* The person at the page.                                                 *)

(* revokeServerSession.                                                    *)
Revoke ==
    /\ logout' = [logout EXCEPT ![generation'] = [pc |-> "sent", sent |-> cookie]]
    /\ leaving' = generation'

(* switchWallet: an account, or none.                                      *)
SwitchWallet(next) ==
    /\ next # wallet
    /\ generation < MaxGeneration
    /\ wallet' = next
    /\ generation' = generation + 1
    /\ session' = NoSession
    /\ inflight' = None
    /\ declined' = None
    /\ IF wallet # None THEN Revoke ELSE UNCHANGED <<logout, leaving>>
    /\ out' = FALSE
    /\ UNCHANGED <<flight, load, server, staleNo>>

SignOut_SameGeneration ==
    /\ wallet # None
    /\ generation < MaxGeneration
    /\ session' = NoSession
    /\ inflight' = None
    /\ UNCHANGED generation
    /\ declined' = wallet
    /\ Revoke
    /\ out' = TRUE
    /\ UNCHANGED <<wallet, flight, load, server, staleNo>>

SignOut ==
    /\ wallet # None
    /\ generation < MaxGeneration
    /\ session' = NoSession
    /\ inflight' = None
    /\ generation' = generation + 1
    /\ declined' = wallet
    /\ Revoke
    /\ out' = TRUE
    /\ UNCHANGED <<wallet, flight, load, server, staleNo>>

(* signIn asks whatever was declined.                                      *)
SignIn ==
    /\ wallet # None
    /\ ~Valid(wallet)
    /\ inflight = None
    /\ NextFlight \in Flight
    /\ Step(NextFlight, Begun(wallet))
    /\ inflight' = NextFlight
    /\ out' = FALSE
    /\ UNCHANGED <<wallet, generation, session, declined, leaving, load, logout,
                   server, staleNo>>

(* handleWorkspaceLogout removes the session of the cookie it is sent.     *)
ServeLogout(g) ==
    /\ logout[g].pc = "sent"
    /\ logout' = [logout EXCEPT ![g].pc = "served"]
    /\ live' = [f \in Flight |-> IF f = logout[g].sent THEN None ELSE live[f]]
    /\ UNCHANGED <<client, flight, load, cookie, history>>

(* Its answer clears the jar; an answer that is lost does not.             *)
LogoutDone(g) ==
    /\ logout[g].pc \in {"sent", "served"}
    /\ logout' = [logout EXCEPT ![g].pc = "done"]
    /\ cookie' \in IF logout[g].pc = "served" THEN {cookie, None} ELSE {cookie}
    /\ leaving' = IF leaving = g THEN None ELSE leaving
    /\ UNCHANGED <<wallet, generation, session, inflight, declined, flight, load,
                   live, history>>

(* A session is over, for the server and by the client's clock.            *)
Expire(f) ==
    /\ live[f] # None
    /\ live' = [live EXCEPT ![f] = None]
    /\ session' \in {session, NoSession}
    /\ UNCHANGED <<wallet, generation, inflight, declined, leaving, flight, load,
                   logout, cookie, history>>

Next ==
    \/ \E f \in Flight : Establish(f) \/ Expire(f)
    \/ \E l \in Load : Fetch(l) \/ Ensured(l) \/ Serve(l) \/ Answered(l)
    \/ \E w \in Wallet \cup {None} : SwitchWallet(w)
    \/ SignOut \/ SignIn
    \/ \E g \in Generation : ServeLogout(g) \/ LogoutDone(g)

Spec == Init /\ [][Next]_vars

-----------------------------------------------------------------------------
(* Properties.                                                             *)

(* Types of the state.                                                     *)
TypeOK ==
    /\ {wallet, declined} \subseteq Wallet \cup {None}
    /\ generation \in Generation
    /\ session \in [merchant : Wallet \cup {None}, epoch : Cookie]
    /\ inflight \in Cookie
    /\ leaving \in Generation \cup {None}
    /\ flight \in [Flight -> FlightState]
    /\ load \in [Load -> LoadState]
    /\ cookie \in Cookie
    /\ live \in [Flight -> Wallet \cup {None}]

(* Data reach the page only for the wallet that is connected when they do, *)
(* though the request may have been sent, and its sign-in begun, before    *)
(* the wallet changed, and though the jar may hold another wallet's cookie *)
(* (the requireCurrent after each await, and the header the server checks).*)
DeliversOwn ==
    \A l \in Load :
        load[l].pc # "done" /\ load'[l].pc = "done" /\ load'[l].got # None =>
            load'[l].got = wallet

DeliveredIsOwn == [][DeliversOwn]_vars

(* After a sign-out nothing signs in again by itself: not a sign-in that   *)
(* was under way, nor a load that was refused, as long as nobody turns     *)
(* down a prompt that an earlier wallet left open.                         *)
SignedOutStaysOut == out /\ ~staleNo => session = NoSession

=============================================================================
