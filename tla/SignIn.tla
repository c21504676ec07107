------------------------------- MODULE SignIn --------------------------------
(***************************************************************************)
(* Both ends of signing in: the server's nonces and sessions               *)
(* (WalletAccess), and the client's (SessionClient), which has a server of *)
(* its own, reduced to what a client can tell.  They share no state; the   *)
(* initial state chooses the one that runs.                                *)
(***************************************************************************)
EXTENDS WalletAccess

CONSTANTS MaxFlights, MaxGeneration

VARIABLES
    part,
    wallet, generation, session, inflight, declined, leaving, flight, load,
    logout, jar, live, out, staleNo

(* The wallets are those of the merchants, and a page has as many loads    *)
(* under way as the server has requests.                                   *)
Page == INSTANCE SessionClient WITH
    Wallet <- Merchant, Load <- Handler, cookie <- jar

page == <<wallet, generation, session, inflight, declined, leaving, flight, load,
          logout, jar, live, out, staleNo>>

ASSUME PageAssumption == Page!ClientAssumption

SignInInit == part \in {"server", "page"} /\ Init /\ Page!Init

SignInNext ==
    /\ part' = part
    /\ \/ part = "server" /\ Next /\ UNCHANGED page
       \/ part = "page" /\ Page!Next /\ UNCHANGED vars

SignInVars == <<part, vars, page>>

SignInSpec == SignInInit /\ [][SignInNext]_SignInVars

-----------------------------------------------------------------------------
(* Properties of the client.                                               *)

(* SessionClient: data are delivered to the wallet that asked for them.    *)
DeliveredIsOwn == [][part = "page" => Page!DeliversOwn]_<<part, page>>

(* SessionClient: nothing signs in again by itself after a sign-out.       *)
SignedOutStaysOut == Page!SignedOutStaysOut

=============================================================================
