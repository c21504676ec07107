--------------------------- MODULE EscrowContract ----------------------------
(***************************************************************************)
(* contracts/FinalEscrow.sol and the chain it runs on.  An escrow is named *)
(* by the hash of its terms and its creator, so an element of Escrow       *)
(* stands for the terms, which the functions Payer to ExpiresAt give.      *)
(*                                                                         *)
(* A transaction holds one call: of the contract, of another contract that *)
(* emits a log of the same shape, or one that reverted.  Its hash is its   *)
(* place in the chain, and nothing leaves the chain.  block.timestamp and  *)
(* the clock of the servers are one clock.                                 *)
(***************************************************************************)
EXTENDS Integers, Sequences, FiniteSets

CONSTANTS
    Escrow,     \* terms of an agreement, its creator among them
    Account,    \* addresses that hold USDC
    Payer, Recipient, Creator, Amount, ExpiresAt,  \* the terms of each
    Supply,     \* what each account holds at first
    MaxTime,    \* bound: last tick of the clock
    MaxTxs,     \* bound: transactions on the chain
    MaxOther    \* bound: those that are no successful call of the contract

VARIABLES
    status,     \* escrows[id].status
    chain,      \* every transaction, in order
    wallet,     \* USDC balance of each account
    held,       \* USDC balance of the contract
    now         \* block.timestamp

contractVars == <<status, chain, wallet, held, now>>

Status == {"None", "Open", "Funded", "Released", "Refunded", "Cancelled"}
Event == {"EscrowOpened", "EscrowCancelled", "EscrowFunded",
          "EscrowReleased", "EscrowRefunded"}
Call == {"open", "voidEscrow", "cancel", "fund", "release", "refund"}

Tx == [success : BOOLEAN, ours : BOOLEAN, event : Event, escrow : Escrow,
       time : Nat]

ASSUME TermsAssumption ==
    /\ IsFiniteSet(Escrow)   \* ids are of 32 bytes
    /\ {Payer, Recipient, Creator} \subseteq [Escrow -> Account]
    /\ Amount \in [Escrow -> Nat \ {0}]
    /\ ExpiresAt \in [Escrow -> Nat]
    /\ Supply \in [Account -> Nat]
    /\ MaxTime \in Nat
    /\ MaxTxs \in Nat
    /\ MaxOther \in Nat

-----------------------------------------------------------------------------

Log(e, event) ==
    /\ Len(chain) < MaxTxs
    /\ chain' = Append(chain, [success |-> TRUE, ours |-> TRUE,
                               event |-> event, escrow |-> e, time |-> now])
    /\ UNCHANGED now

SetStatus(e, s) == status' = [status EXCEPT ![e] = s]

(* What each function requires of the sender, the row and the block.       *)
Allows(call, e, sender) ==
    \/ /\ call = "open"
       /\ sender = Creator[e]
       /\ ExpiresAt[e] > now
       /\ status[e] = "None"
    \/ /\ call = "voidEscrow"
       /\ sender = Creator[e]
       /\ status[e] = "None"
    \/ /\ call = "cancel"
       /\ status[e] = "Open"
       /\ sender = Creator[e]
    \/ /\ call = "fund"
       /\ status[e] = "Open"
       /\ sender = Payer[e]
       /\ wallet[sender] >= Amount[e]
    \/ /\ call = "release"
       /\ status[e] = "Funded"
       /\ sender = Recipient[e]
       /\ now < ExpiresAt[e]
    \/ /\ call = "refund"
       /\ status[e] = "Funded"
       /\ sender = Payer[e]
       /\ now >= ExpiresAt[e]

open(e, sender) ==
    /\ Allows("open", e, sender)
    /\ SetStatus(e, "Open")
    /\ Log(e, "EscrowOpened")
    /\ UNCHANGED <<wallet, held>>

voidEscrow(e, sender) ==
    /\ Allows("voidEscrow", e, sender)
    /\ SetStatus(e, "Cancelled")
    /\ Log(e, "EscrowCancelled")
    /\ UNCHANGED <<wallet, held>>

cancel_Funded(e, sender) ==
    /\ sender = Creator[e]
    /\ status[e] \in {"Open", "Funded"}
    /\ SetStatus(e, "Cancelled")
    /\ Log(e, "EscrowCancelled")
    /\ UNCHANGED <<wallet, held>>

cancel(e, sender) ==
    /\ Allows("cancel", e, sender)
    /\ SetStatus(e, "Cancelled")
    /\ Log(e, "EscrowCancelled")
    /\ UNCHANGED <<wallet, held>>

fund(e, sender) ==
    /\ Allows("fund", e, sender)
    /\ SetStatus(e, "Funded")
    /\ wallet' = [wallet EXCEPT ![sender] = @ - Amount[e]]
    /\ held' = held + Amount[e]
    /\ Log(e, "EscrowFunded")

(* The contract pays what it holds for e to account a.                     *)
PayOut(e, a) ==
    /\ held >= Amount[e]
    /\ held' = held - Amount[e]
    /\ wallet' = [wallet EXCEPT ![a] = @ + Amount[e]]

release(e, sender) ==
    /\ Allows("release", e, sender)
    /\ SetStatus(e, "Released")
    /\ PayOut(e, Recipient[e])
    /\ Log(e, "EscrowReleased")

refund(e, sender) ==
    /\ Allows("refund", e, sender)
    /\ SetStatus(e, "Refunded")
    /\ PayOut(e, Payer[e])
    /\ Log(e, "EscrowRefunded")

(* A call that reverts, or a log of another contract: a transaction that   *)
(* anyone can show the service as if it were evidence.                     *)
UnrelatedTx(e, event) ==
    /\ Len(chain) < MaxTxs
    /\ Cardinality({i \in 1 .. Len(chain) :
                       ~(chain[i].success /\ chain[i].ours)}) < MaxOther
    /\ \E success \in BOOLEAN :
           chain' = Append(chain, [success |-> success, ours |-> ~success,
                                   event |-> event, escrow |-> e,
                                   time |-> now])
    /\ UNCHANGED <<status, wallet, held, now>>

Tick ==
    /\ now < MaxTime
    /\ now' = now + 1
    /\ UNCHANGED <<status, chain, wallet, held>>

ContractInit ==
    /\ status = [e \in Escrow |-> "None"]
    /\ chain = <<>>
    /\ wallet = Supply
    /\ held = 0
    /\ now = 0

ContractNext ==
    \/ \E e \in Escrow, sender \in Account :
           \/ open(e, sender) \/ voidEscrow(e, sender) \/ cancel(e, sender)
           \/ fund(e, sender) \/ release(e, sender) \/ refund(e, sender)
    \/ \E e \in Escrow, event \in Event : UnrelatedTx(e, event)
    \/ Tick

-----------------------------------------------------------------------------
(* Properties.                                                             *)

(* The contract as a life of its escrows: an id it does not know is an     *)
(* agreement that is only CREATED.                                         *)
OnChain(e) ==
    CASE status[e] = "None" -> "CREATED"
      [] status[e] = "Open" -> "OPEN"
      [] status[e] = "Funded" -> "FUNDED"
      [] status[e] = "Released" -> "RELEASED"
      [] status[e] = "Refunded" -> "REFUNDED"
      [] OTHER -> "CANCELLED"

=============================================================================
