---------------------------- MODULE EscrowProofs -----------------------------
(***************************************************************************)
(* Theorems about EscrowService, for any agreements, accounts, handlers    *)
(* and nonces, and a chain of any length: contract and rows live the life  *)
(* of EscrowLife, rows say what the chain says and can always be brought   *)
(* up to date with it, and a change of state is announced once.            *)
(***************************************************************************)
EXTENDS EscrowService, TotalsProofs

Open == {"CREATED", "OPEN", "FUNDED"}

(* Every stored transaction of the contract is still true of the escrow,   *)
(* and for every step that the contract took there is one.                 *)
ChainTells ==
    \A e \in Escrow, a \in Action, n \in Nat :
        Evidence(e, a, n) => OnChain(e) \in Ahead(ResultOf(a))

Told(e, a) == \E n \in Nat : Evidence(e, a, n) /\ InTime(e, a, chain[n].time)

ContractTold ==
    \A e \in Escrow, a \in Action : Took(a, OnChain(e)) => Told(e, a)

(* A row, stored or in the hands of a handler, is no further than the      *)
(* contract, has the transactions of its own life, and has used no nonce   *)
(* while it is open.                                                       *)
HashesTell(e, row) ==
    \A a \in Action :
        /\ Took(a, row.state) => row.hash[a] # NoHash
        /\ row.hash[a] # NoHash =>
               /\ Took(a, row.state) \/ row.state = "CANCELLED"
               /\ StoredHashVerifies(e, a, row.hash[a])

RowTrue(e, row) ==
    /\ OnChain(e) \in Ahead(row.state)
    /\ HashesTell(e, row)
    /\ row.state \in Open => row.usedNonces = {}

RowsTrue == \A e \in Escrow : rows[e] # NoRow => RowTrue(e, rows[e])

(* A handler holds a true row; the stored row was there when the handler   *)
(* began and went on from the copy, unless the handler creates it.         *)
HandlerTrue(l) ==
    l.pc # "idle" =>
        /\ RowTrue(l.escrow, l.copy)
        /\ l.pc = "create" => l.copy = NewRow
        /\ l.pc # "create" => rows[l.escrow] # NoRow
        /\ l.pc \in {"funding", "load"} =>
               /\ Starts(l.action, l.copy.state)
               /\ l.action \in {"open", "fund"} => l.nonces = {}
               /\ rows[l.escrow].state \in Ahead(l.copy.state)
        /\ l.pc = "save" =>
               /\ l.copy.state = ResultOf(l.action)
               /\ \E s \in States : /\ Starts(l.action, s)
                                    /\ rows[l.escrow].state \in Ahead(s)
        /\ l.pc = "emit" => rows[l.escrow].state \in Ahead(l.copy.state)

(* What was announced is not being announced, and no two handlers announce *)
(* the same change.                                                        *)
Emitting(h, e, s) ==
    handler[h].pc = "emit" /\ handler[h].escrow = e /\ handler[h].copy.state = s

OneAnnouncement ==
    \A e \in Escrow, s \in States :
        /\ announced[e][s] > 0 =>
               /\ announced[e][s] = 1 /\ rows[e] # NoRow
               /\ rows[e].state \in Ahead(s)
               /\ \A h \in Handler : ~Emitting(h, e, s)
        /\ \A g, h \in Handler : Emitting(g, e, s) /\ Emitting(h, e, s) => g = h

IInv ==
    /\ TypeOK
    /\ ChainTells
    /\ ContractTold
    /\ RowsTrue
    /\ \A h \in Handler : HandlerTrue(handler[h])
    /\ OneAnnouncement

(* What no step takes back.                                                *)
ChainGrows ==
    /\ Len(chain') \in Nat /\ Len(chain') >= Len(chain)
    /\ \A n \in 1 .. Len(chain) : chain'[n] = chain[n]
LifeGoesOn == \A e \in Escrow : OnChain(e)' \in Ahead(OnChain(e))
RowsGoOn ==
    \A e \in Escrow : rows[e] # NoRow =>
        rows'[e] # NoRow /\ rows'[e].state \in Ahead(rows[e].state)

-----------------------------------------------------------------------------
(* The life of an agreement.                                               *)

LEMMA Onward ==
    ASSUME NEW s \in States
    PROVE  /\ s \in Ahead(s)
           /\ \A t \in Ahead(s) : t \in States /\ Ahead(t) \subseteq Ahead(s)
           /\ \A t \in Ahead(s) : s \in Ahead(t) => s = t
  BY DEF Ahead, States, Life!Ahead, Life!States

LEMMA Starting ==
    ASSUME NEW a \in Action, NEW s \in States, Starts(a, s)
    PROVE  /\ ResultOf(a) \in Ahead(s) /\ ResultOf(a) \in States /\ ResultOf(a) # s
           /\ <<s, ResultOf(a)>> \in Life!Step
           /\ \A b \in Action : Took(b, ResultOf(a)) => b = a \/ Took(b, s)
           /\ \A b \in Action :
                  Took(b, s) => Took(b, ResultOf(a)) \/ ResultOf(a) = "CANCELLED"
           /\ Took(a, ResultOf(a))
           /\ s # "CANCELLED"
  BY DEF Ahead, States, Life!Ahead, Life!States, Life!Step, Starts, ResultOf, Took,
     Action

LEMMA OnChainIsState == ASSUME NEW e \in Escrow PROVE OnChain(e) \in States
  BY DEF OnChain, States, Life!States

LEMMA AtFirst ==
    /\ NewRow \in Row /\ NewRow.state = "CREATED" /\ NewRow.usedNonces = {}
    /\ \A a \in Action : NewRow.hash[a] = NoHash /\ ~Took(a, "CREATED")
    /\ Ahead("CREATED") = States /\ "CREATED" \in States
  BY DEF NewRow, Row, NoHash, Took, Action, ResultOf, Ahead, States, Life!Ahead,
     Life!States

-----------------------------------------------------------------------------
(* What stays true while the chain grows.                                  *)

LEMMA EvidenceStays ==
    ASSUME TypeOK, ChainGrows, NEW e \in Escrow, NEW a \in Action, NEW n,
           Evidence(e, a, n)
    PROVE  /\ Evidence(e, a, n)' /\ n \in Nat
           /\ InTime(e, a, chain[n].time) => InTime(e, a, chain'[n].time)
<1>1. Len(chain) \in Nat
  BY DEF TypeOK
<1>2. n \in 1 .. Len(chain)
  BY DEF Evidence, Loaded
<1>3. chain'[n] = chain[n] /\ n \in 1 .. Len(chain')
  BY <1>1, <1>2 DEF ChainGrows
<1> QED
  BY <1>2, <1>3 DEF Evidence, Loaded, InTime

LEMMA HashStays ==
    ASSUME TypeOK, ChainGrows, NEW e \in Escrow, NEW a \in Action, NEW n,
           StoredHashVerifies(e, a, n)
    PROVE  StoredHashVerifies(e, a, n)'
<1>1. Evidence(e, a, n)' /\ InTime(e, a, chain'[n].time)
  BY EvidenceStays DEF StoredHashVerifies
<1> QED
  BY <1>1 DEF StoredHashVerifies, InTime

LEMMA RowStays ==
    ASSUME TypeOK, ChainGrows, LifeGoesOn, NEW e \in Escrow, NEW row \in Row,
           RowTrue(e, row)
    PROVE  RowTrue(e, row)'
<1>1. row.state \in States
  BY DEF Row
<1>2. OnChain(e)' \in Ahead(row.state)
  BY <1>1, Onward DEF RowTrue, LifeGoesOn
<1>3. HashesTell(e, row)'
  BY HashStays DEF RowTrue, HashesTell
<1> QED
  BY <1>2, <1>3 DEF RowTrue, Ahead, Open

LEMMA HandlerStays ==
    ASSUME TypeOK, ChainGrows, LifeGoesOn, RowsGoOn, rows' \in [Escrow -> Row \cup {NoRow}],
           NEW l \in Local \cup {Idle}, HandlerTrue(l)
    PROVE  HandlerTrue(l)'
<1> SUFFICES ASSUME l.pc # "idle" PROVE HandlerTrue(l)'
  BY DEF HandlerTrue
<1>1. l \in Local
  BY DEF Idle
<1>2. l.escrow \in Escrow /\ l.copy \in Row /\ l.action \in Action
  BY <1>1 DEF Local
<1>3. RowTrue(l.escrow, l.copy)'
  BY <1>2, RowStays DEF HandlerTrue
<1>4. \A s \in States :
          rows[l.escrow] # NoRow /\ rows[l.escrow].state \in Ahead(s) =>
              rows'[l.escrow] # NoRow /\ rows'[l.escrow].state \in Ahead(s)
  BY <1>2, Onward DEF RowsGoOn
<1>5. l.copy.state \in States
  BY <1>2 DEF Row
<1> QED
  BY <1>2, <1>3, <1>4, <1>5 DEF HandlerTrue, RowsGoOn

-----------------------------------------------------------------------------
(* The contract.                                                           *)

ContractGood ==
    /\ status' \in [Escrow -> Status] /\ chain' \in Seq(Tx)
    /\ wallet' \in [Account -> Nat] /\ held' \in Nat /\ now' \in Nat
    /\ ChainGrows /\ LifeGoesOn /\ ChainTells' /\ ContractTold'
    /\ Life!Next \/ UNCHANGED [e \in Escrow |-> OnChain(e)]

(* A successful call adds its log to the chain.                            *)
LEMMA Logged ==
    ASSUME TypeOK, NEW e \in Escrow, NEW event \in Event, Log(e, event),
           NEW m, m = Len(chain) + 1
    PROVE  /\ chain' \in Seq(Tx) /\ ChainGrows /\ now' \in Nat
           /\ m \in Nat /\ Len(chain') = m
           /\ chain'[m].success /\ chain'[m].ours /\ chain'[m].event = event
           /\ chain'[m].escrow = e /\ chain'[m].time = now
<1> DEFINE tx == [success |-> TRUE, ours |-> TRUE, event |-> event,
                  escrow |-> e, time |-> now]
<1>1. /\ tx \in Tx /\ tx.success /\ tx.ours /\ tx.event = event /\ tx.escrow = e
      /\ tx.time = now
  BY DEF TypeOK, Tx
<1>2. chain \in Seq(Tx) /\ now \in Nat
  BY DEF TypeOK
<1>3. chain' = Append(chain, tx) /\ now' = now
  BY DEF Log
<1> HIDE DEF tx
<1>4. /\ chain' \in Seq(Tx) /\ Len(chain') = m /\ chain'[m] = tx
      /\ Len(chain) \in Nat
      /\ \A n \in 1 .. Len(chain) : chain'[n] = chain[n]
  BY <1>1, <1>2, <1>3
<1>5. ChainGrows
  BY <1>4 DEF ChainGrows
<1> QED
  BY <1>1, <1>2, <1>3, <1>4, <1>5

LEMMA EventsDiffer ==
    ASSUME NEW a \in Action
    PROVE  /\ EventName(a) \in Event
           /\ \A b \in Action : EventName(a) = EventName(b) => a = b
  BY DEF Action, EventName, Event

(* A call that takes an escrow a step of its life.                         *)
LEMMA CallGood ==
    ASSUME TypeOK, ChainTells, ContractTold, NEW e \in Escrow, NEW a \in Action,
           NEW s \in Status, Starts(a, OnChain(e)), SetStatus(e, s),
           OnChain(e)' = ResultOf(a), Log(e, EventName(a)), InTime(e, a, now),
           wallet' \in [Account -> Nat], held' \in Nat
    PROVE  ContractGood
<1> PICK m : m = Len(chain) + 1
  OBVIOUS
<1>1. /\ chain' \in Seq(Tx) /\ ChainGrows /\ now' \in Nat
      /\ Len(chain') = m /\ chain'[m].success /\ chain'[m].ours
      /\ chain'[m].event = EventName(a) /\ chain'[m].escrow = e
      /\ chain'[m].time = now /\ m \in Nat
  <2>1. EventName(a) \in Event
    BY EventsDiffer
  <2> QED
    BY <2>1, Logged
<1>2. status' \in [Escrow -> Status] /\ \A d \in Escrow \ {e} : status'[d] = status[d]
  BY DEF TypeOK, SetStatus
<1>3. \A d \in Escrow \ {e} : OnChain(d)' = OnChain(d)
  BY <1>2 DEF OnChain
<1>4. \A d \in Escrow : OnChain(d) \in States
  BY OnChainIsState
<1>5. /\ ResultOf(a) \in Ahead(OnChain(e)) /\ <<OnChain(e), ResultOf(a)>> \in Life!Step
      /\ \A b \in Action : Took(b, ResultOf(a)) => b = a \/ Took(b, OnChain(e))
      /\ ResultOf(a) \in States
  BY <1>4, Starting
<1>6. LifeGoesOn
  BY <1>3, <1>4, <1>5, Onward DEF LifeGoesOn
<1>7. ASSUME NEW d \in Escrow, NEW b \in Action, NEW n \in Nat, Evidence(d, b, n)'
      PROVE  OnChain(d)' \in Ahead(ResultOf(b))
  <2>1. n \in 1 .. m
    BY <1>1, <1>7 DEF Evidence, Loaded
  <2>2. CASE n = m
    <3>1. d = e /\ b = a
      BY <1>1, <1>7, <2>2, EventsDiffer DEF Evidence
    <3> QED
      BY <3>1, <1>5, Onward DEF OnChain
  <2>3. CASE n # m
    <3>1. n \in 1 .. Len(chain)
      BY <2>1, <2>3, <1>1 DEF TypeOK
    <3>2. chain'[n] = chain[n]
      BY <3>1, <1>1 DEF ChainGrows
    <3>3. Evidence(d, b, n)
      BY <3>1, <3>2, <1>7 DEF Evidence, Loaded
    <3>4. OnChain(d) \in Ahead(ResultOf(b)) /\ ResultOf(b) \in States
      BY <3>3 DEF ChainTells, ResultOf, Action, States, Life!States
    <3>5. OnChain(d)' \in Ahead(OnChain(d))
      BY <1>6 DEF LifeGoesOn
    <3> QED
      BY <3>4, <3>5, Onward
  <2> QED
    BY <2>2, <2>3
<1>8. ASSUME NEW d \in Escrow, NEW b \in Action, Told(d, b)
      PROVE  Told(d, b)'
  <2>1. PICK n \in Nat : Evidence(d, b, n) /\ InTime(d, b, chain[n].time)
    BY <1>8 DEF Told
  <2>2. Evidence(d, b, n)' /\ InTime(d, b, chain'[n].time)
    BY <2>1, <1>1, EvidenceStays
  <2> QED
    BY <2>2 DEF Told, InTime
<1>9. Told(e, a)'
  <2>1. Evidence(e, a, m)'
    BY <1>1 DEF Evidence, Loaded
  <2>2. InTime(e, a, chain'[m].time)
    BY <1>1
  <2> QED
    BY <2>1, <2>2, <1>1 DEF Told, InTime
<1>10. ASSUME NEW d \in Escrow, NEW b \in Action, Took(b, OnChain(d)')
       PROVE  Told(d, b)'
  <2>1. CASE d = e /\ b = a
    BY <2>1, <1>9
  <2>2. CASE ~(d = e /\ b = a)
    <3>1. Took(b, OnChain(d))
      BY <2>2, <1>3, <1>5, <1>10
    <3> QED
      BY <3>1, <1>8 DEF ContractTold
  <2> QED
    BY <2>1, <2>2
<1>11. Life!Next
  <2>1. [d \in Escrow |-> OnChain(d)'] =
        [[d \in Escrow |-> OnChain(d)] EXCEPT ![e] = ResultOf(a)]
    BY <1>3
  <2>2. Life!Move(e, ResultOf(a))
    BY <2>1, <1>5 DEF Life!Move
  <2> QED
    BY <2>2, <1>5 DEF Life!Next, States
<1>12. ChainTells' /\ ContractTold'
  BY <1>7, <1>10 DEF ChainTells, ContractTold, Took
<1> QED
  BY <1>1, <1>2, <1>6, <1>11, <1>12 DEF ContractGood

LEMMA Statuses ==
    ASSUME TypeOK, NEW e \in Escrow, NEW s \in Status, SetStatus(e, s)
    PROVE  status'[e] = s
  BY DEF TypeOK, SetStatus

(* Both ways to cancel end the escrow with the same log.                   *)
LEMMA CancelGood ==
    ASSUME TypeOK, ChainTells, ContractTold, NEW e \in Escrow,
           status[e] \in {"None", "Open"}, SetStatus(e, "Cancelled"),
           Log(e, "EscrowCancelled"), UNCHANGED <<wallet, held>>
    PROVE  ContractGood
<1>1. status'[e] = "Cancelled"
  BY Statuses DEF Status
<1>2. Starts("cancel", OnChain(e)) /\ OnChain(e)' = ResultOf("cancel")
  BY <1>1 DEF OnChain, Starts, ResultOf
<1>3. "cancel" \in Action /\ "Cancelled" \in Status /\ InTime(e, "cancel", now)
      /\ EventName("cancel") = "EscrowCancelled"
  BY DEF Action, Status, InTime, EventName
<1>4. wallet' \in [Account -> Nat] /\ held' \in Nat
  BY DEF TypeOK
<1> QED
  BY <1>2, <1>3, <1>4, CallGood

LEMMA OpenGood ==
    ASSUME TypeOK, ChainTells, ContractTold, NEW e \in Escrow, NEW a \in Account,
           open(e, a)
    PROVE  ContractGood
<1>1. status[e] = "None" /\ status'[e] = "Open"
  BY Statuses DEF open, Allows, Status
<1>2. Starts("open", OnChain(e)) /\ OnChain(e)' = ResultOf("open")
  BY <1>1 DEF OnChain, Starts, ResultOf
<1>3. "open" \in Action /\ "Open" \in Status /\ InTime(e, "open", now)
      /\ EventName("open") = "EscrowOpened"
  BY DEF Action, Status, InTime, EventName
<1>4. wallet' \in [Account -> Nat] /\ held' \in Nat
  BY DEF TypeOK, open
<1>5. SetStatus(e, "Open") /\ Log(e, "EscrowOpened")
  BY Zenon DEF open
<1> QED
  BY <1>2, <1>3, <1>4, <1>5, CallGood

LEMMA FundGood ==
    ASSUME TypeOK, ChainTells, ContractTold, NEW e \in Escrow, NEW a \in Account,
           fund(e, a)
    PROVE  ContractGood
<1>1. status[e] = "Open" /\ status'[e] = "Funded" /\ wallet[a] >= Amount[e]
  BY Statuses DEF fund, Allows, Status
<1>2. Starts("fund", OnChain(e)) /\ OnChain(e)' = ResultOf("fund")
  BY <1>1 DEF OnChain, Starts, ResultOf
<1>3. "fund" \in Action /\ "Funded" \in Status /\ InTime(e, "fund", now)
      /\ EventName("fund") = "EscrowFunded"
  BY DEF Action, Status, InTime, EventName
<1>4. wallet' \in [Account -> Nat] /\ held' \in Nat
  <2>1. /\ Amount[e] \in Nat /\ wallet \in [Account -> Nat] /\ held \in Nat
        /\ wallet' = [wallet EXCEPT ![a] = wallet[a] - Amount[e]]
        /\ held' = held + Amount[e]
    BY TermsAssumption, Zenon DEF TermsAssumption, TypeOK, fund
  <2>2. held' \in Nat /\ wallet[a] - Amount[e] \in Nat
    BY <1>1, <2>1
  <2> QED
    BY <2>1, <2>2
<1>5. SetStatus(e, "Funded") /\ Log(e, "EscrowFunded")
  BY Zenon DEF fund
<1> QED
  BY <1>2, <1>3, <1>4, <1>5, CallGood

LEMMA PaidOut ==
    ASSUME TypeOK, NEW e \in Escrow, NEW a \in Account, PayOut(e, a)
    PROVE  wallet' \in [Account -> Nat] /\ held' \in Nat
<1>1. Amount[e] \in Nat
  BY TermsAssumption DEF TermsAssumption
<1>2. wallet \in [Account -> Nat] /\ held \in Nat
  BY DEF TypeOK
<1>3. held' \in Nat
  BY <1>1, <1>2 DEF PayOut
<1>4. wallet[a] + Amount[e] \in Nat
  BY <1>1, <1>2
<1>5. wallet' = [wallet EXCEPT ![a] = wallet[a] + Amount[e]]
  BY Zenon DEF PayOut
<1> QED
  BY <1>2, <1>3, <1>4, <1>5

LEMMA ReleaseGood ==
    ASSUME TypeOK, ChainTells, ContractTold, NEW e \in Escrow, NEW a \in Account,
           release(e, a)
    PROVE  ContractGood
<1>1. status[e] = "Funded" /\ status'[e] = "Released" /\ now < ExpiresAt[e]
  BY Statuses DEF release, Allows, Status
<1>2. Starts("release", OnChain(e)) /\ OnChain(e)' = ResultOf("release")
  BY <1>1 DEF OnChain, Starts, ResultOf
<1>3. "release" \in Action /\ "Released" \in Status /\ InTime(e, "release", now)
      /\ EventName("release") = "EscrowReleased"
  BY <1>1 DEF Action, Status, InTime, EventName
<1>4. wallet' \in [Account -> Nat] /\ held' \in Nat
  BY PaidOut, TermsAssumption DEF TermsAssumption, release
<1>5. SetStatus(e, "Released") /\ Log(e, "EscrowReleased")
  BY Zenon DEF release
<1> QED
  BY <1>2, <1>3, <1>4, <1>5, CallGood

LEMMA RefundGood ==
    ASSUME TypeOK, ChainTells, ContractTold, NEW e \in Escrow, NEW a \in Account,
           refund(e, a)
    PROVE  ContractGood
<1>1. status[e] = "Funded" /\ status'[e] = "Refunded" /\ now >= ExpiresAt[e]
  BY Statuses DEF refund, Allows, Status
<1>2. Starts("refund", OnChain(e)) /\ OnChain(e)' = ResultOf("refund")
  BY <1>1 DEF OnChain, Starts, ResultOf
<1>3. "refund" \in Action /\ "Refunded" \in Status /\ InTime(e, "refund", now)
      /\ EventName("refund") = "EscrowRefunded"
  BY <1>1 DEF Action, Status, InTime, EventName
<1>4. wallet' \in [Account -> Nat] /\ held' \in Nat
  BY PaidOut, TermsAssumption DEF TermsAssumption, refund
<1>5. SetStatus(e, "Refunded") /\ Log(e, "EscrowRefunded")
  BY Zenon DEF refund
<1> QED
  BY <1>2, <1>3, <1>4, <1>5, CallGood

(* What is no call of the contract adds no evidence.                       *)
LEMMA NoCallGood ==
    ASSUME TypeOK, ChainTells, ContractTold, chain' \in Seq(Tx), ChainGrows,
           \A e \in Escrow, a \in Action, n \in Nat :
               Evidence(e, a, n)' => n \in 1 .. Len(chain),
           now' \in Nat, UNCHANGED <<status, wallet, held>>
    PROVE  ContractGood
<1>1. \A e \in Escrow : OnChain(e)' = OnChain(e)
  BY DEF OnChain
<1>2. LifeGoesOn
  BY <1>1, OnChainIsState, Onward DEF LifeGoesOn
<1>3. ChainTells'
  <2> SUFFICES ASSUME NEW e \in Escrow, NEW a \in Action, NEW n \in Nat,
                      Evidence(e, a, n)'
               PROVE  OnChain(e)' \in Ahead(ResultOf(a))
    BY DEF ChainTells
  <2>1. n \in 1 .. Len(chain) /\ chain'[n] = chain[n]
    BY DEF ChainGrows
  <2>2. Evidence(e, a, n)
    BY <2>1 DEF Evidence, Loaded
  <2> QED
    BY <2>2, <1>1 DEF ChainTells
<1>4. ContractTold'
  <2> SUFFICES ASSUME NEW e \in Escrow, NEW a \in Action, Took(a, OnChain(e)')
               PROVE  Told(e, a)'
    BY DEF ContractTold, Took
  <2>1. PICK n \in Nat : Evidence(e, a, n) /\ InTime(e, a, chain[n].time)
    BY <1>1 DEF ContractTold, Told
  <2>2. Evidence(e, a, n)' /\ InTime(e, a, chain'[n].time)
    BY <2>1, EvidenceStays
  <2> QED
    BY <2>2 DEF Told, InTime
<1>5. UNCHANGED [e \in Escrow |-> OnChain(e)]
  BY <1>1
<1> QED
  BY <1>2, <1>3, <1>4, <1>5 DEF ContractGood, TypeOK

LEMMA UnrelatedGood ==
    ASSUME TypeOK, ChainTells, ContractTold, NEW e \in Escrow, NEW event \in Event,
           UnrelatedTx(e, event)
    PROVE  ContractGood
<1>1. PICK success \in BOOLEAN :
          chain' = Append(chain, [success |-> success, ours |-> ~success,
                                  event |-> event, escrow |-> e, time |-> now])
  BY DEF UnrelatedTx
<1> DEFINE tx == [success |-> success, ours |-> ~success,
                  event |-> event, escrow |-> e, time |-> now]
<1>2. tx \in Tx /\ chain \in Seq(Tx) /\ chain' = Append(chain, tx)
  BY <1>1 DEF TypeOK, Tx
<1>3. ~(tx.success /\ tx.ours)
  OBVIOUS
<1> HIDE DEF tx
<1>4. /\ chain' \in Seq(Tx) /\ Len(chain') = Len(chain) + 1
      /\ chain'[Len(chain) + 1] = tx /\ Len(chain) \in Nat
      /\ \A n \in 1 .. Len(chain) : chain'[n] = chain[n]
  BY <1>2
<1>5. ChainGrows
  BY <1>4 DEF ChainGrows
<1>6. \A d \in Escrow, a \in Action, n \in Nat :
          Evidence(d, a, n)' => n \in 1 .. Len(chain)
  BY <1>3, <1>4 DEF Evidence, Loaded
<1>7. now' \in Nat /\ UNCHANGED <<status, wallet, held>>
  BY DEF UnrelatedTx, TypeOK
<1> QED
  BY <1>4, <1>5, <1>6, <1>7, NoCallGood

LEMMA SameChainGood ==
    ASSUME TypeOK, ChainTells, ContractTold, now' \in Nat,
           UNCHANGED <<chain, status, wallet, held>>
    PROVE  ContractGood
<1>1. chain' \in Seq(Tx) /\ Len(chain) \in Nat
  BY DEF TypeOK
<1>2. ChainGrows
  BY <1>1 DEF ChainGrows
<1>3. \A e \in Escrow, a \in Action, n \in Nat :
          Evidence(e, a, n)' => n \in 1 .. Len(chain)
  BY DEF Evidence, Loaded
<1> QED
  BY <1>1, <1>2, <1>3, NoCallGood

LEMMA ContractStep ==
    ASSUME TypeOK, ChainTells, ContractTold, ContractNext
    PROVE  ContractGood
<1>1. ASSUME NEW e \in Escrow, NEW a \in Account,
             voidEscrow(e, a) \/ cancel(e, a)
      PROVE  ContractGood
  BY <1>1, CancelGood DEF voidEscrow, cancel, Allows
<1>2. ASSUME NEW e \in Escrow, NEW event \in Event, UnrelatedTx(e, event)
      PROVE  ContractGood
  BY <1>2, UnrelatedGood
<1>3. CASE Tick
  BY <1>3, SameChainGood DEF Tick, TypeOK
<1> QED
  BY <1>1, <1>2, <1>3, OpenGood, FundGood, ReleaseGood, RefundGood DEF ContractNext

-----------------------------------------------------------------------------
(* The handlers.                                                           *)

RowState(e) == IF rows[e] = NoRow THEN "CREATED" ELSE rows[e].state

RowLivesOn == RowLife!Next \/ UNCHANGED [e \in Escrow |-> RowState(e)]

Good == IInv' /\ ContractGood /\ RowLivesOn

LEMMA SameContract ==
    ASSUME IInv, UNCHANGED contractVars
    PROVE  ContractGood
  BY SameChainGood DEF IInv, TypeOK, contractVars

LEMMA SameRows ==
    ASSUME IInv, UNCHANGED rows, ContractGood
    PROVE  RowsGoOn /\ RowLivesOn /\ rows' \in [Escrow -> Row \cup {NoRow}] /\ RowsTrue'
<1>1. rows \in [Escrow -> Row \cup {NoRow}] /\ TypeOK /\ RowsTrue
  BY DEF IInv, TypeOK
<1>2. RowsGoOn
  <2> SUFFICES ASSUME NEW e \in Escrow, rows[e] # NoRow
               PROVE  rows'[e] # NoRow /\ rows'[e].state \in Ahead(rows[e].state)
    BY DEF RowsGoOn
  <2>1. rows[e].state \in States
    BY <1>1 DEF Row
  <2> QED
    BY <2>1, Onward
<1>3. ASSUME NEW e \in Escrow, rows[e] # NoRow PROVE RowTrue(e, rows[e])'
  <2>1. PICK row \in Row : row = rows[e]
    BY <1>1, <1>3
  <2>2. RowTrue(e, row)
    BY <2>1, <1>1, <1>3 DEF RowsTrue
  <2>3. RowTrue(e, row)'
    BY <1>1, <2>2, RowStays DEF ContractGood
  <2> QED
    BY <2>1, <2>3 DEF RowTrue, HashesTell, OnChain
<1>4. RowLivesOn
  BY DEF RowLivesOn, RowState
<1> QED
  BY <1>1, <1>2, <1>3, <1>4 DEF RowsTrue

LEMMA PutStep ==
    ASSUME IInv, ContractGood, RowsGoOn, rows' \in [Escrow -> Row \cup {NoRow}],
           NEW h \in Handler, NEW l \in Local \cup {Idle}, HandlerTrue(l)', Put(h, l)
    PROVE  /\ handler' \in [Handler -> Local \cup {Idle}] /\ handler'[h] = l
           /\ \A g \in Handler \ {h} : handler'[g] = handler[g]
           /\ \A g \in Handler : HandlerTrue(handler[g])'
<1>1. handler \in [Handler -> Local \cup {Idle}] /\ TypeOK
  BY DEF IInv, TypeOK
<1>2. /\ handler' \in [Handler -> Local \cup {Idle}] /\ handler'[h] = l
      /\ \A g \in Handler \ {h} : handler'[g] = handler[g]
  BY <1>1 DEF Put
<1>3. ASSUME NEW g \in Handler PROVE HandlerTrue(handler[g])'
  <2>1. CASE g = h
    BY <2>1, <1>2 DEF HandlerTrue, RowTrue, HashesTell, OnChain, StoredHashVerifies,
       Evidence, Loaded, InTime
  <2>2. CASE g # h
    <3>1. PICK m \in Local \cup {Idle} : m = handler[g]
      BY <1>1
    <3>2. HandlerTrue(m)
      BY <3>1 DEF IInv
    <3>3. HandlerTrue(m)'
      BY <1>1, <3>2, HandlerStays DEF ContractGood
    <3>4. handler'[g] = m
      BY <1>2, <2>2, <3>1
    <3> QED
      BY <3>3, <3>4, Zenon DEF HandlerTrue, RowTrue, HashesTell, OnChain,
         StoredHashVerifies, Evidence, Loaded, InTime
  <2> QED
    BY <2>1, <2>2
<1> QED
  BY <1>2, <1>3

(* A step of a handler that neither writes nor announces.                  *)
LEMMA QuietStep ==
    ASSUME IInv, UNCHANGED <<contractVars, rows, announced>>, NEW h \in Handler,
           NEW l \in Local \cup {Idle}, l.pc # "emit", HandlerTrue(l), Put(h, l)
    PROVE  Good
<1>1. ContractGood
  BY SameContract
<1>2. RowsGoOn /\ RowLivesOn /\ rows' \in [Escrow -> Row \cup {NoRow}] /\ RowsTrue'
  BY <1>1, SameRows
<1>3. HandlerTrue(l)'
  BY <1>1, <1>2, HandlerStays DEF ContractGood, IInv
<1>4. /\ handler' \in [Handler -> Local \cup {Idle}] /\ handler'[h] = l
      /\ \A g \in Handler \ {h} : handler'[g] = handler[g]
      /\ \A g \in Handler : HandlerTrue(handler[g])'
  BY <1>1, <1>2, <1>3, PutStep
<1>5. \A g \in Handler, e \in Escrow, s \in States :
          Emitting(g, e, s)' => Emitting(g, e, s)
  BY <1>4 DEF Emitting
<1>6. OneAnnouncement'
  BY <1>5 DEF IInv, OneAnnouncement
<1>7. TypeOK'
  BY <1>1, <1>2, <1>4 DEF IInv, TypeOK, ContractGood
<1> QED
  BY <1>1, <1>2, <1>4, <1>6, <1>7 DEF Good, IInv, ContractGood

LEMMA AbandonGood ==
    ASSUME IInv, NEW h \in Handler, Abandon(h)
    PROVE  Good
<1>1. Idle.pc = "idle" /\ Idle \in Local \cup {Idle}
  BY DEF Idle
<1>2. HandlerTrue(Idle)
  BY <1>1 DEF HandlerTrue
<1> QED
  BY <1>1, <1>2, QuietStep DEF Abandon

LEMMA ContractOnly ==
    ASSUME IInv, ContractGood, UNCHANGED serviceVars
    PROVE  Good
<1>1. /\ UNCHANGED <<rows, handler, announced>> /\ TypeOK
      /\ handler \in [Handler -> Local \cup {Idle}]
  BY DEF serviceVars, IInv, TypeOK
<1>2. RowsGoOn /\ RowLivesOn /\ rows' \in [Escrow -> Row \cup {NoRow}] /\ RowsTrue'
  BY <1>1, SameRows
<1>3. ASSUME NEW h \in Handler PROVE HandlerTrue(handler[h])'
  <2>1. PICK l \in Local \cup {Idle} : l = handler[h]
    BY <1>1
  <2>2. HandlerTrue(l)
    BY <2>1 DEF IInv
  <2>3. HandlerTrue(l)'
    BY <1>1, <1>2, <2>2, HandlerStays DEF ContractGood
  <2> QED
    BY <1>1, <2>1, <2>3 DEF HandlerTrue, RowTrue, HashesTell, OnChain,
       StoredHashVerifies, Evidence, Loaded, InTime
<1>4. OneAnnouncement'
  BY <1>1 DEF IInv, OneAnnouncement, Emitting
<1>5. TypeOK'
  BY <1>1, <1>2 DEF IInv, TypeOK, ContractGood
<1> QED
  BY <1>2, <1>3, <1>4, <1>5 DEF Good, IInv, ContractGood

LEMMA CreateEscrowGood ==
    ASSUME IInv, NEW h \in Handler, NEW e \in Escrow, CreateEscrow(h, e)
    PROVE  Good
<1> DEFINE l == [pc |-> "create", escrow |-> e, copy |-> NewRow,
                 action |-> "open", nonces |-> {}]
<1>1. l \in Local
  BY AtFirst DEF Local, Action
<1>2. RowTrue(e, NewRow)
  BY AtFirst, OnChainIsState DEF RowTrue, HashesTell
<1>3. HandlerTrue(l)
  BY <1>2 DEF HandlerTrue
<1>4. Put(h, l) /\ UNCHANGED <<contractVars, rows, announced>> /\ l.pc # "emit"
  BY DEF CreateEscrow
<1> HIDE DEF l
<1> QED
  BY <1>1, <1>3, <1>4, QuietStep

(* A confirmation begins with the stored row as its copy.                  *)
LEMMA ConfirmGood ==
    ASSUME IInv, NEW h \in Handler, NEW e \in Escrow, NEW a \in Action,
           NEW pc \in {"funding", "load"}, NEW nonces \in SUBSET Nonce,
           a \in {"open", "fund"} => nonces = {},
           rows[e] # NoRow, Starts(a, rows[e].state),
           Put(h, [pc |-> pc, escrow |-> e, copy |-> rows[e], action |-> a,
                   nonces |-> nonces]),
           UNCHANGED <<contractVars, rows, announced>>
    PROVE  Good
<1> DEFINE l == [pc |-> pc, escrow |-> e, copy |-> rows[e], action |-> a,
                 nonces |-> nonces]
<1>1. rows[e] \in Row
  BY DEF IInv, TypeOK
<1>2. rows[e].state \in States
  BY <1>1 DEF Row
<1>3. l \in Local
  BY <1>1 DEF Local
<1>4. RowTrue(e, rows[e])
  BY DEF IInv, RowsTrue
<1>5. HandlerTrue(l)
  BY <1>2, <1>4, Onward DEF HandlerTrue
<1>6. l.pc # "emit" /\ Put(h, l)
  OBVIOUS
<1> HIDE DEF l
<1> QED
  BY <1>3, <1>5, <1>6, QuietStep

LEMMA ConfirmByCreatorGood ==
    ASSUME IInv, NEW h \in Handler, NEW e \in Escrow, NEW a \in Action,
           ConfirmByCreator(h, e, a)
    PROVE  Good
<1>1. /\ rows[e] # NoRow /\ Starts(a, rows[e].state)
      /\ Put(h, [pc |-> "load", escrow |-> e, copy |-> rows[e], action |-> a,
                 nonces |-> {}])
      /\ UNCHANGED <<contractVars, rows, announced>>
  BY DEF ConfirmByCreator
<1>2. {} \in SUBSET Nonce
  OBVIOUS
<1> QED
  BY <1>1, <1>2, ConfirmGood

LEMMA ConfirmSignedGood ==
    ASSUME IInv, NEW h \in Handler, NEW e \in Escrow, NEW a \in Action,
           NEW nonce \in Nonce, NEW deadline, NEW signer,
           ConfirmSigned(h, e, a, nonce, deadline, signer)
    PROVE  Good
<1> DEFINE pc == IF a = "cancel" THEN "load" ELSE "funding"
<1>1. /\ rows[e] # NoRow /\ Starts(a, rows[e].state)
      /\ a \notin {"open", "fund"}
      /\ Put(h, [pc |-> pc, escrow |-> e, copy |-> rows[e], action |-> a,
                 nonces |-> {nonce}])
      /\ UNCHANGED <<contractVars, rows, announced>>
  BY DEF ConfirmSigned
<1>2. {nonce} \in SUBSET Nonce /\ pc \in {"funding", "load"}
  OBVIOUS
<1> HIDE DEF pc
<1> QED
  BY <1>1, <1>2, ConfirmGood

LEMMA VerifyFundingGood ==
    ASSUME IInv, NEW h \in Handler, VerifyFunding(h)
    PROVE  Good
<1>1. handler[h] \in Local /\ handler[h].pc = "funding" /\ HandlerTrue(handler[h])
  BY DEF IInv, TypeOK, VerifyFunding, Idle
<1>2. PICK old \in Local : old = handler[h]
  BY <1>1
<1> DEFINE l == [old EXCEPT !.pc = "load"]
<1>3. /\ l \in Local /\ l.pc = "load" /\ l.escrow = old.escrow /\ l.copy = old.copy
      /\ l.action = old.action /\ l.nonces = old.nonces
  BY DEF Local
<1>4. Put(h, l) /\ UNCHANGED <<contractVars, rows, announced>>
  BY <1>2 DEF VerifyFunding
<1> HIDE DEF l
<1>5. HandlerTrue(l)
  BY <1>1, <1>2, <1>3 DEF HandlerTrue
<1> QED
  BY <1>3, <1>4, <1>5, QuietStep

(* The row that a transaction carries on is as true as the copy was: its   *)
(* hashes are those of the copy and of this step.                          *)
LEMMA AdvancedIsTrue ==
    ASSUME IInv, NEW e \in Escrow, NEW row \in Row, RowTrue(e, row),
           NEW a \in Action, Starts(a, row.state), NEW tx \in 1 .. Len(chain),
           Evidence(e, a, tx), InTime(e, a, chain[tx].time),
           NEW nonces \in SUBSET Nonce, a \in {"open", "fund"} => nonces = {}
    PROVE  /\ Advanced(row, a, tx, nonces) \in Row
           /\ Advanced(row, a, tx, nonces).state = ResultOf(a)
           /\ RowTrue(e, Advanced(row, a, tx, nonces))
<1> DEFINE next == Advanced(row, a, tx, nonces)
<1>1. /\ row.state \in States /\ row.hash \in [Action -> Nat]
      /\ row.usedNonces \in SUBSET Nonce
  BY DEF Row
<1>2. tx \in Nat /\ tx # NoHash
  BY DEF IInv, TypeOK, NoHash
<1>3. ResultOf(a) \in States /\ ResultOf(a) # "CREATED"
  <2>1. ResultOf(a) \in States
    BY <1>1, Starting
  <2>2. ResultOf(a) # "CREATED"
    BY DEF ResultOf, Action
  <2> QED
    BY <2>1, <2>2
<1>4. /\ next.state = ResultOf(a) /\ next.usedNonces = row.usedNonces \cup nonces
      /\ next.hash = [row.hash EXCEPT ![a] = tx]
  BY DEF Advanced
<1>5. next.hash \in [Action -> Nat]
  BY <1>1, <1>2, <1>4
<1>6. next \in Row
  BY <1>1, <1>3, <1>5 DEF Advanced, Row
<1>7. \A b \in Action : next.hash[b] = IF b = a THEN tx ELSE row.hash[b]
  BY <1>1, <1>4
<1> HIDE DEF next
<1>8. OnChain(e) \in Ahead(next.state)
  BY <1>2, <1>4 DEF IInv, ChainTells
<1>9. ASSUME NEW b \in Action
      PROVE  /\ Took(b, next.state) => next.hash[b] # NoHash
             /\ next.hash[b] # NoHash =>
                    /\ Took(b, next.state) \/ next.state = "CANCELLED"
                    /\ StoredHashVerifies(e, b, next.hash[b])
  <2>1. CASE b = a
    BY <2>1, <1>1, <1>2, <1>4, <1>7, Starting DEF StoredHashVerifies
  <2>2. CASE b # a
    <3>1. next.hash[b] = row.hash[b]
      BY <2>2, <1>7
    <3>2. /\ Took(b, next.state) => Took(b, row.state)
          /\ Took(b, row.state) => Took(b, next.state) \/ next.state = "CANCELLED"
          /\ row.state # "CANCELLED"
      <4>1. next.state = ResultOf(a)
        BY <1>4
      <4>2. /\ Took(b, ResultOf(a)) => Took(b, row.state)
            /\ Took(b, row.state) => Took(b, ResultOf(a)) \/ ResultOf(a) = "CANCELLED"
            /\ row.state # "CANCELLED"
        BY <2>2, <1>1, Starting
      <4> QED
        BY <4>1, <4>2
    <3>3. /\ Took(b, row.state) => row.hash[b] # NoHash
          /\ row.hash[b] # NoHash =>
                 /\ Took(b, row.state) \/ row.state = "CANCELLED"
                 /\ StoredHashVerifies(e, b, row.hash[b])
      BY DEF RowTrue, HashesTell
    <3> QED
      BY ONLY <3>1, <3>2, <3>3
  <2> QED
    BY <2>1, <2>2
<1>10. next.state \in Open => next.usedNonces = {}
  BY <1>4 DEF Open, ResultOf, RowTrue, Starts, Action
<1> QED
  BY <1>4, <1>6, <1>8, <1>9, <1>10 DEF RowTrue, HashesTell, next

LEMMA LoadTransactionGood ==
    ASSUME IInv, NEW h \in Handler, NEW tx \in 1 .. Len(chain), LoadTransaction(h, tx)
    PROVE  Good
<1>1. handler[h] \in Local /\ handler[h].pc = "load" /\ HandlerTrue(handler[h])
  BY DEF IInv, TypeOK, LoadTransaction, Idle
<1>2. PICK old \in Local : old = handler[h]
  BY <1>1
<1>3. /\ old.escrow \in Escrow /\ old.copy \in Row /\ old.action \in Action
      /\ old.nonces \in SUBSET Nonce
  BY DEF Local
<1>4. /\ RowTrue(old.escrow, old.copy) /\ Starts(old.action, old.copy.state)
      /\ old.action \in {"open", "fund"} => old.nonces = {}
      /\ rows[old.escrow] # NoRow
      /\ rows[old.escrow].state \in Ahead(old.copy.state)
  BY <1>1, <1>2 DEF HandlerTrue
<1> DEFINE next == Advanced(old.copy, old.action, tx, old.nonces)
           l == [pc |-> "save", escrow |-> old.escrow, copy |-> next,
                 action |-> old.action, nonces |-> old.nonces]
<1>5. /\ Evidence(old.escrow, old.action, tx)
      /\ InTime(old.escrow, old.action, chain[tx].time)
      /\ Put(h, l) /\ UNCHANGED <<contractVars, rows, announced>>
  BY <1>2 DEF LoadTransaction
<1>6. next \in Row /\ next.state = ResultOf(old.action) /\ RowTrue(old.escrow, next)
  BY <1>3, <1>4, <1>5, AdvancedIsTrue
<1> HIDE DEF next
<1>7. l \in Local /\ l.pc = "save"
  BY <1>3, <1>6 DEF Local
<1>8. old.copy.state \in States
  BY <1>3 DEF Row
<1>9. HandlerTrue(l)
  BY <1>4, <1>6, <1>8 DEF HandlerTrue
<1> HIDE DEF l
<1> QED
  BY <1>5, <1>7, <1>9, QuietStep

(* A write that is allowed leaves the state alone or takes the row one     *)
(* step on, however old the copy is.                                       *)
LEMMA SaveFits ==
    ASSUME NEW old \in States, NEW a \in Action, NEW s \in States,
           \/ a = "open" /\ s = "CREATED" /\ old \in States
           \/ Starts(a, s) /\ old \in Ahead(s),
           canPersistEscrowState(old, ResultOf(a))
    PROVE  old = ResultOf(a) \/ <<old, ResultOf(a)>> \in Life!Step
  BY DEF canPersistEscrowState, Rank, Starts, ResultOf, Action, States, Ahead,
     Life!States, Life!Ahead, Life!Step

LEMMA FirstSaveFits ==
    ASSUME NEW old \in States, canPersistEscrowState(old, "CREATED")
    PROVE  old = "CREATED"
  BY DEF canPersistEscrowState, Rank, States, Life!States

LEMMA SaveGood ==
    ASSUME IInv, NEW h \in Handler, Save(h)
    PROVE  Good
<1>1. /\ handler[h] \in Local /\ handler[h].pc \in {"create", "save"}
      /\ HandlerTrue(handler[h])
  BY DEF IInv, TypeOK, Save, Idle
<1>2. PICK l \in Local : l = handler[h]
  BY <1>1
<1>3. PICK e \in Escrow : e = l.escrow
  BY DEF Local
<1>4. PICK next \in Row : next = l.copy
  BY DEF Local
<1> DEFINE allowed == rows[e] = NoRow \/ canPersistEscrowState(rows[e].state, next.state)
           changed == rows[e] = NoRow \/ rows[e].state # next.state
           emits == [l EXCEPT !.pc = "emit"]
<1>5. /\ rows' = IF allowed THEN [rows EXCEPT ![e] = next] ELSE rows
      /\ Put(h, IF allowed /\ changed THEN emits ELSE Idle)
      /\ UNCHANGED <<contractVars, announced>>
  BY <1>2, <1>3, <1>4 DEF Save
<1>6. /\ RowTrue(e, next)
      /\ l.pc = "create" => next = NewRow
      /\ l.pc = "save" =>
             /\ rows[e] # NoRow /\ next.state = ResultOf(l.action)
             /\ \E s \in States : Starts(l.action, s) /\ rows[e].state \in Ahead(s)
      /\ l.action \in Action /\ l.pc \in {"create", "save"}
  BY <1>1, <1>2, <1>3, <1>4 DEF HandlerTrue, Local
<1>7. /\ emits \in Local /\ emits.pc = "emit" /\ emits.escrow = e /\ emits.copy = next
      /\ Idle.pc = "idle" /\ Idle \in Local \cup {Idle}
  BY <1>3, <1>4 DEF Local, Idle
<1> HIDE DEF emits
<1>8. rows \in [Escrow -> Row \cup {NoRow}] /\ next.state \in States /\ next # NoRow
  BY ServiceAssumption DEF ServiceAssumption, IInv, TypeOK, Row
<1>9. ContractGood
  BY <1>5, SameContract
<1>10. CASE ~allowed
  <2>1. Put(h, Idle) /\ UNCHANGED <<contractVars, rows, announced>>
    BY <1>5, <1>10
  <2>2. HandlerTrue(Idle)
    BY <1>7 DEF HandlerTrue
  <2> QED
    BY <1>7, <2>1, <2>2, QuietStep
<1>11. CASE allowed
  <2>1. /\ rows' \in [Escrow -> Row \cup {NoRow}] /\ rows'[e] = next
        /\ \A d \in Escrow \ {e} : rows'[d] = rows[d]
    BY <1>5, <1>8, <1>11
  <2>2. \/ rows[e] = NoRow /\ next.state = "CREATED"
        \/ rows[e] # NoRow /\ rows[e].state = next.state
        \/ rows[e] # NoRow /\ <<rows[e].state, next.state>> \in Life!Step
    <3>1. CASE rows[e] = NoRow
      BY <3>1, <1>6, AtFirst
    <3>2. CASE rows[e] # NoRow
      <4>1. PICK old \in States : old = rows[e].state
        BY <3>2, <1>8 DEF Row
      <4>2. canPersistEscrowState(old, next.state)
        BY <4>1, <3>2, <1>11
      <4>3. CASE l.pc = "create"
        BY <4>1, <4>2, <4>3, <3>2, <1>6, FirstSaveFits, AtFirst
      <4>4. CASE l.pc = "save"
        <5>1. PICK s \in States : Starts(l.action, s) /\ old \in Ahead(s)
          BY <4>1, <4>4, <1>6
        <5>2. canPersistEscrowState(old, ResultOf(l.action))
          BY <4>2, <4>4, <1>6
        <5>3. old = ResultOf(l.action) \/ <<old, ResultOf(l.action)>> \in Life!Step
          BY <5>1, <5>2, <1>6, SaveFits
        <5> QED
          BY <5>3, <4>1, <4>4, <3>2, <1>6
      <4> QED
        BY <4>3, <4>4, <1>6
    <3> QED
      BY <3>1, <3>2
  <2>3. rows[e] # NoRow =>
            /\ rows[e].state \in States
            /\ next.state \in Ahead(rows[e].state)
            /\ rows[e].state \in Ahead(next.state) => rows[e].state = next.state
    <3> SUFFICES ASSUME rows[e] # NoRow
                 PROVE  /\ rows[e].state \in States
                        /\ next.state \in Ahead(rows[e].state)
                        /\ rows[e].state \in Ahead(next.state) =>
                               rows[e].state = next.state
      OBVIOUS
    <3>1. PICK old \in States : old = rows[e].state
      BY <1>8 DEF Row
    <3>2. next.state = old \/ <<old, next.state>> \in Life!Step
      BY <2>2, <3>1
    <3>3. next.state \in Ahead(old)
      BY <3>2 DEF Life!Step, Ahead, Life!Ahead, States, Life!States
    <3> QED
      BY <1>8, <3>1, <3>3, Onward
  <2>4. RowsGoOn
    <3> SUFFICES ASSUME NEW d \in Escrow, rows[d] # NoRow
                 PROVE  rows'[d] # NoRow /\ rows'[d].state \in Ahead(rows[d].state)
      BY DEF RowsGoOn
    <3>1. rows[d].state \in States
      BY <1>8 DEF Row
    <3> QED
      BY <3>1, <1>8, <2>1, <2>3, Onward
  <2>5. RowsTrue'
    <3> SUFFICES ASSUME NEW d \in Escrow, rows'[d] # NoRow
                 PROVE  RowTrue(d, rows[d])'
      BY DEF RowsTrue
    <3>1. PICK row \in Row : row = rows'[d]
      BY <2>1
    <3>2. RowTrue(d, row)
      BY <3>1, <2>1, <1>6 DEF IInv, RowsTrue
    <3>3. RowTrue(d, row)'
      BY <3>2, <1>9, RowStays DEF IInv, ContractGood
    <3> QED
      BY <3>1, <3>3 DEF RowTrue, HashesTell, OnChain
  <2>6. RowLivesOn
    <3>1. CASE RowState(e)' = RowState(e)
      BY <3>1, <2>1 DEF RowLivesOn, RowState
    <3>2. CASE RowState(e)' # RowState(e)
      <4>1. RowState(e)' = next.state /\ <<RowState(e), next.state>> \in Life!Step
        BY <3>2, <2>1, <2>2, <1>8 DEF RowState
      <4>2. [d \in Escrow |-> RowState(d)'] =
            [[d \in Escrow |-> RowState(d)] EXCEPT ![e] = next.state]
        BY <4>1, <2>1 DEF RowState
      <4>3. RowLife!Move(e, next.state)
        BY <4>1, <4>2 DEF RowLife!Move, RowLife!Step, Life!Step, RowState
      <4> QED
        BY <4>3, <1>8 DEF RowLivesOn, RowLife!Next, RowLife!States, States, Life!States
    <3> QED
      BY <3>1, <3>2
  <2>7. PICK m \in Local \cup {Idle} :
            /\ m = IF changed THEN emits ELSE Idle
            /\ Put(h, m)
    BY <1>5, <1>7, <1>11
  <2>8. HandlerTrue(m)'
    <3>1. RowTrue(e, next)'
      BY <1>6, <1>9, RowStays DEF IInv, ContractGood
    <3>2. next.state \in Ahead(next.state)
      BY <1>8, Onward
    <3> QED
      BY <3>1, <3>2, <1>7, <1>8, <2>1, <2>7 DEF HandlerTrue
  <2>9. /\ handler' \in [Handler -> Local \cup {Idle}] /\ handler'[h] = m
        /\ \A g \in Handler \ {h} : handler'[g] = handler[g]
        /\ \A g \in Handler : HandlerTrue(handler[g])'
    BY <1>9, <2>1, <2>4, <2>7, <2>8, PutStep
  <2>10. OneAnnouncement'
    <3>1. \A g \in Handler : handler[g].pc = "emit" /\ handler[g].escrow = e =>
              rows[e] # NoRow /\ rows[e].state \in Ahead(handler[g].copy.state)
      BY DEF IInv, HandlerTrue
    <3>2. changed => /\ announced[e][next.state] > 0 => FALSE
                     /\ \A g \in Handler : ~Emitting(g, e, next.state)
      BY <3>1, <1>8, <2>3 DEF IInv, OneAnnouncement, Emitting
    <3> HIDE DEF changed, allowed
    <3>3. ASSUME NEW d \in Escrow, NEW s \in States, NEW g \in Handler,
                 Emitting(g, d, s)'
          PROVE  \/ Emitting(g, d, s)
                 \/ g = h /\ d = e /\ s = next.state /\ changed
      BY <3>3, <1>7, <2>7, <2>9 DEF Emitting
    <3>4. ASSUME NEW d \in Escrow, NEW s \in States
          PROVE  /\ announced'[d][s] > 0 =>
                        /\ announced'[d][s] = 1 /\ rows'[d] # NoRow
                        /\ rows'[d].state \in Ahead(s)
                        /\ \A g \in Handler : ~Emitting(g, d, s)'
                 /\ \A g, k \in Handler :
                        Emitting(g, d, s)' /\ Emitting(k, d, s)' => g = k
      <4>1. announced' = announced
        BY <1>5
      <4>2. /\ announced[d][s] > 0 =>
                   /\ announced[d][s] = 1 /\ rows[d] # NoRow
                   /\ rows[d].state \in Ahead(s)
                   /\ \A g \in Handler : ~Emitting(g, d, s)
            /\ \A g, k \in Handler : Emitting(g, d, s) /\ Emitting(k, d, s) => g = k
        BY DEF IInv, OneAnnouncement
      <4>3. rows[d] # NoRow /\ rows[d].state \in Ahead(s) =>
                rows'[d] # NoRow /\ rows'[d].state \in Ahead(s)
        BY <2>4, Onward DEF RowsGoOn
      <4>4. \A g \in Handler :
                Emitting(g, d, s)' => \/ Emitting(g, d, s)
                                      \/ g = h /\ d = e /\ s = next.state /\ changed
        BY <3>3
      <4>5. \A g \in Handler : d = e /\ s = next.state /\ changed =>
                ~Emitting(g, d, s) /\ (announced[d][s] > 0 => FALSE)
        BY <3>2
      <4> QED
        BY ONLY <4>1, <4>2, <4>3, <4>4, <4>5
    <3> QED
      BY <3>4 DEF OneAnnouncement
  <2>11. TypeOK'
    BY <1>5, <1>9, <2>1, <2>9 DEF IInv, TypeOK, ContractGood
  <2> QED
    BY <1>9, <2>5, <2>6, <2>9, <2>10, <2>11 DEF Good, IInv, ContractGood
<1> QED
  BY <1>10, <1>11

LEMMA EmitGood ==
    ASSUME IInv, NEW h \in Handler, Emit(h)
    PROVE  Good
<1>1. /\ handler[h] \in Local /\ handler[h].pc = "emit"
      /\ HandlerTrue(handler[h])
  BY DEF IInv, TypeOK, Emit, Idle
<1>2. PICK l \in Local : l = handler[h]
  BY <1>1
<1>3. PICK e \in Escrow : e = l.escrow
  BY DEF Local
<1>4. PICK state \in States : state = l.copy.state
  BY DEF Local, Row
<1>5. /\ announced' = [announced EXCEPT ![e][state] = @ + 1]
      /\ Put(h, Idle) /\ UNCHANGED <<contractVars, rows>>
  BY <1>2, <1>3, <1>4 DEF Emit
<1>6. announced \in [Escrow -> [States -> Nat]]
  BY DEF IInv, TypeOK
<1>7. /\ announced' \in [Escrow -> [States -> Nat]]
      /\ \A d \in Escrow, s \in States :
             announced'[d][s] = IF d = e /\ s = state THEN announced[d][s] + 1
                                ELSE announced[d][s]
  <2>1. announced[e] \in [States -> Nat]
    BY <1>6
  <2>2. PICK counts : counts = [announced[e] EXCEPT ![state] = @ + 1]
    OBVIOUS
  <2>3. counts \in [States -> Nat]
        /\ \A s \in States : counts[s] = IF s = state THEN announced[e][s] + 1
                                         ELSE announced[e][s]
    BY <2>1, <2>2
  <2>4. announced' = [announced EXCEPT ![e] = counts]
    BY <1>5, <2>2
  <2> QED
    BY <1>6, <2>3, <2>4
<1>8. Idle.pc = "idle" /\ Idle \in Local \cup {Idle}
  BY DEF Idle
<1>9. ContractGood
  BY <1>5, SameContract
<1>10. RowsGoOn /\ RowLivesOn /\ rows' \in [Escrow -> Row \cup {NoRow}] /\ RowsTrue'
  BY <1>5, <1>9, SameRows
<1>11. HandlerTrue(Idle)'
  BY <1>8 DEF HandlerTrue
<1>12. /\ handler' \in [Handler -> Local \cup {Idle}] /\ handler'[h] = Idle
       /\ \A g \in Handler \ {h} : handler'[g] = handler[g]
       /\ \A g \in Handler : HandlerTrue(handler[g])'
  BY <1>5, <1>8, <1>9, <1>10, <1>11, PutStep
<1>13. OneAnnouncement'
  <2>1. Emitting(h, e, state) /\ rows[e] # NoRow /\ rows[e].state \in Ahead(state)
    BY <1>1, <1>2, <1>3, <1>4 DEF Emitting, HandlerTrue
  <2>2. announced[e][state] = 0
    BY <1>6, <2>1 DEF IInv, OneAnnouncement
  <2>3. ASSUME NEW d \in Escrow, NEW s \in States
        PROVE  /\ announced'[d][s] > 0 =>
                      /\ announced'[d][s] = 1 /\ rows'[d] # NoRow
                      /\ rows'[d].state \in Ahead(s)
                      /\ \A g \in Handler : ~Emitting(g, d, s)'
               /\ \A g, k \in Handler :
                      Emitting(g, d, s)' /\ Emitting(k, d, s)' => g = k
    <3>1. rows' = rows
      BY <1>5
    <3>2. /\ announced[d][s] > 0 =>
                 /\ announced[d][s] = 1 /\ rows[d] # NoRow
                 /\ rows[d].state \in Ahead(s)
                 /\ \A g \in Handler : ~Emitting(g, d, s)
          /\ \A g, k \in Handler : Emitting(g, d, s) /\ Emitting(k, d, s) => g = k
      BY DEF IInv, OneAnnouncement
    <3>3. \A g \in Handler : Emitting(g, d, s)' => Emitting(g, d, s) /\ g # h
      BY <1>8, <1>12 DEF Emitting
    <3>4. announced'[d][s] = IF d = e /\ s = state THEN announced[d][s] + 1
                             ELSE announced[d][s]
      BY <1>7
    <3> QED
      BY ONLY <2>1, <2>2, <3>1, <3>2, <3>3, <3>4, h \in Handler
  <2> QED
    BY <2>3 DEF OneAnnouncement
<1>14. TypeOK'
  BY <1>7, <1>9, <1>10, <1>12 DEF IInv, TypeOK, ContractGood
<1> QED
  BY <1>9, <1>10, <1>12, <1>13, <1>14 DEF Good, IInv, ContractGood

-----------------------------------------------------------------------------
(* Every step.                                                             *)

LEMMA InitIInv == Init => IInv
<1> SUFFICES ASSUME Init PROVE IInv
  OBVIOUS
<1>1. TypeOK
  BY TermsAssumption DEF TermsAssumption, Init, ContractInit, TypeOK, Status, States,
     Life!States
<1>2. chain = <<>> /\ \A e \in Escrow : OnChain(e) = "CREATED"
  BY DEF Init, ContractInit, OnChain
<1>3. ChainTells
  BY <1>2 DEF ChainTells, Evidence, Loaded
<1>4. ContractTold
  BY <1>2, AtFirst DEF ContractTold
<1>5. RowsTrue
  BY DEF Init, RowsTrue
<1>6. \A h \in Handler : handler[h] = Idle /\ handler[h].pc = "idle"
  BY DEF Init, Idle
<1>7. \A h \in Handler : HandlerTrue(handler[h])
  BY <1>6 DEF HandlerTrue
<1>8. OneAnnouncement
  BY <1>6 DEF Init, OneAnnouncement, Emitting
<1> QED
  BY <1>1, <1>3, <1>4, <1>5, <1>7, <1>8 DEF IInv

LEMMA StepGood == IInv /\ [Next]_vars => Good
<1> SUFFICES ASSUME IInv, [Next]_vars PROVE Good
  OBVIOUS
<1>1. CASE UNCHANGED vars
  <2>1. UNCHANGED contractVars /\ UNCHANGED serviceVars
    BY <1>1 DEF vars
  <2> QED
    BY <2>1, SameContract, ContractOnly
<1>2. CASE ContractNext /\ UNCHANGED serviceVars
  BY <1>2, ContractStep, ContractOnly DEF IInv
<1>3. ASSUME NEW h \in Handler, HandlerNext(h) PROVE Good
  BY <1>3, CreateEscrowGood, ConfirmByCreatorGood, ConfirmSignedGood,
     VerifyFundingGood, LoadTransactionGood, SaveGood, EmitGood, AbandonGood
  DEF HandlerNext
<1> QED
  BY <1>1, <1>2, <1>3 DEF Next

-----------------------------------------------------------------------------
(* Theorems.                                                               *)

(* What every call of the contract and every step of a handler preserves.  *)
THEOREM Inductive == Spec => []IInv
<1>1. Init => IInv
  BY InitIInv
<1>2. IInv /\ [Next]_vars => IInv'
  BY StepGood DEF Good
<1> QED
  BY <1>1, <1>2, PTL DEF Spec

(* Types, and the balances of the contract and its users never negative.   *)
THEOREM EscrowTypeOK == Spec => []TypeOK
<1>1. IInv => TypeOK
  BY DEF IInv
<1> QED
  BY <1>1, Inductive, PTL

(* No row is ahead of the contract.                                        *)
THEOREM EscrowRowFollowsContract == Spec => []RowFollowsContract
<1>1. IInv => RowFollowsContract
  BY DEF IInv, RowsTrue, RowTrue, RowFollowsContract
<1> QED
  BY <1>1, Inductive, PTL

(* A row has the transactions of its own life and no others.               *)
THEOREM EscrowStoredHashesTellTheLife == Spec => []StoredHashesTellTheLife
<1>1. IInv => StoredHashesTellTheLife
  <2> SUFFICES ASSUME IInv, NEW e \in Escrow, rows[e] # NoRow, NEW a \in Action
               PROVE  /\ Took(a, rows[e].state) => rows[e].hash[a] # NoHash
                      /\ rows[e].hash[a] # NoHash =>
                             Took(a, rows[e].state) \/ rows[e].state = "CANCELLED"
                      /\ IF a = "cancel"
                         THEN rows[e].hash[a] # NoHash =>
                                  StoredHashVerifies(e, a, rows[e].hash[a])
                         ELSE escrowProof(e)[a] # "invalid"
    BY DEF StoredHashesTellTheLife
  <2>1. /\ Took(a, rows[e].state) => rows[e].hash[a] # NoHash
        /\ rows[e].hash[a] # NoHash =>
               /\ Took(a, rows[e].state) \/ rows[e].state = "CANCELLED"
               /\ StoredHashVerifies(e, a, rows[e].hash[a])
    BY DEF IInv, RowsTrue, RowTrue, HashesTell
  <2> QED
    BY <2>1 DEF escrowProof
<1> QED
  BY <1>1, Inductive, PTL

(* A change of state is announced at most once, whoever confirms it.       *)
THEOREM EscrowAnnouncedOnce == Spec => []AnnouncedOnce
<1>1. IInv => AnnouncedOnce
  BY DEF IInv, OneAnnouncement, AnnouncedOnce
<1> QED
  BY <1>1, Inductive, PTL

(* A row that is behind the contract has its next step on the chain.       *)
THEOREM EscrowRowCanCatchUp == Spec => []RowCanCatchUp
<1>1. IInv => RowCanCatchUp
  <2> SUFFICES ASSUME IInv, NEW e \in Escrow, rows[e] # NoRow,
                      rows[e].state # OnChain(e)
               PROVE  \E a \in Action, tx \in 1 .. Len(chain) :
                          /\ Starts(a, rows[e].state)
                          /\ Evidence(e, a, tx) /\ InTime(e, a, chain[tx].time)
                          /\ a \in {"release", "refund", "cancel"} =>
                                 rows[e].usedNonces = {}
                          /\ a \in {"release", "refund"} =>
                                 StoredHashVerifies(e, "fund", rows[e].hash["fund"])
    BY DEF RowCanCatchUp
  <2>1. /\ OnChain(e) \in Ahead(rows[e].state) /\ HashesTell(e, rows[e])
        /\ rows[e].state \in Open => rows[e].usedNonces = {}
        /\ rows[e].state \in States
    BY DEF IInv, RowsTrue, RowTrue, TypeOK, Row
  <2>2. PICK old \in States : old = rows[e].state
    BY <2>1
  <2>3. PICK new \in States : new = OnChain(e)
    BY OnChainIsState
  <2>4. PICK a \in Action : Starts(a, old) /\ Took(a, new) /\ old \in Open
    BY <2>1, <2>2, <2>3
    DEF Starts, Took, Action, ResultOf, Open, Ahead, Life!Ahead, States, Life!States
  <2>5. PICK tx \in Nat : Evidence(e, a, tx) /\ InTime(e, a, chain[tx].time)
    BY <2>3, <2>4 DEF IInv, ContractTold, Told
  <2>6. tx \in 1 .. Len(chain)
    BY <2>5 DEF Evidence, Loaded
  <2>7. a \in {"release", "refund"} =>
            StoredHashVerifies(e, "fund", rows[e].hash["fund"])
    <3> SUFFICES ASSUME a \in {"release", "refund"}
                 PROVE  StoredHashVerifies(e, "fund", rows[e].hash["fund"])
      OBVIOUS
    <3>1. Took("fund", old) /\ "fund" \in Action
      BY <2>4 DEF Starts, Took, Action
    <3> QED
      BY <3>1, <2>1, <2>2 DEF HashesTell
  <2> QED
    BY <2>1, <2>2, <2>4, <2>5, <2>6, <2>7
<1> QED
  BY <1>1, Inductive, PTL

(* Contract and rows implement EscrowLife.                                 *)
THEOREM EscrowBothLive == Spec => BothLive
<1>1. Init => Life!Init /\ RowLife!Init
  BY DEF Init, ContractInit, OnChain, Life!Init, RowLife!Init
<1>2. IInv /\ [Next]_vars => [Life!Next]_[e \in Escrow |-> OnChain(e)]
  BY StepGood DEF Good, ContractGood
<1>3. IInv /\ [Next]_vars =>
      [RowLife!Next]_[e \in Escrow |-> IF rows[e] = NoRow THEN "CREATED"
                                       ELSE rows[e].state]
  BY StepGood DEF Good, RowLivesOn, RowState
<1> QED
  BY <1>1, <1>2, <1>3, Inductive, PTL DEF Spec, BothLive, Life!Spec, RowLife!Spec

-----------------------------------------------------------------------------
(* The money.                                                              *)

Funded == {e \in Escrow : status[e] = "Funded"}

LEMMA Terms ==
    /\ \A S \in SUBSET Escrow : IsFiniteSet(S)
    /\ \A e \in Escrow : /\ Amount[e] \in Nat /\ Amount[e] > 0
                         /\ Payer[e] \in Account /\ Recipient[e] \in Account
  BY TermsAssumption, FS_Subset DEF TermsAssumption

(* One amount more, and one less, for a set of escrows.                    *)
LEMMA OneMore ==
    ASSUME NEW S \in SUBSET Escrow, NEW T \in SUBSET Escrow, NEW e \in Escrow,
           e \notin S, T = S \cup {e}
    PROVE  Total(Amount, T) = Total(Amount, S) + Amount[e]
<1>1. IsFiniteSet(S) /\ Amount[e] \in Nat /\ \A d \in S : Amount[d] \in Nat
  BY Terms
<1>2. Total(Amount, S \cup {e}) = Amount[e] + Total(Amount, S)
  BY <1>1, TotalPutsIn
<1>3. Total(Amount, S) \in Nat
  BY <1>1, TotalNat
<1> QED
  BY <1>1, <1>2, <1>3

LEMMA SameMoney ==
    ASSUME MoneyIsWhereStatusSays, UNCHANGED <<wallet, held>>,
           \A e \in Escrow : /\ status'[e] = "Funded" <=> status[e] = "Funded"
                             /\ status'[e] = "Released" <=> status[e] = "Released"
    PROVE  MoneyIsWhereStatusSays'
<1>1. Funded' = Funded
  BY DEF Funded
<1>2. \A a \in Account : PaidBy(a)' = PaidBy(a) /\ PaidTo(a)' = PaidTo(a)
  BY DEF PaidBy, PaidTo
<1> QED
  BY <1>1, <1>2 DEF MoneyIsWhereStatusSays, Funded

(* The status of one escrow, and with it the sets it is in.                *)
LEMMA OneStatus ==
    ASSUME TypeOK, NEW e \in Escrow, NEW s \in Status, SetStatus(e, s)
    PROVE  /\ status'[e] = s
           /\ \A d \in Escrow : d # e => status'[d] = status[d]
  BY DEF TypeOK, SetStatus

LEMMA FundMoney ==
    ASSUME TypeOK, MoneyIsWhereStatusSays, NEW e \in Escrow, NEW b \in Account,
           fund(e, b)
    PROVE  MoneyIsWhereStatusSays'
<1>1. /\ status[e] = "Open" /\ b = Payer[e] /\ SetStatus(e, "Funded")
      /\ wallet[b] >= Amount[e] /\ held' = held + Amount[e]
      /\ wallet' = [wallet EXCEPT ![b] = @ - Amount[e]]
  BY DEF fund, Allows
<1>2. /\ status'[e] = "Funded" /\ \A d \in Escrow : d # e => status'[d] = status[d]
      /\ wallet \in [Account -> Nat] /\ held \in Nat
  BY <1>1, OneStatus DEF Status, TypeOK
<1>3. Funded' = Funded \cup {e} /\ e \notin Funded
  BY <1>1, <1>2 DEF Funded
<1>4. held' = Total(Amount, Funded')
  <2>1. Total(Amount, Funded') = Total(Amount, Funded) + Amount[e]
    BY <1>3, OneMore DEF Funded
  <2> QED
    BY <2>1, <1>1 DEF MoneyIsWhereStatusSays, Funded
<1>5. ASSUME NEW a \in Account
      PROVE  wallet'[a] + Total(Amount, PaidBy(a)') = Supply[a] + Total(Amount, PaidTo(a)')
  <2>1. PaidTo(a)' = PaidTo(a)
    BY <1>1, <1>2 DEF PaidTo
  <2>2. wallet[a] + Total(Amount, PaidBy(a)) = Supply[a] + Total(Amount, PaidTo(a))
    BY DEF MoneyIsWhereStatusSays
  <2>3. CASE a = b
    <3>1. PaidBy(a)' = PaidBy(a) \cup {e} /\ e \notin PaidBy(a)
      BY <1>1, <1>2, <2>3 DEF PaidBy
    <3>2. Total(Amount, PaidBy(a)') = Total(Amount, PaidBy(a)) + Amount[e]
      BY <3>1, OneMore DEF PaidBy
    <3>3. wallet'[a] = wallet[a] - Amount[e]
      BY <1>1, <1>2, <2>3
    <3>4. Total(Amount, PaidBy(a)) \in Nat /\ Amount[e] \in Nat /\ wallet[a] \in Nat
      BY <1>2, Terms, TotalNat DEF PaidBy
    <3>5. wallet'[a] + Total(Amount, PaidBy(a)') = wallet[a] + Total(Amount, PaidBy(a))
      BY <3>2, <3>3, <3>4
    <3> QED
      BY <2>1, <2>2, <3>5
  <2>4. CASE a # b
    <3>1. PaidBy(a)' = PaidBy(a)
      BY <1>1, <1>2, <2>4 DEF PaidBy
    <3>2. wallet'[a] = wallet[a]
      BY <1>1, <1>2, <2>4
    <3> QED
      BY <2>1, <2>2, <3>1, <3>2
  <2> QED
    BY <2>3, <2>4
<1> QED
  BY <1>4, <1>5 DEF MoneyIsWhereStatusSays, Funded

(* The contract holds at least what it holds for one escrow.               *)
LEMMA HeldCovers ==
    ASSUME MoneyIsWhereStatusSays, NEW e \in Escrow, status[e] = "Funded"
    PROVE  held >= Amount[e]
<1>1. e \in Funded /\ Funded \in SUBSET Escrow /\ Funded \ {e} \in SUBSET Escrow
  BY DEF Funded
<1>2. held = Total(Amount, Funded)
  BY DEF MoneyIsWhereStatusSays, Funded
<1>3. Total(Amount, Funded) = Total(Amount, Funded \ {e}) + Amount[e]
  BY <1>1, OneMore, (Funded \ {e}) \cup {e} = Funded
<1>4. Total(Amount, Funded \ {e}) \in Nat /\ Amount[e] \in Nat
  BY <1>1, Terms, TotalNat
<1> QED
  BY <1>2, <1>3, <1>4

LEMMA ReleaseMoney ==
    ASSUME TypeOK, MoneyIsWhereStatusSays, NEW e \in Escrow, NEW b \in Account,
           release(e, b)
    PROVE  MoneyIsWhereStatusSays'
<1> DEFINE r == Recipient[e]
<1>1. /\ status[e] = "Funded" /\ SetStatus(e, "Released")
      /\ held' = held - Amount[e]
      /\ wallet' = [wallet EXCEPT ![r] = @ + Amount[e]]
  BY DEF release, Allows, PayOut
<1>2. /\ status'[e] = "Released" /\ \A d \in Escrow : d # e => status'[d] = status[d]
      /\ wallet \in [Account -> Nat] /\ held \in Nat
  BY <1>1, OneStatus DEF Status, TypeOK
<1>3. Funded = Funded' \cup {e} /\ e \notin Funded'
  BY <1>1, <1>2 DEF Funded
<1>4. held' = Total(Amount, Funded')
  <2>1. Funded \in SUBSET Escrow /\ Funded' \in SUBSET Escrow
    BY DEF Funded
  <2>2. Total(Amount, Funded) = Total(Amount, Funded') + Amount[e]
    BY <1>3, <2>1, OneMore
  <2>3. Total(Amount, Funded') \in Nat /\ Amount[e] \in Nat
    BY <2>1, Terms, TotalNat
  <2> QED
    BY <2>2, <2>3, <1>1 DEF MoneyIsWhereStatusSays, Funded
<1>5. ASSUME NEW a \in Account
      PROVE  wallet'[a] + Total(Amount, PaidBy(a)') = Supply[a] + Total(Amount, PaidTo(a)')
  <2>1. PaidBy(a)' = PaidBy(a)
    BY <1>1, <1>2 DEF PaidBy
  <2>2. wallet[a] + Total(Amount, PaidBy(a)) = Supply[a] + Total(Amount, PaidTo(a))
    BY DEF MoneyIsWhereStatusSays
  <2>3. CASE a = r
    <3>1. PaidTo(a)' = PaidTo(a) \cup {e} /\ e \notin PaidTo(a)
      BY <1>1, <1>2, <2>3 DEF PaidTo
    <3>2. Total(Amount, PaidTo(a)') = Total(Amount, PaidTo(a)) + Amount[e]
      BY <3>1, OneMore DEF PaidTo
    <3>3. wallet'[a] = wallet[a] + Amount[e]
      BY <1>1, <1>2, <2>3
    <3>4. /\ Total(Amount, PaidTo(a)) \in Nat /\ Total(Amount, PaidBy(a)) \in Nat
          /\ Amount[e] \in Nat /\ wallet[a] \in Nat /\ Supply[a] \in Nat
      BY <1>2, Terms, TotalNat, TermsAssumption DEF PaidTo, PaidBy, TermsAssumption
    <3> HIDE DEF r
    <3> QED
      BY <2>1, <2>2, <3>2, <3>3, <3>4
  <2>4. CASE a # r
    <3>1. PaidTo(a)' = PaidTo(a)
      BY <1>1, <1>2, <2>4 DEF PaidTo
    <3>2. wallet'[a] = wallet[a]
      BY <1>1, <1>2, <2>4
    <3> QED
      BY <2>1, <2>2, <3>1, <3>2
  <2> QED
    BY <2>3, <2>4
<1> QED
  BY <1>4, <1>5 DEF MoneyIsWhereStatusSays, Funded

LEMMA RefundMoney ==
    ASSUME TypeOK, MoneyIsWhereStatusSays, NEW e \in Escrow, NEW b \in Account,
           refund(e, b)
    PROVE  MoneyIsWhereStatusSays'
<1> DEFINE p == Payer[e]
<1>1. /\ status[e] = "Funded" /\ SetStatus(e, "Refunded")
      /\ held' = held - Amount[e]
      /\ wallet' = [wallet EXCEPT ![p] = @ + Amount[e]]
  BY DEF refund, Allows, PayOut
<1>2. /\ status'[e] = "Refunded" /\ \A d \in Escrow : d # e => status'[d] = status[d]
      /\ wallet \in [Account -> Nat] /\ held \in Nat
  BY <1>1, OneStatus DEF Status, TypeOK
<1>3. Funded = Funded' \cup {e} /\ e \notin Funded'
  BY <1>1, <1>2 DEF Funded
<1>4. held' = Total(Amount, Funded')
  <2>1. Funded \in SUBSET Escrow /\ Funded' \in SUBSET Escrow
    BY DEF Funded
  <2>2. Total(Amount, Funded) = Total(Amount, Funded') + Amount[e]
    BY <1>3, <2>1, OneMore
  <2>3. Total(Amount, Funded') \in Nat /\ Amount[e] \in Nat
    BY <2>1, Terms, TotalNat
  <2> QED
    BY <2>2, <2>3, <1>1 DEF MoneyIsWhereStatusSays, Funded
<1>5. ASSUME NEW a \in Account
      PROVE  wallet'[a] + Total(Amount, PaidBy(a)') = Supply[a] + Total(Amount, PaidTo(a)')
  <2>1. PaidTo(a)' = PaidTo(a)
    BY <1>1, <1>2 DEF PaidTo
  <2>2. wallet[a] + Total(Amount, PaidBy(a)) = Supply[a] + Total(Amount, PaidTo(a))
    BY DEF MoneyIsWhereStatusSays
  <2>3. CASE a = p
    <3>1. PaidBy(a) = PaidBy(a)' \cup {e} /\ e \notin PaidBy(a)'
      BY <1>1, <1>2, <2>3 DEF PaidBy
    <3>2. PaidBy(a) \in SUBSET Escrow /\ PaidBy(a)' \in SUBSET Escrow
      BY DEF PaidBy
    <3>3. Total(Amount, PaidBy(a)) = Total(Amount, PaidBy(a)') + Amount[e]
      BY <3>1, <3>2, OneMore
    <3>4. wallet'[a] = wallet[a] + Amount[e]
      BY <1>1, <1>2, <2>3
    <3>5. Total(Amount, PaidBy(a)') \in Nat /\ Amount[e] \in Nat /\ wallet[a] \in Nat
      BY <1>2, <3>2, Terms, TotalNat
    <3>6. wallet'[a] + Total(Amount, PaidBy(a)') = wallet[a] + Total(Amount, PaidBy(a))
      <4> HIDE DEF p
      <4> QED BY <3>3, <3>4, <3>5
    <3> QED
      BY <2>1, <2>2, <3>6
  <2>4. CASE a # p
    <3>1. PaidBy(a)' = PaidBy(a)
      BY <1>1, <1>2, <2>4 DEF PaidBy
    <3>2. wallet'[a] = wallet[a]
      BY <1>1, <1>2, <2>4
    <3> QED
      BY <2>1, <2>2, <3>1, <3>2
  <2> QED
    BY <2>3, <2>4
<1> QED
  BY <1>4, <1>5 DEF MoneyIsWhereStatusSays, Funded

LEMMA MoneyStep ==
    ASSUME TypeOK, MoneyIsWhereStatusSays, [Next]_vars
    PROVE  MoneyIsWhereStatusSays'
<1>1. ASSUME NEW e \in Escrow, NEW b \in Account, open(e, b)
      PROVE  MoneyIsWhereStatusSays'
  <2>1. status[e] = "None" /\ SetStatus(e, "Open") /\ UNCHANGED <<wallet, held>>
    BY <1>1 DEF open, Allows
  <2> QED
    BY <2>1, OneStatus, SameMoney DEF Status
<1>2. ASSUME NEW e \in Escrow, NEW b \in Account, voidEscrow(e, b) \/ cancel(e, b)
      PROVE  MoneyIsWhereStatusSays'
  <2>1. /\ status[e] \in {"None", "Open"} /\ SetStatus(e, "Cancelled")
        /\ UNCHANGED <<wallet, held>>
    BY <1>2 DEF voidEscrow, cancel, Allows
  <2> QED
    BY <2>1, OneStatus, SameMoney DEF Status
<1>3. CASE UNCHANGED <<status, wallet, held>>
  BY <1>3, SameMoney
<1>4. ASSUME NEW e \in Escrow, NEW event \in Event, UnrelatedTx(e, event)
      PROVE  MoneyIsWhereStatusSays'
  BY <1>3, <1>4 DEF UnrelatedTx
<1>5. ASSUME Tick PROVE MoneyIsWhereStatusSays'
  BY <1>3, <1>5 DEF Tick
<1>6. ASSUME ContractNext PROVE MoneyIsWhereStatusSays'
  <2>1. ASSUME NEW e \in Escrow, NEW b \in Account,
               \/ open(e, b) \/ voidEscrow(e, b) \/ cancel(e, b)
               \/ fund(e, b) \/ release(e, b) \/ refund(e, b)
        PROVE  MoneyIsWhereStatusSays'
    <3>1. CASE fund(e, b)
      BY <3>1, FundMoney
    <3>2. CASE release(e, b)
      BY <3>2, ReleaseMoney
    <3>3. CASE refund(e, b)
      BY <3>3, RefundMoney
    <3> QED
      BY <1>1, <1>2, <2>1, <3>1, <3>2, <3>3
  <2> QED
    BY <1>4, <1>5, <1>6, <2>1, Zenon DEF ContractNext
<1>7. ASSUME NEW h \in Handler, HandlerNext(h)
      PROVE  UNCHANGED <<status, wallet, held>>
  <2>1. UNCHANGED contractVars
    BY <1>7, ZenonT(40) DEF HandlerNext, CreateEscrow, ConfirmByCreator, ConfirmSigned,
       LoadTransaction, VerifyFunding, Save, Emit, Abandon
  <2> QED
    BY <2>1 DEF contractVars
<1> QED
  BY <1>3, <1>6, <1>7 DEF Next, vars, contractVars

(* No escrow pays twice, pays another's party or from another's money,     *)
(* however the calls of any number of parties interleave.                  *)
THEOREM EscrowMoneyIsWhereStatusSays == Spec => []MoneyIsWhereStatusSays
<1>1. Init => MoneyIsWhereStatusSays
  <2> SUFFICES ASSUME Init PROVE MoneyIsWhereStatusSays
    OBVIOUS
  <2>1. /\ {e \in Escrow : status[e] = "Funded"} = {}
        /\ \A a \in Account : PaidBy(a) = {} /\ PaidTo(a) = {}
    BY DEF Init, ContractInit, PaidBy, PaidTo
  <2>2. wallet = Supply /\ held = 0
    BY DEF Init, ContractInit
  <2> QED
    BY <2>1, <2>2, TotalOfNone DEF MoneyIsWhereStatusSays
<1>2. TypeOK /\ MoneyIsWhereStatusSays /\ [Next]_vars => MoneyIsWhereStatusSays'
  BY MoneyStep
<1> QED
  BY <1>1, <1>2, EscrowTypeOK, PTL DEF Spec

(* The contract can pay what it owes: the transfer of a release or refund  *)
(* never fails for want of funds.                                          *)
THEOREM EscrowIsCovered ==
    Spec => [](\A e \in Escrow : status[e] = "Funded" => held >= Amount[e])
<1>1. MoneyIsWhereStatusSays =>
          \A e \in Escrow : status[e] = "Funded" => held >= Amount[e]
  BY HeldCovers
<1> QED
  BY <1>1, EscrowMoneyIsWhereStatusSays, PTL

(* The agreements of m whose rows are in one of the states S, and those of *)
(* m with one of the statuses S on the chain.                              *)
Shown(m, S) ==
    {e \in Escrow : rows[e] # NoRow /\ rows[e].state \in S /\ Creator[e] = m}
OnChainIn(m, S) == {e \in Escrow : Creator[e] = m /\ status[e] \in S}

(* What the report of a merchant's agreements adds up happened on the      *)
(* chain.                                                                  *)
THEOREM EscrowReportIsBacked == Spec => []ReportIsBacked
<1>1. ASSUME TypeOK, RowFollowsContract, NEW m \in Account
      PROVE  LET shown == escrowAnalytics(m)
                 On(S) == Total(Amount, OnChainIn(m, S))
             IN  /\ shown["RELEASED"].sum <= On({"Released"})
                 /\ shown["REFUNDED"].sum <= On({"Refunded"})
                 /\ shown["FUNDED"].sum + shown["RELEASED"].sum
                       + shown["REFUNDED"].sum
                         <= On({"Funded", "Released", "Refunded"})
  <2> DEFINE R == Shown(m, {"RELEASED"})
             B == Shown(m, {"REFUNDED"})
             F == Shown(m, {"FUNDED"})
  <2>1. \A e \in Escrow : rows[e] # NoRow =>
            /\ rows[e].state = "RELEASED" => status[e] = "Released"
            /\ rows[e].state = "REFUNDED" => status[e] = "Refunded"
            /\ rows[e].state = "FUNDED" =>
                   status[e] \in {"Funded", "Released", "Refunded"}
    BY <1>1 DEF RowFollowsContract, TypeOK, OnChain, Ahead, Life!Ahead, Status
  <2>2. /\ R \in SUBSET OnChainIn(m, {"Released"})
        /\ B \in SUBSET OnChainIn(m, {"Refunded"})
        /\ F \cup (R \cup B) \in SUBSET OnChainIn(m, {"Funded", "Released", "Refunded"})
    BY <2>1 DEF Shown, OnChainIn
  <2>3. /\ escrowAnalytics(m)["RELEASED"].sum = Total(Amount, R)
        /\ escrowAnalytics(m)["REFUNDED"].sum = Total(Amount, B)
        /\ escrowAnalytics(m)["FUNDED"].sum = Total(Amount, F)
    <3>1. ASSUME NEW s \in States
          PROVE  escrowAnalytics(m)[s].sum = Total(Amount, Shown(m, {s}))
      <4>1. Shown(m, {s}) = {e \in Escrow : /\ rows[e] # NoRow /\ rows[e].state = s
                                            /\ Creator[e] = m}
        BY DEF Shown
      <4>. QED
        BY <4>1 DEF escrowAnalytics
    <3>2. {"RELEASED", "REFUNDED", "FUNDED"} \subseteq States
      BY DEF States, Life!States
    <3>. QED
      BY <3>1, <3>2
  <2>4. /\ R \cap B = {} /\ F \cap (R \cup B) = {}
        /\ R \in SUBSET Escrow /\ B \in SUBSET Escrow /\ F \in SUBSET Escrow
    BY DEF Shown
  <2>5. /\ \A S : OnChainIn(m, S) \in SUBSET Escrow
        /\ \A T \in SUBSET Escrow : IsFiniteSet(T) /\ \A e \in T : Amount[e] \in Nat
    BY Terms DEF OnChainIn
  <2> HIDE DEF R, B, F
  <2>6. ASSUME NEW S \in SUBSET Escrow, NEW T \in SUBSET Escrow, S \cap T = {}
        PROVE  Total(Amount, S \cup T) = Total(Amount, S) + Total(Amount, T)
    <3>1. /\ IsFiniteSet(S) /\ IsFiniteSet(T)
          /\ \A e \in S \cup T : Amount[e] \in Nat
      BY <2>5
    <3>. QED
      BY <2>6, <3>1, TotalOfUnion
  <2>7. Total(Amount, R \cup B) = Total(Amount, R) + Total(Amount, B)
    BY <2>4, <2>6
  <2>8. Total(Amount, F \cup (R \cup B)) = Total(Amount, F) + Total(Amount, R \cup B)
    <3>1. R \cup B \in SUBSET Escrow
      BY <2>4
    <3>. QED
      BY <2>4, <2>6, <3>1
  <2>9. ASSUME NEW S \in SUBSET Escrow, NEW T \in SUBSET S
        PROVE  Total(Amount, T) <= Total(Amount, S)
    <3>1. /\ IsFiniteSet(S)
          /\ \A e \in T : Amount[e] \in Nat /\ Amount[e] <= Amount[e]
          /\ \A e \in S : Amount[e] \in Nat
      BY <2>5
    <3>. QED
      BY <3>1, TotalGrows
  <2>11. /\ Total(Amount, R) <= Total(Amount, OnChainIn(m, {"Released"}))
         /\ Total(Amount, B) <= Total(Amount, OnChainIn(m, {"Refunded"}))
         /\ Total(Amount, F \cup (R \cup B))
               <= Total(Amount, OnChainIn(m, {"Funded", "Released", "Refunded"}))
    BY <2>2, <2>5, <2>9
  <2>10. \A T \in SUBSET Escrow : Total(Amount, T) \in Nat
    BY <2>5, TotalNat
  <2>. QED
    BY <2>3, <2>4, <2>7, <2>8, <2>10, <2>11
<1>2. TypeOK /\ RowFollowsContract => ReportIsBacked
  BY <1>1 DEF ReportIsBacked, OnChainIn
<1> QED
  BY <1>2, EscrowTypeOK, EscrowRowFollowsContract, PTL

=============================================================================
