------------------------- MODULE PaySettlementProofs -------------------------
(***************************************************************************)
(* Safety of PaySettlement for every set of links, transactions, handlers  *)
(* and endpoints, and every value of the limits.                           *)
(*                                                                         *)
(* The inductive invariant says what the properties leave unsaid: which    *)
(* combinations of the fields of a row occur, and what a handler between   *)
(* two awaits may rely on (a hash about to be settled was verified; a V2   *)
(* cancellation has read its clock; an answer was true when it was given). *)
(* Its parts are operators of the values they are about, so that a step    *)
(* can speak of the new value of one row or of one handler.                *)
(*                                                                         *)
(* At the end, that the store under the rows makes mutations atomic        *)
(* (PayStoreCas), which PaySettlement builds on.                           *)
(***************************************************************************)
EXTENDS PaySettlementProperties, PayStoreCas, SequenceTheorems, TLAPS

Proves(m, t, x) ==
    /\ m[x] # NoTime
    /\ t \in Settles[x]
    /\ Version[t] = 2 => m[x] < ExpiresAt[t]

RowOK(t, row, m) ==
    /\ row \in PayRecord
    /\ ~row.stored => row = AbsentRecord
    /\ Len(row.submitted) <= MaxSubmittedHashes
    /\ row.paidTx # NoTx =>
         /\ Proves(m, t, row.paidTx)
         /\ Version[t] = 2 => row.paidAt = m[row.paidTx]
         /\ ~row.cancelled
         /\ row.cancelledAt # NoTime =>
              Version[t] = 2 /\ row.paidAt < row.cancelledAt
    /\ row.cancelled => row.cancelledAt # NoTime
    /\ row.cancelledAt # NoTime => row.cancelled \/ row.paidTx # NoTx
    /\ row.lateTx # NoTx =>
         /\ row.cancelledAt # NoTime
         /\ m[row.lateTx] >= row.cancelledAt
         /\ row.lateTx # row.paidTx

CallOK(c, m, r) ==
    /\ c \in Call
    /\ c.pc # "idle" => c.token \in Token
    /\ c.pc \in {"submit.candidate", "submit.verify", "settle", "reconcile.settle"}
         => c.tx \in Tx
    /\ c.pc \in {"settle", "reconcile.settle"} => Proves(m, c.token, c.tx)
    /\ /\ c.pc \in {"cancel.get", "cancel.ensure", "cancel.mark"}
       /\ Version[c.token] = 2
       => c.at # NoTime
    /\ c.pc = "cancel.mark" => r[c.token].stored

AnswerOK(a, r) ==
    /\ a \in Answer
    /\ a.kind = "paid" =>
         a.token \in Token /\ a.tx \in Tx /\ r[a.token].paidTx = a.tx
    /\ a.kind = "cancelled" => a.token \in Token /\ r[a.token].cancelledAt # NoTime

StoreInv ==
    /\ rows \in [Token -> PayRecord]
    /\ \A t \in Token : RowOK(t, rows[t], mined)
    /\ OneRowPerTx
    /\ OnePaidRowPerId

LocalInv ==
    /\ call \in [Handler -> Call]
    /\ \A h \in Handler : CallOK(call[h], mined, rows)
    /\ answer \in [Handler -> Answer]
    /\ \A h \in Handler : AnswerOK(answer[h], rows)

WorldInv ==
    /\ outbox \in [Endpoint -> [EventIds -> Nat]]
    /\ subscribed \in [Endpoint -> BOOLEAN]
    /\ mined \in [Tx -> Nat \cup {NoTime}]
    /\ chainNow \in Nat
    /\ now \in Nat

(* Only a transaction that settled a row has anything in the outbox.       *)
OutboxInv ==
    \A e \in Endpoint, i \in RequestId, x \in Tx :
        outbox[e][<<i, x>>] # 0 => \E t \in Token : rows[t].paidTx = x

IInv == StoreInv /\ LocalInv /\ WorldInv

(* What no step takes back: a row, its settlement, the fact that it was    *)
(* once cancelled or paid too late, the block time of a transaction.       *)
Grows ==
    /\ \A t \in Token :
         /\ rows[t].paidTx # NoTx =>
              rows'[t].paidTx = rows[t].paidTx /\ rows'[t].paidAt = rows[t].paidAt
         /\ rows[t].cancelledAt # NoTime => rows'[t].cancelledAt # NoTime
         /\ rows[t].stored => rows'[t].stored
         /\ rows[t].lateTx # NoTx => rows'[t].lateTx # NoTx
    /\ \A x \in Tx : mined[x] # NoTime => mined'[x] = mined[x]

SamePaid == \A t \in Token : rows'[t].paidTx = rows[t].paidTx

USE NoTxAssumption, LinkAssumption, LimitAssumption, HandlerAssumption

-----------------------------------------------------------------------------
(* The initial state.                                                      *)

LEMMA BlankRowOK ==
  ASSUME NEW t \in Token, NEW m
  PROVE  /\ RowOK(t, AbsentRecord, m) /\ RowOK(t, BlankRecord, m)
         /\ AbsentRecord \in PayRecord /\ BlankRecord \in PayRecord
  <1>1. << >> \in Seq(Tx) /\ Len(<< >>) = 0
    BY EmptySeq
  <1>2. AbsentRecord \in PayRecord /\ BlankRecord \in PayRecord
    BY <1>1 DEF AbsentRecord, BlankRecord, PayRecord
  <1>. QED
    BY <1>1, <1>2, SMTT(30) DEF RowOK, AbsentRecord, BlankRecord, NoTime

LEMMA IdleOK ==
  /\ NoCall \in Call /\ \A m, r : CallOK(NoCall, m, r)
  /\ NoAnswer \in Answer /\ \A r : AnswerOK(NoAnswer, r)
  <1>1. << >> \in Seq(Tx)
    BY EmptySeq
  <1>2. NoCall \in Call /\ NoCall.pc = "idle"
    BY <1>1 DEF NoCall, Call, PcValue
  <1>3. NoAnswer \in Answer /\ NoAnswer.kind = "none"
    BY DEF NoAnswer, Answer
  <1>. QED
    BY <1>2, <1>3 DEF CallOK, AnswerOK

LEMMA InitInv == Init => IInv
  <1>. SUFFICES ASSUME Init PROVE IInv
    OBVIOUS
  <1>1. rows \in [Token -> PayRecord] /\ \A t \in Token : RowOK(t, rows[t], mined)
    BY BlankRowOK DEF Init
  <1>2. OneRowPerTx /\ OnePaidRowPerId
    BY DEF Init, OneRowPerTx, OnePaidRowPerId, IsPaid, AbsentRecord
  <1>3. LocalInv
    BY IdleOK DEF Init, LocalInv
  <1>4. WorldInv
    BY DEF Init, WorldInv
  <1>. QED
    BY <1>1, <1>2, <1>3, <1>4 DEF IInv, StoreInv

-----------------------------------------------------------------------------
(* The store: unchanged, one row rewritten, or a settlement.               *)

LEMMA StoreUnchanged ==
  ASSUME IInv, UNCHANGED <<rows, mined>>
  PROVE  StoreInv' /\ Grows /\ SamePaid
  BY DEF IInv, StoreInv, Grows, SamePaid, OneRowPerTx, OnePaidRowPerId

(* A rewritten row keeps what it says about its settlement.                *)
LEMMA OneRowRewritten ==
  ASSUME IInv, NEW t \in Token, NEW row, RowOK(t, row, mined),
         rows' = [rows EXCEPT ![t] = row], UNCHANGED mined,
         row.paidTx = rows[t].paidTx, row.paidAt = rows[t].paidAt,
         rows[t].cancelledAt # NoTime => row.cancelledAt # NoTime,
         rows[t].stored => row.stored,
         rows[t].lateTx # NoTx => row.lateTx # NoTx
  PROVE  StoreInv' /\ Grows /\ SamePaid
  <1>. USE DEF IInv, StoreInv
  <1>1. rows' \in [Token -> PayRecord]
    BY DEF RowOK
  <1>2. \A u \in Token : RowOK(u, rows'[u], mined')
    OBVIOUS
  <1>3. \A u \in Token : rows'[u].paidTx = rows[u].paidTx
    OBVIOUS
  <1>4. OneRowPerTx' /\ OnePaidRowPerId'
    BY <1>3 DEF OneRowPerTx, OnePaidRowPerId, IsPaid
  <1>5. Grows
    BY DEF Grows
  <1>. QED
    BY <1>1, <1>2, <1>3, <1>4, <1>5 DEF SamePaid

LEMMA MergeRow ==
  ASSUME IInv, NEW t \in Token, UNCHANGED mined,
         rows' = [rows EXCEPT ![t] = MergePayRecord(@)]
  PROVE  StoreInv' /\ Grows /\ SamePaid
  <1>. DEFINE row == rows[t]
  <1>1. RowOK(t, row, mined) /\ row \in PayRecord
    BY DEF IInv, StoreInv
  <1>2. CASE ~row.stored
    <2>1. /\ BlankRecord.paidTx = row.paidTx /\ BlankRecord.paidAt = row.paidAt
          /\ row.cancelledAt = NoTime /\ row.lateTx = NoTx
      BY <1>1, <1>2 DEF RowOK, BlankRecord, AbsentRecord
    <2>. QED
      BY <1>2, <2>1, BlankRowOK, OneRowRewritten DEF MergePayRecord
  <1>3. CASE row.stored
    <2>1. MergePayRecord(row) = row
      BY <1>1, <1>3 DEF MergePayRecord, IsPaid, PayRecord
    <2>. QED
      BY <1>1, <2>1, OneRowRewritten
  <1>. QED
    BY <1>2, <1>3

LEMMA ViewRow ==
  ASSUME IInv, NEW t \in Token, rows[t].stored, UNCHANGED mined,
         rows' = [rows EXCEPT ![t].viewed = TRUE]
  PROVE  StoreInv' /\ Grows /\ SamePaid
  <1>. DEFINE row == [rows[t] EXCEPT !.viewed = TRUE]
  <1>1. RowOK(t, rows[t], mined) /\ rows[t] \in PayRecord
    BY DEF IInv, StoreInv
  <1>2. row \in PayRecord /\ RowOK(t, row, mined)
    BY <1>1 DEF RowOK, PayRecord
  <1>. QED
    BY <1>1, <1>2, OneRowRewritten DEF PayRecord

(* A cancellation moves an open row only, so no row is both.               *)
LEMMA CancelRow ==
  ASSUME IInv, NEW t \in Token, rows[t].stored, UNCHANGED mined,
         NEW at \in Nat \cup {NoTime}, Version[t] = 2 => at # NoTime,
         rows' = [rows EXCEPT ![t] = NextCancelledRecord(t, rows[t], at, now)]
  PROVE  /\ StoreInv' /\ Grows /\ SamePaid
         /\ rows'[t].cancelled => rows'[t].cancelledAt # NoTime
  <1>. DEFINE row == rows[t]
              next == NextCancelledRecord(t, row, at, now)
  <1>1. RowOK(t, row, mined) /\ row \in PayRecord /\ now \in Nat
    BY DEF IInv, StoreInv, WorldInv
  <1>2. CASE next = row
    <2>1. rows'[t] = row
      BY <1>2 DEF IInv, StoreInv
    <2>2. row.cancelled => row.cancelledAt # NoTime
      BY <1>1 DEF RowOK
    <2>3. StoreInv' /\ Grows /\ SamePaid
      BY <1>1, <1>2, OneRowRewritten
    <2>. QED
      BY <2>1, <2>2, <2>3
  <1>3. ASSUME NEW stamp \in Nat, row.paidTx = NoTx, ~row.cancelled,
               next = [row EXCEPT !.cancelled = TRUE, !.cancelledAt = stamp]
        PROVE  /\ StoreInv' /\ Grows /\ SamePaid
               /\ rows'[t].cancelled => rows'[t].cancelledAt # NoTime
    <2>. HIDE DEF next
    <2>1. row.cancelledAt = NoTime /\ row.lateTx = NoTx
      BY <1>1, <1>3 DEF RowOK
    <2>2. /\ next \in PayRecord
          /\ next.cancelled = TRUE /\ next.cancelledAt = stamp /\ stamp # NoTime
      <3>1. row \in PayRecord /\ stamp # NoTime
        BY <1>1, <1>3 DEF NoTime
      <3>. QED
        BY <1>3, <3>1 DEF PayRecord
    <2>3. /\ next.paidTx = row.paidTx /\ next.paidAt = row.paidAt
          /\ next.lateTx = row.lateTx /\ next.submitted = row.submitted
          /\ next.stored = row.stored
      BY <1>1, <1>3 DEF PayRecord
    <2>4. RowOK(t, next, mined)
      BY <1>1, <1>3, <2>1, <2>2, <2>3 DEF RowOK
    <2>5. rows' = [rows EXCEPT ![t] = next] /\ rows'[t] = next
      BY DEF next, IInv, StoreInv
    <2>. QED
      BY <2>1, <2>2, <2>3, <2>4, <2>5, OneRowRewritten
  <1>4. (IF Version[t] = 2 THEN at ELSE now) \in Nat
    BY <1>1
  <1>. QED
    BY <1>2, <1>3, <1>4 DEF NextCancelledRecord, IsPaid

(* The cap is checked where the hash is appended.                          *)
LEMMA CandidateRow ==
  ASSUME IInv, NEW t \in Token, NEW x \in Tx, UNCHANGED mined,
         rows' = [rows EXCEPT ![t] = AddSubmittedHash(@, x)]
  PROVE  StoreInv' /\ Grows /\ SamePaid
  <1>. DEFINE row == rows[t]
              next == AddSubmittedHash(row, x)
  <1>1. RowOK(t, row, mined) /\ row \in PayRecord
    BY DEF IInv, StoreInv
  <1>2. CASE next = row
    BY <1>1, <1>2, OneRowRewritten
  <1>3. CASE /\ row.stored /\ ~(Len(row.submitted) >= MaxSubmittedHashes)
             /\ next = [row EXCEPT !.submitted = Append(@, x)]
    <2>1. row.submitted \in Seq(Tx)
      BY <1>1 DEF PayRecord
    <2>2. /\ Append(row.submitted, x) \in Seq(Tx)
          /\ Len(Append(row.submitted, x)) <= MaxSubmittedHashes
      BY <1>3, <2>1, AppendProperties, LenProperties
    <2>3. /\ next \in PayRecord
          /\ next.submitted = Append(row.submitted, x)
          /\ next.paidTx = row.paidTx /\ next.paidAt = row.paidAt
          /\ next.lateTx = row.lateTx /\ next.stored = row.stored
          /\ next.cancelled = row.cancelled /\ next.cancelledAt = row.cancelledAt
      BY <1>1, <1>3, <2>2 DEF PayRecord
    <2>4. RowOK(t, next, mined)
      BY <1>1, <1>3, <2>2, <2>3 DEF RowOK
    <2>. QED
      BY <2>3, <2>4, OneRowRewritten
  <1>. QED
    BY <1>2, <1>3 DEF AddSubmittedHash

(* applySettlementToStore: what each of its codes has excluded.            *)
LEMMA SettleRow ==
  ASSUME IInv, NEW t \in Token, NEW x \in Tx, Proves(mined, t, x),
         rows' = ApplySettlement(rows, t, x, mined[x]), UNCHANGED mined
  PROVE  /\ StoreInv' /\ Grows
         /\ SettleCode(rows, t, x, mined[x]) \in {"settled", "already_settled"}
              => rows'[t].paidTx = x
  <1>. DEFINE row == rows[t]
              code == SettleCode(rows, t, x, mined[x])
              paid == NextPaidRecord(t, row, x, mined[x])
              late == [row EXCEPT !.lateTx = x]
  <1>1. RowOK(t, row, mined) /\ row \in PayRecord /\ rows \in [Token -> PayRecord]
    BY DEF IInv, StoreInv
  <1>2. mined[x] \in Nat
    BY DEF IInv, WorldInv, Proves
  <1>3. CASE code = "settled"
    <2>1. /\ row.stored /\ row.paidTx = NoTx /\ MayBePaid(t, row, mined[x])
          /\ ~SettlesAnother(rows, t, x) /\ ~IdPaidElsewhere(rows, t)
      BY <1>3 DEF SettleCode, IsPaid
    <2>2. rows' = [rows EXCEPT ![t] = paid]
      BY <1>3 DEF ApplySettlement
    <2>3. /\ paid \in PayRecord
          /\ paid.paidTx = x /\ ~paid.cancelled
          /\ paid.paidAt = IF Version[t] = 2 THEN mined[x] ELSE row.paidAt
          /\ paid.submitted = row.submitted /\ paid.stored = row.stored
          /\ paid.cancelledAt = row.cancelledAt /\ paid.lateTx = row.lateTx
      BY <1>1, <1>2 DEF NextPaidRecord, PayRecord
    <2>. HIDE DEF paid
    <2>4. row.cancelledAt # NoTime => Version[t] = 2 /\ mined[x] < row.cancelledAt
      BY <1>1, <2>1 DEF RowOK, MayBePaid
    <2>5. row.lateTx # NoTx => row.lateTx # x
      BY <1>1, <1>2, <2>4 DEF RowOK, PayRecord, NoTime
    <2>6. RowOK(t, paid, mined)
      BY <1>1, <2>1, <2>3, <2>4, <2>5 DEF RowOK
    <2>7. \A u \in Token : RowOK(u, rows'[u], mined')
      BY <2>2, <2>6, <1>1 DEF IInv, StoreInv
    <2>8. \A u \in Token \ {t} : rows'[u] = rows[u] /\ rows[u].paidTx # x
      BY <2>1, <2>2, <1>1 DEF SettlesAnother
    <2>9. rows'[t] = paid /\ rows' \in [Token -> PayRecord]
      BY <2>2, <2>3, <1>1
    <2>10. OneRowPerTx'
      BY <2>3, <2>8, <2>9 DEF IInv, StoreInv, OneRowPerTx, IsPaid
    <2>11. OnePaidRowPerId'
      BY <2>1, <2>3, <2>8, <2>9
         DEF IInv, StoreInv, OnePaidRowPerId, IdPaidElsewhere, IsPaid
    <2>12. Grows
      <3>1. /\ row.paidTx = NoTx
            /\ row.cancelledAt # NoTime => rows'[t].cancelledAt # NoTime
            /\ rows'[t].stored
            /\ row.lateTx # NoTx => rows'[t].lateTx # NoTx
        BY <2>1, <2>3, <2>9
      <3>. QED
        BY <2>8, <3>1 DEF Grows
    <2>. QED
      BY <2>3, <2>7, <2>9, <2>10, <2>11, <2>12 DEF StoreInv
  <1>4. CASE code = "late_settlement"
    <2>1. /\ row.stored /\ row.paidTx = NoTx /\ IsLateSettlement(t, row, mined[x])
      BY <1>4 DEF SettleCode, IsPaid
    <2>2. rows' = [rows EXCEPT ![t] = late]
      BY <1>4 DEF ApplySettlement
    <2>3. /\ late \in PayRecord /\ late.lateTx = x /\ late.submitted = row.submitted
          /\ late.stored = row.stored /\ late.cancelled = row.cancelled
          /\ late.paidTx = row.paidTx /\ late.paidAt = row.paidAt
          /\ late.cancelledAt = row.cancelledAt
      BY <1>1 DEF PayRecord
    <2>4. row.cancelledAt # NoTime /\ mined[x] >= row.cancelledAt
      BY <1>1, <2>1 DEF RowOK, IsLateSettlement
    <2>5. RowOK(t, late, mined)
      BY <1>1, <2>1, <2>3, <2>4 DEF RowOK
    <2>. QED
      BY <1>4, <2>2, <2>3, <2>5, OneRowRewritten
  <1>5. CASE code \notin {"settled", "late_settlement"}
    <2>1. UNCHANGED rows
      BY <1>5 DEF ApplySettlement
    <2>2. code = "already_settled" => row.paidTx = x
      BY DEF SettleCode
    <2>. QED
      BY <1>5, <2>1, <2>2, StoreUnchanged
  <1>. QED
    BY <1>3, <1>4, <1>5

(* A transaction is mined once, and no row or handler spoke of it before.  *)
LEMMA MineStore ==
  ASSUME IInv, NEW x \in Tx, Mine(x)
  PROVE  StoreInv' /\ Grows /\ SamePaid
  <1>1. /\ mined \in [Tx -> Nat \cup {NoTime}] /\ mined[x] = NoTime
        /\ mined' = [mined EXCEPT ![x] = chainNow] /\ rows' = rows
    BY DEF IInv, WorldInv, Mine, store
  <1>2. Grows
    BY <1>1 DEF Grows
  <1>3. ASSUME NEW t \in Token
        PROVE  RowOK(t, rows'[t], mined')
    <2>1. RowOK(t, rows[t], mined) /\ rows[t] \in PayRecord
      BY DEF IInv, StoreInv
    <2>2. /\ rows[t].paidTx # NoTx => rows[t].paidTx # x
          /\ rows[t].lateTx # NoTx => rows[t].lateTx # x
      BY <1>1, <2>1 DEF RowOK, Proves, PayRecord, NoTime
    <2>3. /\ rows[t].paidTx # NoTx => mined'[rows[t].paidTx] = mined[rows[t].paidTx]
          /\ rows[t].lateTx # NoTx => mined'[rows[t].lateTx] = mined[rows[t].lateTx]
      BY <1>1, <2>1, <2>2 DEF PayRecord
    <2>. QED
      BY <1>1, <2>1, <2>3 DEF RowOK, Proves
  <1>. QED
    BY <1>1, <1>2, <1>3 DEF IInv, StoreInv, SamePaid, OneRowPerTx, OnePaidRowPerId

-----------------------------------------------------------------------------
(* What the handlers rely on survives the steps of others.                 *)

LEMMA CallStaysOK ==
  ASSUME IInv, Grows, NEW c, CallOK(c, mined, rows)
  PROVE  CallOK(c, mined', rows')
  <1>1. Proves(mined, c.token, c.tx) /\ c.tx \in Tx => Proves(mined', c.token, c.tx)
    BY DEF Grows, Proves
  <1>2. c.pc = "cancel.mark" => rows'[c.token].stored
    BY DEF CallOK, Grows
  <1>. QED
    BY <1>1, <1>2 DEF CallOK

LEMMA AnswerStaysOK ==
  ASSUME IInv, Grows, NEW a, AnswerOK(a, rows)
  PROVE  AnswerOK(a, rows')
  BY DEF AnswerOK, Grows

LEMMA LocalUnchanged ==
  ASSUME IInv, Grows, UNCHANGED <<call, answer>>
  PROVE  LocalInv'
  BY CallStaysOK, AnswerStaysOK DEF IInv, LocalInv

LEMMA LocalUpdate ==
  ASSUME IInv, Grows, NEW h \in Handler, NEW c, NEW a,
         CallOK(c, mined', rows'), AnswerOK(a, rows'),
         call' = [call EXCEPT ![h] = c], answer' = [answer EXCEPT ![h] = a]
  PROVE  LocalInv'
  <1>1. c \in Call /\ a \in Answer
    BY DEF CallOK, AnswerOK
  <1>2. \A g \in Handler : CallOK(call'[g], mined', rows')
    BY CallStaysOK DEF IInv, LocalInv
  <1>3. \A g \in Handler : AnswerOK(answer'[g], rows')
    BY AnswerStaysOK DEF IInv, LocalInv
  <1>. QED
    BY <1>1, <1>2, <1>3 DEF IInv, LocalInv

LEMMA FinishInv ==
  ASSUME IInv, Grows, NEW h \in Handler, NEW a, AnswerOK(a, rows'), Finish(h, a)
  PROVE  LocalInv'
  BY IdleOK, LocalUpdate DEF Finish

LEMMA BeginInv ==
  ASSUME IInv, Grows, NEW h \in Handler, NEW c, CallOK(c, mined', rows'), Begin(h, c)
  PROVE  LocalInv'
  BY IdleOK, LocalUpdate DEF Begin

LEMMA MoveInv ==
  ASSUME IInv, Grows, NEW h \in Handler, NEW c, CallOK(c, mined', rows'),
         call' = [call EXCEPT ![h] = c], UNCHANGED answer
  PROVE  LocalInv'
  <1>1. answer' = [answer EXCEPT ![h] = answer[h]] /\ AnswerOK(answer[h], rows)
    BY DEF IInv, LocalInv
  <1>. QED
    BY <1>1, AnswerStaysOK, LocalUpdate

LEMMA GotoInv ==
  ASSUME IInv, Grows, NEW h \in Handler, NEW next,
         CallOK([call[h] EXCEPT !.pc = next], mined', rows'), Goto(h, next)
  PROVE  LocalInv'
  BY MoveInv DEF Goto

(* An answer drawn from a row of the store.                                *)
LEMMA RowAnswer ==
  ASSUME IInv, NEW t \in Token
  PROVE  /\ IsPaid(rows[t]) => AnswerOK(PaidAnswer(t, rows[t].paidTx), rows)
         /\ rows[t].cancelled => AnswerOK(CancelledAnswer(t), rows)
  <1>1. RowOK(t, rows[t], mined) /\ rows[t] \in PayRecord
    BY DEF IInv, StoreInv
  <1>. QED
    BY <1>1 DEF RowOK, AnswerOK, PaidAnswer, CancelledAnswer, Answer, IsPaid, PayRecord

(* What a running handler knows of itself.                                 *)
LEMMA RunningCall ==
  ASSUME IInv, NEW h \in Handler, ~At(h, "idle")
  PROVE  /\ call[h] \in Call /\ CallOK(call[h], mined, rows)
         /\ call[h].token \in Token
  BY DEF IInv, LocalInv, CallOK, At

LEMMA NextPc ==
  ASSUME NEW c \in Call, NEW next \in PcValue
  PROVE  /\ [c EXCEPT !.pc = next] \in Call
         /\ [c EXCEPT !.pc = next].pc = next
         /\ [c EXCEPT !.pc = next].token = c.token
         /\ [c EXCEPT !.pc = next].tx = c.tx
         /\ [c EXCEPT !.pc = next].at = c.at
  BY DEF Call

(* A call that goes on to its next step keeps what its steps rely on.      *)
LEMMA GoesOn ==
  ASSUME NEW c \in Call, NEW m, NEW r, NEW s, CallOK(c, m, r)
  PROVE  /\ c.pc = "cancel.ensure" /\ s[c.token].stored
              => CallOK([c EXCEPT !.pc = "cancel.mark"], m, s)
         /\ c.pc = "submit.candidate" => CallOK([c EXCEPT !.pc = "submit.verify"], m, s)
  <1>. "cancel.mark" \in PcValue /\ "submit.verify" \in PcValue
    BY DEF PcValue
  <1>1. ASSUME c.pc = "cancel.ensure", s[c.token].stored
        PROVE  CallOK([c EXCEPT !.pc = "cancel.mark"], m, s)
    <2>1. c.token \in Token /\ (Version[c.token] = 2 => c.at # NoTime)
      BY <1>1 DEF CallOK
    <2>. DEFINE d == [c EXCEPT !.pc = "cancel.mark"]
    <2>2. d \in Call /\ d.pc = "cancel.mark" /\ d.token = c.token /\ d.at = c.at
      BY NextPc
    <2>. HIDE DEF d
    <2>4. /\ d.pc = "cancel.mark" /\ d.token \in Token /\ s[d.token].stored
          /\ Version[d.token] = 2 => d.at # NoTime
      BY <1>1, <2>1, <2>2
    <2>3. CallOK(d, m, s)
      BY <2>2, <2>4 DEF CallOK
    <2>. QED
      BY <2>3 DEF d
  <1>2. ASSUME c.pc = "submit.candidate"
        PROVE  CallOK([c EXCEPT !.pc = "submit.verify"], m, s)
    <2>1. c.token \in Token /\ c.tx \in Tx
      BY <1>2 DEF CallOK
    <2>. DEFINE d == [c EXCEPT !.pc = "submit.verify"]
    <2>2. d \in Call /\ d.pc = "submit.verify" /\ d.token = c.token /\ d.tx = c.tx
      BY NextPc
    <2>. HIDE DEF d
    <2>4. d.pc = "submit.verify" /\ d.token \in Token /\ d.tx \in Tx
      BY <2>1, <2>2
    <2>3. CallOK(d, m, s)
      BY <2>2, <2>4 DEF CallOK
    <2>. QED
      BY <2>3 DEF d
  <1>. QED
    BY <1>1, <1>2

-----------------------------------------------------------------------------
(* register and view.                                                      *)

LEMMA StartRegisterInv ==
  ASSUME IInv, NEW h \in Handler, NEW t \in Token, StartRegister(h, t)
  PROVE  IInv' /\ Grows /\ SamePaid
  <1>. DEFINE c == [NoCall EXCEPT !.pc = "register.create", !.token = t]
  <1>1. StoreInv' /\ Grows /\ SamePaid
    BY StoreUnchanged DEF StartRegister, store, world
  <1>2. CallOK(c, mined', rows')
    BY EmptySeq DEF NoCall, CallOK, Call, PcValue
  <1>3. LocalInv'
    BY <1>1, <1>2, BeginInv DEF StartRegister
  <1>4. WorldInv'
    BY DEF IInv, WorldInv, StartRegister, store, world
  <1>. QED
    BY <1>1, <1>3, <1>4 DEF IInv

LEMMA RegisterCreateInv ==
  ASSUME IInv, NEW h \in Handler, RegisterCreate(h)
  PROVE  IInv' /\ Grows /\ SamePaid
  <1>1. call[h].token \in Token
    BY RunningCall DEF RegisterCreate, At
  <1>2. StoreInv' /\ Grows /\ SamePaid
    <2>1. UNCHANGED mined
      BY DEF RegisterCreate, world
    <2>. QED
      BY <1>1, <2>1, MergeRow, StoreUnchanged DEF RegisterCreate
  <1>3. LocalInv'
    BY <1>2, IdleOK, FinishInv DEF RegisterCreate
  <1>4. WorldInv'
    BY DEF IInv, WorldInv, RegisterCreate, world
  <1>. QED
    BY <1>2, <1>3, <1>4 DEF IInv

LEMMA ViewInv ==
  ASSUME IInv, NEW h \in Handler, NEW t \in Token, View(h, t)
  PROVE  IInv' /\ Grows /\ SamePaid
  <1>1. StoreInv' /\ Grows /\ SamePaid
    BY ViewRow DEF View, world
  <1>2. LocalInv'
    BY <1>1, IdleOK, FinishInv DEF View
  <1>3. WorldInv'
    BY DEF IInv, WorldInv, View, world
  <1>. QED
    BY <1>1, <1>2, <1>3 DEF IInv

-----------------------------------------------------------------------------
(* cancel.                                                                 *)

LEMMA StartCancelInv ==
  ASSUME IInv, NEW h \in Handler, NEW t \in Token, StartCancel(h, t)
  PROVE  IInv' /\ Grows /\ SamePaid
  <1>. DEFINE at == IF Version[t] = 2 THEN now ELSE NoTime
              c  == [NoCall EXCEPT !.pc = "cancel.get", !.token = t, !.at = at]
  <1>1. StoreInv' /\ Grows /\ SamePaid
    BY StoreUnchanged DEF StartCancel, store, world
  <1>2. at \in Nat \cup {NoTime} /\ (Version[t] = 2 => at # NoTime)
    BY DEF IInv, WorldInv, NoTime
  <1>3. CallOK(c, mined', rows')
    <2>. HIDE DEF at
    <2>. QED
      BY <1>2, EmptySeq DEF NoCall, CallOK, Call, PcValue
  <1>4. LocalInv'
    BY <1>1, <1>3, BeginInv DEF StartCancel
  <1>5. WorldInv'
    BY DEF IInv, WorldInv, StartCancel, store, world
  <1>. QED
    BY <1>1, <1>4, <1>5 DEF IInv

LEMMA CancelExpiredInv ==
  ASSUME IInv, NEW h \in Handler, NEW t \in Token, CancelExpired(h, t)
  PROVE  IInv' /\ Grows /\ SamePaid
  <1>1. StoreInv' /\ Grows /\ SamePaid
    BY StoreUnchanged DEF CancelExpired, store, world
  <1>2. AnswerOK(PaidAnswer(t, rows[t].paidTx), rows')
    BY RowAnswer DEF CancelExpired, store
  <1>3. LocalInv'
    BY <1>1, <1>2, FinishInv DEF CancelExpired
  <1>4. WorldInv'
    BY DEF IInv, WorldInv, CancelExpired, store, world
  <1>. QED
    BY <1>1, <1>3, <1>4 DEF IInv

LEMMA CancelGetInv ==
  ASSUME IInv, NEW h \in Handler, CancelGet(h)
  PROVE  IInv' /\ Grows /\ SamePaid
  <1>. DEFINE t == call[h].token
  <1>0. /\ call[h] \in Call /\ CallOK(call[h], mined, rows) /\ t \in Token
        /\ call[h].pc = "cancel.get" /\ rows' = rows /\ mined' = mined
    BY RunningCall DEF CancelGet, At, store, world
  <1>1. StoreInv' /\ Grows /\ SamePaid
    BY StoreUnchanged DEF CancelGet, store, world
  <1>2. LocalInv'
    <2>1. CASE IsPaid(rows[t])
      BY <1>0, <1>1, <2>1, RowAnswer, FinishInv DEF CancelGet
    <2>2. CASE ~IsPaid(rows[t]) /\ rows[t].cancelled
      BY <1>0, <1>1, <2>2, RowAnswer, FinishInv DEF CancelGet
    <2>3. CASE ~IsPaid(rows[t]) /\ ~rows[t].cancelled
      <3>. DEFINE next == IF rows[t].stored THEN "cancel.mark" ELSE "cancel.ensure"
      <3>1. Goto(h, next)
        BY <2>3 DEF CancelGet
      <3>2. next \in PcValue
        BY DEF PcValue
      <3>3. CallOK([call[h] EXCEPT !.pc = next], mined', rows')
        BY <1>0, <3>2, NextPc DEF CallOK
      <3>. QED
        BY <1>1, <3>1, <3>3, GotoInv
    <2>. QED
      BY <2>1, <2>2, <2>3
  <1>3. WorldInv'
    BY DEF IInv, WorldInv, CancelGet, store, world
  <1>. QED
    BY <1>1, <1>2, <1>3 DEF IInv

LEMMA CancelEnsureInv ==
  ASSUME IInv, NEW h \in Handler, CancelEnsure(h)
  PROVE  IInv' /\ Grows /\ SamePaid
  <1>. DEFINE t == call[h].token
  <1>0. /\ call[h] \in Call /\ CallOK(call[h], mined, rows) /\ t \in Token
        /\ call[h].pc = "cancel.ensure" /\ mined' = mined
    BY RunningCall DEF CancelEnsure, At, world
  <1>1. StoreInv' /\ Grows /\ SamePaid
    BY <1>0, MergeRow DEF CancelEnsure
  <1>2. rows'[t].stored
    BY <1>0 DEF CancelEnsure, IInv, StoreInv, MergePayRecord, BlankRecord,
                AbsentRecord, PayRecord
  <1>3. CallOK([call[h] EXCEPT !.pc = "cancel.mark"], mined', rows')
    BY <1>0, <1>2, GoesOn
  <1>4. LocalInv'
    BY <1>1, <1>3, GotoInv DEF CancelEnsure
  <1>5. WorldInv'
    BY DEF IInv, WorldInv, CancelEnsure, world
  <1>. QED
    BY <1>1, <1>4, <1>5 DEF IInv

LEMMA CancelMarkInv ==
  ASSUME IInv, NEW h \in Handler, CancelMark(h)
  PROVE  IInv' /\ Grows /\ SamePaid
  <1>. DEFINE t    == call[h].token
              next == NextCancelledRecord(t, rows[t], call[h].at, now)
  <1>0. /\ call[h] \in Call /\ CallOK(call[h], mined, rows) /\ t \in Token
        /\ call[h].pc = "cancel.mark" /\ mined' = mined
        /\ rows' = [rows EXCEPT ![t] = next] /\ rows'[t] = next
    BY RunningCall DEF CancelMark, At, world, IInv, StoreInv
  <1>1. /\ rows[t].stored
        /\ call[h].at \in Nat \cup {NoTime}
        /\ Version[t] = 2 => call[h].at # NoTime
    BY <1>0 DEF CallOK, Call
  <1>2. /\ StoreInv' /\ Grows /\ SamePaid
        /\ rows'[t].cancelled => rows'[t].cancelledAt # NoTime
    BY <1>0, <1>1, CancelRow
  <1>3. RowOK(t, next, mined') /\ next \in PayRecord
    BY <1>0, <1>2 DEF StoreInv
  <1>. HIDE DEF next
  <1>4. ASSUME next.cancelled /\ Finish(h, CancelledAnswer(t))
        PROVE  LocalInv'
    <2>1. AnswerOK(CancelledAnswer(t), rows')
      BY <1>0, <1>2, <1>4 DEF AnswerOK, CancelledAnswer, Answer
    <2>. QED
      BY <1>2, <1>4, <2>1, FinishInv
  <1>5. ASSUME IsPaid(next) /\ Finish(h, PaidAnswer(t, next.paidTx))
        PROVE  LocalInv'
    <2>1. next.paidTx \in Tx
      BY <1>3, <1>5 DEF IsPaid, PayRecord
    <2>2. AnswerOK(PaidAnswer(t, next.paidTx), rows')
      BY <1>0, <2>1 DEF AnswerOK, PaidAnswer, Answer
    <2>. QED
      BY <1>2, <1>5, <2>2, FinishInv
  <1>6. ASSUME Finish(h, NoAnswer)
        PROVE  LocalInv'
    BY <1>2, <1>6, IdleOK, FinishInv
  <1>7. LocalInv'
    BY <1>4, <1>5, <1>6 DEF CancelMark, next
  <1>8. WorldInv'
    BY <1>0 DEF IInv, WorldInv, CancelMark, world
  <1>. QED
    BY <1>2, <1>7, <1>8 DEF IInv

-----------------------------------------------------------------------------
(* submit.                                                                 *)

LEMMA SubmitSettledInv ==
  ASSUME IInv, NEW h \in Handler, NEW t \in Token, NEW x \in Tx, SubmitSettled(h, t, x)
  PROVE  IInv' /\ Grows /\ SamePaid
  <1>1. StoreInv' /\ Grows /\ SamePaid
    BY StoreUnchanged DEF SubmitSettled, store, world
  <1>2. AnswerOK(PaidAnswer(t, x), rows')
    BY RowAnswer DEF SubmitSettled, store, IsPaid
  <1>3. LocalInv'
    BY <1>1, <1>2, FinishInv DEF SubmitSettled
  <1>4. WorldInv'
    BY DEF IInv, WorldInv, SubmitSettled, store, world
  <1>. QED
    BY <1>1, <1>3, <1>4 DEF IInv

LEMMA StartSubmitInv ==
  ASSUME IInv, NEW h \in Handler, NEW t \in Token, NEW x \in Tx, StartSubmit(h, t, x)
  PROVE  IInv' /\ Grows /\ SamePaid
  <1>1. StoreInv' /\ Grows /\ SamePaid
    BY StoreUnchanged DEF StartSubmit, store, world
  <1>2. ASSUME NEW next \in {"submit.verify", "submit.candidate"}
        PROVE  CallOK([NoCall EXCEPT !.pc = next, !.token = t, !.tx = x], mined', rows')
    BY <1>2, EmptySeq DEF NoCall, CallOK, Call, PcValue
  <1>3. LocalInv'
    BY <1>1, <1>2, BeginInv DEF StartSubmit
  <1>4. WorldInv'
    BY DEF IInv, WorldInv, StartSubmit, store, world
  <1>. QED
    BY <1>1, <1>3, <1>4 DEF IInv

LEMMA SubmitCandidateInv ==
  ASSUME IInv, NEW h \in Handler, SubmitCandidate(h)
  PROVE  IInv' /\ Grows /\ SamePaid
  <1>0. /\ call[h] \in Call /\ CallOK(call[h], mined, rows)
        /\ call[h].token \in Token /\ call[h].tx \in Tx
        /\ call[h].pc = "submit.candidate" /\ mined' = mined
    BY RunningCall DEF SubmitCandidate, At, world, CallOK
  <1>1. StoreInv' /\ Grows /\ SamePaid
    BY <1>0, CandidateRow DEF SubmitCandidate
  <1>2. CallOK([call[h] EXCEPT !.pc = "submit.verify"], mined', rows')
    BY <1>0, GoesOn
  <1>3. LocalInv'
    BY <1>1, <1>2, GotoInv DEF SubmitCandidate
  <1>4. WorldInv'
    BY DEF IInv, WorldInv, SubmitCandidate, world
  <1>. QED
    BY <1>1, <1>3, <1>4 DEF IInv

LEMMA SubmitVerifyInv ==
  ASSUME IInv, NEW h \in Handler, SubmitVerify(h)
  PROVE  IInv' /\ Grows /\ SamePaid
  <1>0. /\ call[h] \in Call /\ CallOK(call[h], mined, rows)
        /\ call[h].token \in Token /\ call[h].tx \in Tx
        /\ call[h].pc = "submit.verify" /\ mined' = mined /\ rows' = rows
    BY RunningCall DEF SubmitVerify, At, world, store, CallOK
  <1>1. StoreInv' /\ Grows /\ SamePaid
    BY <1>0, StoreUnchanged
  <1>2. ASSUME IsProof(call[h].token, call[h].tx) /\ Goto(h, "settle")
        PROVE  LocalInv'
    <2>1. Proves(mined', call[h].token, call[h].tx)
      BY <1>0, <1>2 DEF Proves, IsProof
    <2>2. CallOK([call[h] EXCEPT !.pc = "settle"], mined', rows')
      BY <1>0, <2>1, NextPc DEF CallOK, PcValue
    <2>. QED
      BY <1>1, <1>2, <2>2, GotoInv
  <1>3. ASSUME Finish(h, NoAnswer)
        PROVE  LocalInv'
    BY <1>1, <1>3, IdleOK, FinishInv
  <1>4. LocalInv'
    BY <1>2, <1>3 DEF SubmitVerify
  <1>5. WorldInv'
    BY DEF IInv, WorldInv, SubmitVerify, store, world
  <1>. QED
    BY <1>1, <1>4, <1>5 DEF IInv

-----------------------------------------------------------------------------
(* The settling step of submit and of reconcile.                           *)

LEMMA OutboxType ==
  ASSUME IInv, NEW t \in Token, NEW x \in Tx, SettleAndEnqueue(t, x)
  PROVE  outbox' \in [Endpoint -> [EventIds -> Nat]]
  <1>1. outbox \in [Endpoint -> [EventIds -> Nat]]
    BY DEF IInv, WorldInv
  <1>2. EventId(t, x) \in EventIds
    BY DEF EventId, EventIds
  <1>. DEFINE v == EventId(t, x)
              more(e) == [outbox[e] EXCEPT ![v] = @ + 1]
  <1>3. ASSUME NEW e \in Endpoint
        PROVE  more(e) \in [EventIds -> Nat]
    <2>1. outbox[e] \in [EventIds -> Nat] /\ v \in EventIds
      BY <1>1, <1>2
    <2>. HIDE DEF v
    <2>. QED
      BY <2>1
  <1>4. EnqueuePaymentPaid(t, x) \in [Endpoint -> [EventIds -> Nat]]
    <2>. HIDE DEF more
    <2>1. \A e \in Endpoint :
             EnqueuePaymentPaid(t, x)[e] \in {more(e), outbox[e]}
      BY DEF EnqueuePaymentPaid, more
    <2>2. EnqueuePaymentPaid(t, x) =
             [e \in Endpoint |-> EnqueuePaymentPaid(t, x)[e]]
      BY DEF EnqueuePaymentPaid
    <2>3. \A e \in Endpoint : EnqueuePaymentPaid(t, x)[e] \in [EventIds -> Nat]
      BY <1>1, <1>3, <2>1
    <2>. QED
      BY <2>2, <2>3
  <1>. QED
    BY <1>1, <1>4 DEF SettleAndEnqueue

LEMMA SettleAndAnswerInv ==
  ASSUME IInv, NEW h \in Handler, SettleAndAnswer(h)
  PROVE  IInv' /\ Grows
  <1>. DEFINE t == call[h].token
              x == call[h].tx
  <1>0. t \in Token /\ x \in Tx /\ Proves(mined, t, x) /\ mined' = mined
    BY RunningCall DEF SettleAndAnswer, At, world, CallOK
  <1>1. /\ StoreInv' /\ Grows
        /\ SettleCode(rows, t, x, mined[x]) \in {"settled", "already_settled"}
             => rows'[t].paidTx = x
    BY <1>0, SettleRow DEF SettleAndAnswer, SettleAndEnqueue
  <1>2. ASSUME rows'[t].paidTx = x, Finish(h, PaidAnswer(t, x))
        PROVE  LocalInv'
    <2>1. AnswerOK(PaidAnswer(t, x), rows')
      BY <1>0, <1>2 DEF AnswerOK, PaidAnswer, Answer
    <2>. QED
      BY <1>1, <1>2, <2>1, FinishInv
  <1>3. ASSUME Finish(h, NoAnswer)
        PROVE  LocalInv'
    BY <1>1, <1>3, IdleOK, FinishInv
  <1>4. LocalInv'
    BY <1>1, <1>2, <1>3 DEF SettleAndAnswer
  <1>5. WorldInv'
    BY <1>0, OutboxType DEF IInv, WorldInv, SettleAndAnswer, world
  <1>. QED
    BY <1>1, <1>4, <1>5 DEF IInv

-----------------------------------------------------------------------------
(* reconcile.                                                              *)

LEMMA WithoutHashType ==
  ASSUME NEW s \in Seq(Tx), NEW x \in Tx
  PROVE  WithoutHash(s, x) \in Seq(Tx)
  <1>1. ASSUME NEW i \in 1..Len(s)
        PROVE  SubSeq(s, 1, i - 1) \o SubSeq(s, i + 1, Len(s)) \in Seq(Tx)
    <2>1. Len(s) \in Nat /\ \A j \in 1..Len(s) : s[j] \in Tx
      BY LenProperties, ElementOfSeq
    <2>2. \A j \in 1..(i - 1) : s[j] \in Tx
      BY <2>1
    <2>3. \A j \in (i + 1)..Len(s) : s[j] \in Tx
      BY <2>1
    <2>4. SubSeq(s, 1, i - 1) \in Seq(Tx)
      BY <2>1, <2>2, SubSeqProperties
    <2>5. SubSeq(s, i + 1, Len(s)) \in Seq(Tx)
      BY <2>1, <2>3, SubSeqProperties
    <2>. QED
      BY <2>4, <2>5, ConcatProperties
  <1>. QED
    BY <1>1 DEF WithoutHash

LEMMA CandidatesType ==
  ASSUME NEW row \in PayRecord, NEW given \in Tx \cup {NoTx}
  PROVE  Candidates(row, given) \in Seq(Tx)
  <1>. DEFINE all == IF given = NoTx THEN row.submitted
                     ELSE <<given>> \o WithoutHash(row.submitted, given)
              n   == IF Len(all) < MaxSubmitCandidates
                     THEN Len(all) ELSE MaxSubmitCandidates
  <1>1. row.submitted \in Seq(Tx)
    BY DEF PayRecord
  <1>2. all \in Seq(Tx)
    <2>1. given \in Tx => <<given>> \in Seq(Tx)
      OBVIOUS
    <2>. QED
      BY <1>1, <2>1, WithoutHashType, ConcatProperties
  <1>. HIDE DEF all
  <1>3. /\ Len(all) \in Nat /\ \A j \in 1..Len(all) : all[j] \in Tx
    BY <1>2, LenProperties, ElementOfSeq
  <1>4. n \in Nat /\ \A j \in 1..n : all[j] \in Tx
    BY <1>3
  <1>. HIDE DEF n
  <1>5. SubSeq(all, 1, n) \in Seq(Tx)
    BY <1>4, SubSeqProperties
  <1>. QED
    BY <1>5 DEF Candidates, all, n

LEMMA ReconcileSettledInv ==
  ASSUME IInv, NEW h \in Handler, NEW t \in Token, ReconcileSettled(h, t)
  PROVE  IInv' /\ Grows /\ SamePaid
  <1>1. StoreInv' /\ Grows /\ SamePaid
    BY StoreUnchanged DEF ReconcileSettled, store, world
  <1>2. AnswerOK(PaidAnswer(t, rows[t].paidTx), rows')
    BY RowAnswer DEF ReconcileSettled, store
  <1>3. LocalInv'
    BY <1>1, <1>2, FinishInv DEF ReconcileSettled
  <1>4. WorldInv'
    BY DEF IInv, WorldInv, ReconcileSettled, store, world
  <1>. QED
    BY <1>1, <1>3, <1>4 DEF IInv

LEMMA StartReconcileInv ==
  ASSUME IInv, NEW h \in Handler, NEW t \in Token, NEW given \in Tx \cup {NoTx},
         StartReconcile(h, t, given)
  PROVE  IInv' /\ Grows /\ SamePaid
  <1>. DEFINE q == Candidates(rows[t], given)
              c == [NoCall EXCEPT !.pc = "reconcile.verify", !.token = t, !.queue = q]
  <1>1. StoreInv' /\ Grows /\ SamePaid
    BY StoreUnchanged DEF StartReconcile, store, world
  <1>2. q \in Seq(Tx)
    BY CandidatesType DEF IInv, StoreInv
  <1>3. CallOK(c, mined', rows')
    <2>. HIDE DEF q
    <2>. QED
      BY <1>2 DEF NoCall, CallOK, Call, PcValue
  <1>4. LocalInv'
    BY <1>1, <1>3, BeginInv DEF StartReconcile
  <1>5. WorldInv'
    BY DEF IInv, WorldInv, StartReconcile, store, world
  <1>. QED
    BY <1>1, <1>4, <1>5 DEF IInv

LEMMA ReconcileVerifyInv ==
  ASSUME IInv, NEW h \in Handler, ReconcileVerify(h)
  PROVE  IInv' /\ Grows /\ SamePaid
  <1>. DEFINE c == call[h]
              x == Head(c.queue)
              q == Tail(c.queue)
  <1>0. /\ c \in Call /\ CallOK(c, mined, rows) /\ c.token \in Token
        /\ c.pc = "reconcile.verify" /\ mined' = mined /\ rows' = rows
    BY RunningCall DEF ReconcileVerify, At, world, store
  <1>1. x \in Tx /\ q \in Seq(Tx)
    BY <1>0, HeadTailProperties DEF Call, ReconcileVerify
  <1>2. StoreInv' /\ Grows /\ SamePaid
    BY <1>0, StoreUnchanged
  <1>. HIDE DEF c, x, q
  <1>3. ASSUME Proves(mined, c.token, x)
        PROVE  CallOK([c EXCEPT !.pc = "reconcile.settle", !.tx = x, !.queue = q],
                      mined', rows')
    BY <1>0, <1>1, <1>3 DEF CallOK, Call, PcValue
  <1>4. CallOK([c EXCEPT !.queue = q], mined', rows')
    BY <1>0, <1>1 DEF CallOK, Call, PcValue
  <1>5. PICK d : CallOK(d, mined', rows') /\ call' = [call EXCEPT ![h] = d]
    <2>1. CASE IsProof(c.token, x)
      <3>1. Proves(mined, c.token, x)
        BY <2>1 DEF Proves, IsProof
      <3>2. call' = [call EXCEPT ![h] =
                       [c EXCEPT !.pc = "reconcile.settle", !.tx = x, !.queue = q]]
        BY <2>1 DEF ReconcileVerify, c, x, q
      <3>. QED
        BY <1>3, <3>1, <3>2
    <2>2. CASE ~IsProof(c.token, x)
      <3>1. call' = [call EXCEPT ![h] = [c EXCEPT !.queue = q]]
        BY <2>2 DEF ReconcileVerify, c, x, q
      <3>. QED
        BY <1>4, <3>1
    <2>. QED
      BY <2>1, <2>2
  <1>6. LocalInv'
    BY <1>2, <1>5, MoveInv DEF ReconcileVerify
  <1>7. WorldInv'
    BY DEF IInv, WorldInv, ReconcileVerify, store, world
  <1>. QED
    BY <1>2, <1>6, <1>7 DEF IInv

LEMMA ReconcileSettleInv ==
  ASSUME IInv, NEW h \in Handler, ReconcileSettle(h)
  PROVE  IInv' /\ Grows
  <1>. DEFINE t == call[h].token
              x == call[h].tx
  <1>0. /\ call[h] \in Call /\ CallOK(call[h], mined, rows)
        /\ t \in Token /\ x \in Tx /\ Proves(mined, t, x) /\ mined' = mined
    BY RunningCall DEF ReconcileSettle, At, world, CallOK
  <1>1. /\ StoreInv' /\ Grows
        /\ SettleCode(rows, t, x, mined[x]) \in {"settled", "already_settled"}
             => rows'[t].paidTx = x
    BY <1>0, SettleRow DEF ReconcileSettle, SettleAndEnqueue
  <1>2. ASSUME rows'[t].paidTx = x, Finish(h, PaidAnswer(t, x))
        PROVE  LocalInv'
    <2>1. AnswerOK(PaidAnswer(t, x), rows')
      BY <1>0, <1>2 DEF AnswerOK, PaidAnswer, Answer
    <2>. QED
      BY <1>1, <1>2, <2>1, FinishInv
  <1>3. ASSUME Goto(h, "reconcile.verify")
        PROVE  LocalInv'
    <2>1. CallOK([call[h] EXCEPT !.pc = "reconcile.verify"], mined', rows')
      BY <1>0, NextPc DEF CallOK, PcValue
    <2>. QED
      BY <1>1, <1>3, <2>1, GotoInv
  <1>4. ASSUME Finish(h, NoAnswer)
        PROVE  LocalInv'
    BY <1>1, <1>4, IdleOK, FinishInv
  <1>5. LocalInv'
    BY <1>1, <1>2, <1>3, <1>4 DEF ReconcileSettle
  <1>6. WorldInv'
    BY <1>0, OutboxType DEF IInv, WorldInv, ReconcileSettle, world
  <1>. QED
    BY <1>1, <1>5, <1>6 DEF IInv

LEMMA ReconcileScanInv ==
  ASSUME IInv, NEW h \in Handler, ReconcileScan(h)
  PROVE  IInv' /\ Grows /\ SamePaid
  <1>. DEFINE c == call[h]
  <1>0. /\ c \in Call /\ CallOK(c, mined, rows) /\ c.token \in Token
        /\ mined' = mined /\ rows' = rows
    BY RunningCall DEF ReconcileScan, At, world, store
  <1>1. StoreInv' /\ Grows /\ SamePaid
    BY <1>0, StoreUnchanged
  <1>2. ASSUME NEW x \in Newest(InWindow(c.token)),
               call' = [call EXCEPT ![h].pc = "settle", ![h].tx = x],
               UNCHANGED answer
        PROVE  LocalInv'
    <2>. DEFINE d == [c EXCEPT !.pc = "settle", !.tx = x]
    <2>1. x \in Tx /\ Proves(mined, c.token, x)
      BY <1>2 DEF Newest, InWindow, IsProof, Proves
    <2>2. CallOK(d, mined', rows')
      <3>. HIDE DEF c
      <3>. QED
        BY <1>0, <2>1 DEF CallOK, Call, PcValue
    <2>3. call' = [call EXCEPT ![h] = d]
      BY <1>2 DEF IInv, LocalInv
    <2>. QED
      BY <1>1, <1>2, <2>2, <2>3, MoveInv
  <1>3. ASSUME Finish(h, NoAnswer)
        PROVE  LocalInv'
    BY <1>1, <1>3, IdleOK, FinishInv
  <1>4. LocalInv'
    BY <1>2, <1>3 DEF ReconcileScan
  <1>5. WorldInv'
    BY DEF IInv, WorldInv, ReconcileScan, store, world
  <1>. QED
    BY <1>1, <1>4, <1>5 DEF IInv

-----------------------------------------------------------------------------
(* Failure, the merchant's endpoints, the chain and the clocks.            *)

LEMMA FailInv ==
  ASSUME IInv, NEW h \in Handler, Fail(h)
  PROVE  IInv' /\ Grows /\ SamePaid
  <1>1. StoreInv' /\ Grows /\ SamePaid
    BY StoreUnchanged DEF Fail, store, world
  <1>2. LocalInv'
    BY <1>1, IdleOK, FinishInv DEF Fail
  <1>3. WorldInv'
    BY DEF IInv, WorldInv, Fail, store, world
  <1>. QED
    BY <1>1, <1>2, <1>3 DEF IInv

LEMMA EnvironmentInv ==
  ASSUME IInv, Environment
  PROVE  IInv' /\ Grows /\ SamePaid
  <1>1. StoreInv' /\ Grows /\ SamePaid
    BY MineStore, StoreUnchanged
       DEF Environment, SetSubscription, NewBlock, Tick, store, world
  <1>2. UNCHANGED <<call, answer>>
    BY DEF Environment, SetSubscription, Mine, NewBlock, Tick
  <1>3. LocalInv'
    BY <1>1, <1>2, LocalUnchanged
  <1>4. WorldInv'
    <2>1. ASSUME NEW e \in Endpoint, SetSubscription(e)
          PROVE  WorldInv'
      BY <2>1 DEF IInv, WorldInv, SetSubscription, store, world
    <2>2. ASSUME NEW x \in Tx, Mine(x)
          PROVE  WorldInv'
      BY <2>2 DEF IInv, WorldInv, Mine, store
    <2>3. ASSUME NewBlock \/ Tick
          PROVE  WorldInv'
      BY <2>3 DEF IInv, WorldInv, NewBlock, Tick, store
    <2>. QED
      BY <2>1, <2>2, <2>3 DEF Environment
  <1>. QED
    BY <1>1, <1>3, <1>4 DEF IInv

-----------------------------------------------------------------------------
(* All steps together.                                                     *)

LEMMA ArriveInv ==
  ASSUME IInv, NEW h \in Handler, Arrive(h)
  PROVE  IInv' /\ Grows /\ SamePaid
  BY StartRegisterInv, ViewInv, StartCancelInv, CancelExpiredInv, StartSubmitInv,
     SubmitSettledInv, ReconcileSettledInv, StartReconcileInv
     DEF Arrive

LEMMA HandlerStepInv ==
  ASSUME IInv, NEW h \in Handler, Step(h)
  PROVE  IInv' /\ Grows
  BY RegisterCreateInv, CancelGetInv, CancelEnsureInv, CancelMarkInv,
     SubmitCandidateInv, SubmitVerifyInv, SettleAndAnswerInv,
     ReconcileVerifyInv, ReconcileSettleInv, ReconcileScanInv
     DEF Step

LEMMA StepInv == IInv /\ [Next]_vars => IInv' /\ Grows
  <1>. SUFFICES ASSUME IInv, [Next]_vars
                PROVE  IInv' /\ Grows
    OBVIOUS
  <1>1. ASSUME NEW h \in Handler, Arrive(h) \/ Step(h) \/ Fail(h)
        PROVE  IInv' /\ Grows
    BY <1>1, ArriveInv, HandlerStepInv, FailInv
  <1>2. CASE Environment
    BY <1>2, EnvironmentInv
  <1>3. CASE UNCHANGED vars
    <2>1. UNCHANGED <<rows, mined>> /\ UNCHANGED <<call, answer>> /\ WorldInv'
      BY <1>3 DEF vars, IInv, WorldInv
    <2>2. StoreInv' /\ Grows
      BY <2>1, StoreUnchanged
    <2>. QED
      BY <2>1, <2>2, LocalUnchanged DEF IInv
  <1>. QED
    BY <1>1, <1>2, <1>3 DEF Next

LEMMA Invariance == Spec => []IInv
  BY InitInv, StepInv, PTL DEF Spec

-----------------------------------------------------------------------------
(* The properties of the rows.                                             *)

(* Types, and the cap on the candidates of a row.                          *)
THEOREM SettlementTypeOK == Spec => []TypeOK
  <1>1. IInv => TypeOK
    BY DEF IInv, StoreInv, LocalInv, WorldInv, RowOK, TypeOK
  <1>. QED
    BY <1>1, Invariance, PTL

(* No transaction settles two rows.                                        *)
THEOREM SettlementOneRowPerTx == Spec => []OneRowPerTx
  <1>1. IInv => OneRowPerTx
    BY DEF IInv, StoreInv
  <1>. QED
    BY <1>1, Invariance, PTL

(* No two V2 rows with one request id are both paid.                       *)
THEOREM SettlementOnePaidRowPerId == Spec => []OnePaidRowPerId
  <1>1. IInv => OnePaidRowPerId
    BY DEF IInv, StoreInv
  <1>. QED
    BY <1>1, Invariance, PTL

(* What paid a row is a proof of payment for its link.                     *)
THEOREM SettlementPaidIsProven == Spec => []PaidIsProven
  <1>1. IInv => PaidIsProven
    BY DEF IInv, StoreInv, RowOK, Proves, PaidIsProven, IsProof, IsPaid
  <1>. QED
    BY <1>1, Invariance, PTL

(* A paid row was paid before any cancellation it carries.                 *)
THEOREM SettlementPaidBeforeCancelled == Spec => []PaidBeforeCancelled
  <1>1. IInv => PaidBeforeCancelled
    BY DEF IInv, StoreInv, RowOK, PaidBeforeCancelled, IsPaid
  <1>. QED
    BY <1>1, Invariance, PTL

(* A late settlement is one mined at or after the cancellation.            *)
THEOREM SettlementLateIsAfterCancel == Spec => []LateIsAfterCancel
  <1>1. IInv => LateIsAfterCancel
    BY DEF IInv, StoreInv, RowOK, LateIsAfterCancel
  <1>. QED
    BY <1>1, Invariance, PTL

(* Settlements on record, in time or late, are as block time has them.     *)
THEOREM SettlementSettlementsAreDue == Spec => []SettlementsAreDue
  <1>1. PaidIsProven /\ PaidBeforeCancelled /\ LateIsAfterCancel => SettlementsAreDue
    BY DEF SettlementsAreDue
  <1>. QED
    BY <1>1, SettlementPaidIsProven, SettlementPaidBeforeCancelled,
       SettlementLateIsAfterCancel, PTL

(* No answer given is ever belied by the store.                            *)
THEOREM SettlementAnswersStayTrue == Spec => []AnswersStayTrue
  <1>1. ASSUME IInv, NEW h \in Handler
        PROVE  /\ answer[h].kind = "paid" => rows[answer[h].token].paidTx = answer[h].tx
               /\ answer[h].kind = "cancelled" =>
                    \/ rows[answer[h].token].cancelled
                    \/ /\ IsPaid(rows[answer[h].token])
                       /\ rows[answer[h].token].paidAt
                            < rows[answer[h].token].cancelledAt
    <2>. DEFINE t == answer[h].token
    <2>1. AnswerOK(answer[h], rows)
      BY <1>1 DEF IInv, LocalInv
    <2>2. \A u \in Token : RowOK(u, rows[u], mined)
      BY <1>1 DEF IInv, StoreInv
    <2>. QED
      BY <2>1, <2>2 DEF AnswerOK, RowOK, IsPaid
  <1>2. IInv => AnswersStayTrue
    BY <1>1 DEF AnswersStayTrue
  <1>. QED
    BY <1>2, Invariance, PTL

(* A settlement is for good.                                               *)
THEOREM SettlementPaidForGood == Spec => PaidForGood
  <1>1. IInv /\ [Next]_vars =>
          [\A t \in Token : IsPaid(rows[t]) =>
              rows'[t].paidTx = rows[t].paidTx /\ rows'[t].paidAt = rows[t].paidAt]_rows
    BY StepInv DEF Grows, IsPaid
  <1>. QED
    BY <1>1, Invariance, PTL DEF Spec, PaidForGood

(* The guards of mutatePayStoreBlob find nothing to put back.              *)
THEOREM SettlementGuardsAreIdle == Spec => GuardsAreIdle
  <1>1. ASSUME NEW t \in Token, IInv', Grows, IInv
        PROVE  PreserveDurableFlags(rows[t], rows'[t]) = rows'[t]
    <2>. DEFINE stored == rows[t]
                next == rows'[t]
    <2>1. /\ stored \in PayRecord /\ next \in PayRecord
          /\ RowOK(t, stored, mined) /\ RowOK(t, next, mined')
      BY <1>1 DEF IInv, StoreInv
    <2>2. /\ ~(stored.stored /\ ~next.stored)
          /\ ~(IsPaid(stored) /\ ~IsPaid(next))
          /\ ~(stored.lateTx # NoTx /\ next.lateTx = NoTx)
      BY <1>1 DEF Grows, IsPaid
    <2>3. ~(/\ stored.cancelled /\ ~next.cancelled
            /\ ~IsPaid(stored) /\ ~IsPaid(next))
      BY <1>1, <2>1 DEF Grows, RowOK, IsPaid
    <2>. HIDE DEF stored, next
    <2>4. /\ next.cancelled \in BOOLEAN
          /\ next = [stored |-> next.stored, viewed |-> next.viewed,
                     submitted |-> next.submitted, paidTx |-> next.paidTx,
                     paidAt |-> next.paidAt, cancelled |-> next.cancelled,
                     cancelledAt |-> next.cancelledAt, lateTx |-> next.lateTx]
      BY <2>1 DEF PayRecord
    <2>5. PreserveDurableFlags(stored, next) =
            [stored |-> next.stored, viewed |-> next.viewed,
             submitted |-> next.submitted, paidTx |-> next.paidTx,
             paidAt |-> next.paidAt, cancelled |-> next.cancelled \/ FALSE,
             cancelledAt |-> next.cancelledAt, lateTx |-> next.lateTx]
      BY <2>2, <2>3, Zenon DEF PreserveDurableFlags
    <2>6. (next.cancelled \/ FALSE) = next.cancelled
      BY <2>4
    <2>. QED
      BY <2>4, <2>5, <2>6, Zenon DEF stored, next
  <1>2. IInv /\ IInv' /\ [Next]_vars =>
          [\A t \in Token : PreserveDurableFlags(rows[t], rows'[t]) = rows'[t]]_rows
    BY <1>1, StepInv
  <1>. QED
    BY <1>2, Invariance, PTL DEF Spec, GuardsAreIdle

-----------------------------------------------------------------------------
(* The outbox.                                                             *)

QueuedNow(e, i, x) ==
    \E t \in Token : /\ BecomesPaid(t) /\ rows'[t].paidTx = x
                     /\ IdOf[t] = i /\ e \in Subscribers(t)

Queues ==
    \A e \in Endpoint, i \in RequestId, x \in Tx :
        outbox'[e][<<i, x>>] - outbox[e][<<i, x>>] =
            IF QueuedNow(e, i, x) THEN 1 ELSE 0

LEMMA NothingQueued ==
  ASSUME IInv, OutboxInv, SamePaid, UNCHANGED outbox
  PROVE  OutboxInv' /\ Queues
  <1>1. \A e \in Endpoint, i \in RequestId, x \in Tx :
           /\ outbox[e][<<i, x>>] \in Nat
           /\ ~QueuedNow(e, i, x)
    BY DEF IInv, WorldInv, EventIds, SamePaid, QueuedNow, BecomesPaid, IsPaid
  <1>2. Queues
    <2>1. ASSUME NEW e \in Endpoint, NEW i \in RequestId, NEW x \in Tx
          PROVE  (IF QueuedNow(e, i, x) THEN 1 ELSE 0) = 0
      BY <1>1, Zenon
    <2>2. ASSUME NEW e \in Endpoint, NEW i \in RequestId, NEW x \in Tx
          PROVE  outbox'[e][<<i, x>>] - outbox[e][<<i, x>>] = 0
      BY <1>1
    <2>. QED
      BY <2>1, <2>2 DEF Queues
  <1>3. OutboxInv'
    BY DEF OutboxInv, SamePaid
  <1>. QED
    BY <1>2, <1>3

(* The hash that settles a row has settled nothing before, so its event is *)
(* not in the outbox yet.                                                  *)
LEMMA SettleQueues ==
  ASSUME IInv, OutboxInv, NEW t \in Token, NEW x \in Tx, Proves(mined, t, x),
         SettleAndEnqueue(t, x), UNCHANGED mined
  PROVE  OutboxInv' /\ Queues
  <1>. DEFINE code == SettleCode(rows, t, x, mined[x])
              v    == EventId(t, x)
  <1>1. rows \in [Token -> PayRecord] /\ outbox \in [Endpoint -> [EventIds -> Nat]]
    BY DEF IInv, StoreInv, WorldInv
  <1>2. Grows
    BY SettleRow DEF SettleAndEnqueue
  <1>3. CASE code = "settled"
    <2>1. /\ rows[t].paidTx = NoTx
          /\ \A u \in Token : rows[u].paidTx # x
      BY <1>3 DEF SettleCode, SettlesAnother, IsPaid
    <2>2. rows' = [rows EXCEPT ![t] = NextPaidRecord(t, rows[t], x, mined[x])]
      BY <1>3 DEF SettleAndEnqueue, ApplySettlement
    <2>3. NextPaidRecord(t, rows[t], x, mined[x]).paidTx = x
      BY <1>1 DEF NextPaidRecord, PayRecord
    <2>4. rows'[t].paidTx = x /\ \A u \in Token \ {t} : rows'[u] = rows[u]
      BY <1>1, <2>2, <2>3
    <2>5. \A u \in Token : BecomesPaid(u) <=> u = t
      BY <2>1, <2>4 DEF BecomesPaid, IsPaid
    <2>6. v = <<IdOf[t], x>> /\ v \in EventIds /\ IdOf[t] \in RequestId
      BY DEF EventId, EventIds
    <2>7. \A e \in Endpoint : outbox[e][v] = 0
      BY <2>1, <2>6 DEF OutboxInv
    <2>8. outbox' = EnqueuePaymentPaid(t, x)
      BY <1>3 DEF SettleAndEnqueue
    <2>9. ASSUME NEW e \in Endpoint, NEW i \in RequestId, NEW y \in Tx
          PROVE  /\ outbox'[e][<<i, y>>] =
                      IF e \in Subscribers(t) /\ <<i, y>> = v
                      THEN outbox[e][<<i, y>>] + 1 ELSE outbox[e][<<i, y>>]
                 /\ outbox[e][<<i, y>>] \in Nat
      <3>1. <<i, y>> \in EventIds /\ outbox[e] \in [EventIds -> Nat]
        BY <1>1 DEF EventIds
      <3>2. CASE e \in Subscribers(t)
        <4>1. outbox'[e] = [outbox[e] EXCEPT ![v] = @ + 1]
          BY <2>7, <2>8, <3>2 DEF EnqueuePaymentPaid
        <4>. HIDE DEF v
        <4>. QED
          BY <2>6, <3>1, <3>2, <4>1
      <3>3. CASE e \notin Subscribers(t)
        BY <2>8, <3>1, <3>3 DEF EnqueuePaymentPaid
      <3>. QED
        BY <3>2, <3>3
    <2>10. Queues
      <3>1. ASSUME NEW e \in Endpoint, NEW i \in RequestId, NEW y \in Tx
            PROVE  QueuedNow(e, i, y) <=> e \in Subscribers(t) /\ <<i, y>> = v
        BY <2>4, <2>5, <2>6 DEF QueuedNow
      <3>2. ASSUME NEW e \in Endpoint, NEW i \in RequestId, NEW y \in Tx
            PROVE  (IF QueuedNow(e, i, y) THEN 1 ELSE 0) =
                      IF e \in Subscribers(t) /\ <<i, y>> = v THEN 1 ELSE 0
        BY <3>1, Zenon
      <3>. HIDE DEF v
      <3>3. ASSUME NEW e \in Endpoint, NEW i \in RequestId, NEW y \in Tx
            PROVE  outbox'[e][<<i, y>>] - outbox[e][<<i, y>>] =
                      IF e \in Subscribers(t) /\ <<i, y>> = v THEN 1 ELSE 0
        <4>1. CASE e \in Subscribers(t) /\ <<i, y>> = v
          BY <2>9, <4>1
        <4>2. CASE ~(e \in Subscribers(t) /\ <<i, y>> = v)
          BY <2>9, <4>2
        <4>. QED
          BY <4>1, <4>2
      <3>4. ASSUME NEW e \in Endpoint, NEW i \in RequestId, NEW y \in Tx
            PROVE  outbox'[e][<<i, y>>] - outbox[e][<<i, y>>] =
                      IF QueuedNow(e, i, y) THEN 1 ELSE 0
        BY <3>2, <3>3, Zenon
      <3>. QED
        BY <3>4, Zenon DEF Queues
    <2>11. OutboxInv'
      <3>1. ASSUME NEW e \in Endpoint, NEW i \in RequestId, NEW y \in Tx,
                   outbox'[e][<<i, y>>] # 0
            PROVE  \E u \in Token : rows'[u].paidTx = y
        <4>1. CASE <<i, y>> = v
          BY <2>4, <2>6, <4>1
        <4>2. CASE <<i, y>> # v
          <5>1. outbox[e][<<i, y>>] # 0
            BY <2>9, <3>1, <4>2
          <5>2. PICK u \in Token : rows[u].paidTx = y
            BY <5>1 DEF OutboxInv
          <5>. QED
            BY <1>2, <5>2 DEF Grows
        <4>. QED
          BY <4>1, <4>2
      <3>. QED
        BY <3>1 DEF OutboxInv
    <2>. QED
      BY <2>10, <2>11
  <1>4. CASE code # "settled"
    <2>1. UNCHANGED outbox
      BY <1>4 DEF SettleAndEnqueue
    <2>. DEFINE late == [rows[t] EXCEPT !.lateTx = x]
    <2>2. rows' = rows \/ rows' = [rows EXCEPT ![t] = late]
      BY <1>4 DEF SettleAndEnqueue, ApplySettlement
    <2>3. SamePaid
      <3>1. late.paidTx = rows[t].paidTx
        BY <1>1 DEF PayRecord
      <3>. HIDE DEF late
      <3>. QED
        BY <1>1, <2>2, <3>1 DEF SamePaid
    <2>. QED
      BY <2>1, <2>3, NothingQueued
  <1>. QED
    BY <1>3, <1>4

LEMMA StepQueues ==
  IInv /\ OutboxInv /\ [Next]_vars => OutboxInv' /\ Queues
  <1>. SUFFICES ASSUME IInv, OutboxInv, [Next]_vars
                PROVE  OutboxInv' /\ Queues
    OBVIOUS
  <1>1. ASSUME NEW h \in Handler, SettleAndAnswer(h)
        PROVE  OutboxInv' /\ Queues
    BY <1>1, RunningCall, SettleQueues DEF SettleAndAnswer, At, CallOK, world
  <1>2. ASSUME NEW h \in Handler, ReconcileSettle(h)
        PROVE  OutboxInv' /\ Queues
    BY <1>2, RunningCall, SettleQueues DEF ReconcileSettle, At, CallOK, world
  <1>3. ASSUME NEW h \in Handler, Arrive(h)
        PROVE  OutboxInv' /\ Queues
    <2>1. UNCHANGED outbox
      BY <1>3 DEF Arrive, StartRegister, View, StartCancel, CancelExpired,
                  StartSubmit, SubmitSettled, ReconcileSettled, StartReconcile, store
    <2>. QED
      BY <1>3, <2>1, ArriveInv, NothingQueued
  <1>4. ASSUME NEW h \in Handler,
               \/ RegisterCreate(h) \/ CancelGet(h) \/ CancelEnsure(h)
               \/ CancelMark(h) \/ SubmitCandidate(h) \/ SubmitVerify(h)
               \/ ReconcileVerify(h) \/ ReconcileScan(h) \/ Fail(h)
        PROVE  OutboxInv' /\ Queues
    <2>1. UNCHANGED outbox
      BY <1>4 DEF RegisterCreate, CancelGet, CancelEnsure, CancelMark,
                  SubmitCandidate, SubmitVerify, ReconcileVerify, ReconcileScan,
                  Fail, store
    <2>2. SamePaid
      BY <1>4, RegisterCreateInv, CancelGetInv, CancelEnsureInv, CancelMarkInv,
         SubmitCandidateInv, SubmitVerifyInv, ReconcileVerifyInv,
         ReconcileScanInv, FailInv
    <2>. QED
      BY <2>1, <2>2, NothingQueued
  <1>5. CASE Environment
    <2>1. UNCHANGED outbox
      BY <1>5 DEF Environment, SetSubscription, Mine, NewBlock, Tick, store
    <2>. QED
      BY <1>5, <2>1, EnvironmentInv, NothingQueued
  <1>6. CASE UNCHANGED vars
    BY <1>6, NothingQueued DEF vars, SamePaid
  <1>. QED
    BY <1>1, <1>2, <1>3, <1>4, <1>5, <1>6 DEF Next, Step

(* payment.paid enters the outbox in the step that pays the row, once for  *)
(* each subscribed endpoint of the payee, and never otherwise.             *)
THEOREM SettlementQueuedOnTransition == Spec => QueuedOnTransition
  <1>1. Init => OutboxInv
    BY DEF Init, OutboxInv, EventIds
  <1>2. Queues =>
          \A e \in Endpoint, i \in RequestId, x \in Tx :
             outbox'[e][<<i, x>>] - outbox[e][<<i, x>>] =
                IF \E t \in Token : /\ BecomesPaid(t) /\ rows'[t].paidTx = x
                                    /\ IdOf[t] = i /\ e \in Subscribers(t)
                THEN 1 ELSE 0
    BY DEF Queues, QueuedNow
  <1>. QED
    BY <1>1, <1>2, StepQueues, Invariance, PTL DEF Spec, QueuedOnTransition

-----------------------------------------------------------------------------
(* The lifecycle: what a reader sees of the rows follows PayLifecycle.     *)

RowPhase(t, row, n) == IF row.stored THEN PayPhase(t, row, n) ELSE "NONE"

PhaseOf == [t \in Token |-> RowPhase(t, rows[t], now)]
SettledBy == [t \in Token |-> rows[t].paidTx]

Follows == Lifecycle!Next \/ UNCHANGED <<PhaseOf, SettledBy>>

Unfinished == {"OPEN", "VIEWED", "EXPIRED"}

LEMMA FollowsCreate ==
  ASSUME NEW t \in Token, NEW p \in {"OPEN", "EXPIRED"}, PhaseOf[t] = "NONE",
         PhaseOf' = [PhaseOf EXCEPT ![t] = p], SettledBy' = SettledBy
  PROVE  Follows
  <1>1. Lifecycle!Create(t)
    BY DEF Lifecycle!Create, PhaseOf, SettledBy, RowPhase
  <1>. QED
    BY <1>1 DEF Follows, Lifecycle!Next

LEMMA FollowsView ==
  ASSUME NEW t \in Token, PhaseOf[t] = "OPEN",
         PhaseOf' = [PhaseOf EXCEPT ![t] = "VIEWED"], SettledBy' = SettledBy
  PROVE  Follows
  <1>1. Lifecycle!View(t)
    BY DEF Lifecycle!View, PhaseOf, SettledBy, RowPhase
  <1>. QED
    BY <1>1 DEF Follows, Lifecycle!Next

LEMMA FollowsCancel ==
  ASSUME NEW t \in Token, PhaseOf[t] \in Unfinished,
         PhaseOf' = [PhaseOf EXCEPT ![t] = "CANCELLED"], SettledBy' = SettledBy
  PROVE  Follows
  <1>1. Lifecycle!Cancel(t)
    BY DEF Lifecycle!Cancel, PhaseOf, SettledBy, RowPhase, Unfinished
  <1>. QED
    BY <1>1 DEF Follows, Lifecycle!Next

LEMMA FollowsPay ==
  ASSUME NEW t \in Token, NEW x \in Tx,
         PhaseOf[t] \in Unfinished \cup {"CANCELLED"},
         PhaseOf[t] = "CANCELLED" => Version[t] = 2,
         \A u \in Token : SettledBy[u] # x,
         \A u \in Token : Version[t] = 2 /\ Version[u] = 2 /\ IdOf[u] = IdOf[t]
                             => PhaseOf[u] # "PAID",
         PhaseOf' = [PhaseOf EXCEPT ![t] = "PAID"],
         SettledBy' = [SettledBy EXCEPT ![t] = x]
  PROVE  Follows
  <1>1. Lifecycle!Pay(t, x)
    BY DEF Lifecycle!Pay, PhaseOf, SettledBy, RowPhase, Unfinished
  <1>. QED
    BY <1>1 DEF Follows, Lifecycle!Next

LEMMA FollowsExpire ==
  ASSUME NEW S \in SUBSET {t \in Token : PhaseOf[t] \in {"OPEN", "VIEWED"}},
         PhaseOf' = [t \in Token |-> IF t \in S THEN "EXPIRED" ELSE PhaseOf[t]],
         SettledBy' = SettledBy
  PROVE  Follows
  <1>1. Lifecycle!Expire
    BY DEF Lifecycle!Expire, PhaseOf, SettledBy, RowPhase
  <1>. QED
    BY <1>1 DEF Follows, Lifecycle!Next

(* What a rewritten row changes for its reader.                            *)
LEMMA OneRowSeen ==
  ASSUME IInv, NEW t \in Token, NEW row, UNCHANGED now,
         rows' = [rows EXCEPT ![t] = row]
  PROVE  /\ PhaseOf' = [PhaseOf EXCEPT ![t] = RowPhase(t, row, now)]
         /\ SettledBy' = [SettledBy EXCEPT ![t] = row.paidTx]
         /\ PhaseOf[t] = RowPhase(t, rows[t], now)
         /\ RowPhase(t, row, now) = PhaseOf[t] => PhaseOf' = PhaseOf
         /\ row.paidTx = rows[t].paidTx => SettledBy' = SettledBy
  <1>1. /\ rows \in [Token -> PayRecord] /\ rows'[t] = row
        /\ \A u \in Token \ {t} : rows'[u] = rows[u]
    BY DEF IInv, StoreInv
  <1>. HIDE DEF RowPhase
  <1>2. PhaseOf' = [PhaseOf EXCEPT ![t] = RowPhase(t, row, now)]
    BY <1>1 DEF PhaseOf
  <1>3. SettledBy' = [SettledBy EXCEPT ![t] = row.paidTx]
    BY <1>1 DEF SettledBy
  <1>4. PhaseOf[t] = RowPhase(t, rows[t], now)
    BY DEF PhaseOf
  <1>5. RowPhase(t, row, now) = PhaseOf[t] => PhaseOf' = PhaseOf
    BY <1>2 DEF PhaseOf
  <1>6. row.paidTx = rows[t].paidTx => SettledBy' = SettledBy
    BY <1>3 DEF SettledBy
  <1>. QED
    BY <1>2, <1>3, <1>4, <1>5, <1>6

LEMMA SameSeen ==
  ASSUME UNCHANGED <<rows, now>>
  PROVE  Follows
  BY DEF Follows, PhaseOf, SettledBy

LEMMA MergeFollows ==
  ASSUME IInv, NEW t \in Token, UNCHANGED now,
         rows' = [rows EXCEPT ![t] = MergePayRecord(@)]
  PROVE  Follows
  <1>. DEFINE row == rows[t]
  <1>1. RowOK(t, row, mined) /\ row \in PayRecord
    BY DEF IInv, StoreInv
  <1>2. CASE ~row.stored
    <2>1. /\ MergePayRecord(row) = BlankRecord /\ BlankRecord.paidTx = row.paidTx
          /\ RowPhase(t, row, now) = "NONE"
          /\ RowPhase(t, BlankRecord, now) \in {"OPEN", "EXPIRED"}
      BY <1>1, <1>2 DEF RowOK, BlankRecord, AbsentRecord, MergePayRecord, RowPhase,
                        PayPhase, IsPaid
    <2>. QED
      BY <2>1, OneRowSeen, FollowsCreate
  <1>3. CASE row.stored
    <2>1. MergePayRecord(row) = row
      BY <1>1, <1>3 DEF MergePayRecord, IsPaid, PayRecord
    <2>. QED
      BY <2>1, OneRowSeen DEF Follows
  <1>. QED
    BY <1>2, <1>3

LEMMA ViewFollows ==
  ASSUME IInv, NEW t \in Token, rows[t].stored, UNCHANGED now,
         rows' = [rows EXCEPT ![t].viewed = TRUE]
  PROVE  Follows
  <1>. DEFINE row == [rows[t] EXCEPT !.viewed = TRUE]
  <1>1. rows[t] \in PayRecord
    BY DEF IInv, StoreInv
  <1>2. /\ row.paidTx = rows[t].paidTx /\ row.stored = rows[t].stored /\ row.viewed
        /\ row.cancelled = rows[t].cancelled
    BY <1>1 DEF PayRecord
  <1>3. rows' = [rows EXCEPT ![t] = row]
    OBVIOUS
  <1>. HIDE DEF row
  <1>4. \/ RowPhase(t, row, now) = RowPhase(t, rows[t], now)
        \/ RowPhase(t, rows[t], now) = "OPEN" /\ RowPhase(t, row, now) = "VIEWED"
    BY <1>2 DEF RowPhase, PayPhase, IsPaid
  <1>5. /\ PhaseOf' = [PhaseOf EXCEPT ![t] = RowPhase(t, row, now)]
        /\ PhaseOf[t] = RowPhase(t, rows[t], now)
        /\ RowPhase(t, row, now) = PhaseOf[t] => PhaseOf' = PhaseOf
        /\ SettledBy' = SettledBy
    BY <1>2, <1>3, OneRowSeen
  <1>6. CASE RowPhase(t, row, now) = RowPhase(t, rows[t], now)
    BY <1>5, <1>6 DEF Follows
  <1>7. CASE RowPhase(t, rows[t], now) = "OPEN" /\ RowPhase(t, row, now) = "VIEWED"
    BY <1>5, <1>7, FollowsView
  <1>. QED
    BY <1>4, <1>6, <1>7

LEMMA CancelFollows ==
  ASSUME IInv, NEW t \in Token, rows[t].stored, UNCHANGED now,
         NEW at \in Nat \cup {NoTime},
         rows' = [rows EXCEPT ![t] = NextCancelledRecord(t, rows[t], at, now)]
  PROVE  Follows
  <1>. DEFINE row == rows[t]
              next == NextCancelledRecord(t, row, at, now)
  <1>1. row \in PayRecord
    BY DEF IInv, StoreInv
  <1>2. CASE next = row
    BY <1>2, OneRowSeen DEF Follows
  <1>3. CASE /\ ~IsPaid(row) /\ ~row.cancelled
             /\ next = [row EXCEPT !.cancelled = TRUE,
                            !.cancelledAt = IF Version[t] = 2 THEN at ELSE now]
    <2>. HIDE DEF next
    <2>1. next.paidTx = row.paidTx /\ next.stored = row.stored /\ next.cancelled
      BY <1>1, <1>3 DEF PayRecord
    <2>2. /\ RowPhase(t, next, now) = "CANCELLED"
          /\ RowPhase(t, row, now) \in Unfinished
      BY <1>3, <2>1 DEF RowPhase, PayPhase, IsPaid, Unfinished
    <2>3. rows' = [rows EXCEPT ![t] = next]
      BY DEF next
    <2>4. /\ PhaseOf' = [PhaseOf EXCEPT ![t] = RowPhase(t, next, now)]
          /\ PhaseOf[t] = RowPhase(t, row, now)
          /\ SettledBy' = SettledBy
      BY <2>1, <2>3, OneRowSeen
    <2>. QED
      BY <2>2, <2>4, FollowsCancel
  <1>. QED
    BY <1>2, <1>3 DEF NextCancelledRecord

LEMMA CandidateFollows ==
  ASSUME IInv, NEW t \in Token, NEW x \in Tx, UNCHANGED now,
         rows' = [rows EXCEPT ![t] = AddSubmittedHash(@, x)]
  PROVE  Follows
  <1>. DEFINE row == rows[t]
              next == AddSubmittedHash(row, x)
  <1>1. row \in PayRecord
    BY DEF IInv, StoreInv
  <1>2. /\ next.paidTx = row.paidTx /\ next.stored = row.stored
        /\ next.cancelled = row.cancelled /\ next.viewed = row.viewed
    BY <1>1 DEF AddSubmittedHash, PayRecord
  <1>. HIDE DEF next
  <1>3. RowPhase(t, next, now) = RowPhase(t, row, now)
    BY <1>2 DEF RowPhase, PayPhase, IsPaid
  <1>4. rows' = [rows EXCEPT ![t] = next]
    BY DEF next
  <1>. QED
    BY <1>2, <1>3, <1>4, OneRowSeen DEF Follows

(* The tests of applySettlementToStore are the guard of Pay.               *)
LEMMA SettleFollows ==
  ASSUME IInv, NEW t \in Token, NEW x \in Tx, UNCHANGED now,
         rows' = ApplySettlement(rows, t, x, mined[x])
  PROVE  Follows
  <1>. DEFINE row == rows[t]
              code == SettleCode(rows, t, x, mined[x])
              paid == NextPaidRecord(t, row, x, mined[x])
              late == [row EXCEPT !.lateTx = x]
  <1>1. row \in PayRecord /\ rows \in [Token -> PayRecord]
    BY DEF IInv, StoreInv
  <1>2. CASE code = "settled"
    <2>1. /\ row.stored /\ row.paidTx = NoTx /\ MayBePaid(t, row, mined[x])
          /\ ~SettlesAnother(rows, t, x) /\ ~IdPaidElsewhere(rows, t)
      BY <1>2 DEF SettleCode, IsPaid
    <2>2. rows' = [rows EXCEPT ![t] = paid]
      BY <1>2 DEF ApplySettlement
    <2>3. paid.paidTx = x /\ paid.stored
      BY <1>1, <2>1 DEF NextPaidRecord, PayRecord
    <2>. HIDE DEF paid
    <2>4. /\ RowPhase(t, paid, now) = "PAID"
          /\ RowPhase(t, row, now) \in Unfinished \cup {"CANCELLED"}
          /\ RowPhase(t, row, now) = "CANCELLED" => row.cancelled
      BY <2>1, <2>3 DEF RowPhase, PayPhase, IsPaid, Unfinished
    <2>5. row.cancelled => Version[t] = 2
      BY <2>1 DEF MayBePaid
    <2>6. \A u \in Token : SettledBy[u] # x
      BY <2>1 DEF SettlesAnother, SettledBy
    <2>7. ASSUME NEW u \in Token, Version[t] = 2, Version[u] = 2, IdOf[u] = IdOf[t]
          PROVE  PhaseOf[u] # "PAID"
      <3>1. rows[u].paidTx = NoTx
        BY <2>1, <2>7 DEF IdPaidElsewhere, IsPaid
      <3>. QED
        BY <3>1 DEF PhaseOf, RowPhase, PayPhase, IsPaid
    <2>8. /\ PhaseOf' = [PhaseOf EXCEPT ![t] = "PAID"]
          /\ SettledBy' = [SettledBy EXCEPT ![t] = x]
          /\ PhaseOf[t] = RowPhase(t, row, now)
      BY <2>2, <2>3, <2>4, OneRowSeen
    <2>9. \A u \in Token : Version[t] = 2 /\ Version[u] = 2 /\ IdOf[u] = IdOf[t]
                              => PhaseOf[u] # "PAID"
      BY <2>7
    <2>10. /\ PhaseOf[t] \in Unfinished \cup {"CANCELLED"}
           /\ PhaseOf[t] = "CANCELLED" => Version[t] = 2
      BY <2>4, <2>5, <2>8
    <2>. QED
      BY <2>6, <2>8, <2>9, <2>10, FollowsPay
  <1>3. CASE code = "late_settlement"
    <2>1. rows' = [rows EXCEPT ![t] = late]
      BY <1>3 DEF ApplySettlement
    <2>2. /\ late.paidTx = row.paidTx /\ late.stored = row.stored
          /\ late.cancelled = row.cancelled /\ late.viewed = row.viewed
      BY <1>1 DEF PayRecord
    <2>. HIDE DEF late
    <2>3. RowPhase(t, late, now) = RowPhase(t, row, now)
      BY <2>2 DEF RowPhase, PayPhase, IsPaid
    <2>. QED
      BY <2>1, <2>2, <2>3, OneRowSeen DEF Follows
  <1>4. CASE code \notin {"settled", "late_settlement"}
    BY <1>4, SameSeen DEF ApplySettlement
  <1>. QED
    BY <1>2, <1>3, <1>4

(* Time expires what is due, and nothing else.                             *)
LEMMA TickFollows ==
  ASSUME IInv, Tick
  PROVE  Follows
  <1>. DEFINE S == {t \in Token : /\ PhaseOf[t] \in {"OPEN", "VIEWED"}
                                  /\ RowPhase(t, rows[t], now') = "EXPIRED"}
  <1>1. now \in Nat /\ now' = now + 1 /\ rows' = rows
    BY DEF IInv, WorldInv, Tick, store
  <1>2. ASSUME NEW t \in Token
        PROVE  RowPhase(t, rows[t], now') = IF t \in S THEN "EXPIRED" ELSE PhaseOf[t]
    <2>1. ExpiresAt[t] \in Nat
      OBVIOUS
    <2>2. \/ RowPhase(t, rows[t], now') = RowPhase(t, rows[t], now)
          \/ /\ RowPhase(t, rows[t], now) \in {"OPEN", "VIEWED"}
             /\ RowPhase(t, rows[t], now') = "EXPIRED"
      BY <1>1, <2>1 DEF RowPhase, PayPhase
    <2>. QED
      BY <2>2 DEF PhaseOf
  <1>3. PhaseOf' = [t \in Token |-> RowPhase(t, rows[t], now')]
    BY <1>1 DEF PhaseOf
  <1>4. PhaseOf' = [t \in Token |-> IF t \in S THEN "EXPIRED" ELSE PhaseOf[t]]
    BY <1>2, <1>3
  <1>5. SettledBy' = SettledBy
    BY <1>1 DEF SettledBy
  <1>6. S \in SUBSET {t \in Token : PhaseOf[t] \in {"OPEN", "VIEWED"}}
    OBVIOUS
  <1>. HIDE DEF S
  <1>. QED
    BY <1>4, <1>5, <1>6, FollowsExpire

LEMMA StepFollows == IInv /\ [Next]_vars => Follows
  <1>. SUFFICES ASSUME IInv, [Next]_vars
                PROVE  Follows
    OBVIOUS
  <1>1. ASSUME NEW h \in Handler, Arrive(h)
        PROVE  Follows
    <2>1. CASE \E t \in Token : View(h, t)
      BY <2>1, ViewFollows DEF View, world
    <2>2. CASE ~\E t \in Token : View(h, t)
      <3>1. UNCHANGED <<rows, now>>
        BY <1>1, <2>2 DEF Arrive, StartRegister, StartCancel, CancelExpired,
                          StartSubmit, SubmitSettled, ReconcileSettled,
                          StartReconcile, store, world
      <3>. QED
        BY <3>1, SameSeen
    <2>. QED
      BY <2>1, <2>2
  <1>2. ASSUME NEW h \in Handler, RegisterCreate(h)
        PROVE  Follows
    BY <1>2, RunningCall, MergeFollows, SameSeen DEF RegisterCreate, At, world
  <1>3. ASSUME NEW h \in Handler, CancelEnsure(h)
        PROVE  Follows
    BY <1>3, RunningCall, MergeFollows DEF CancelEnsure, At, world
  <1>4. ASSUME NEW h \in Handler, CancelMark(h)
        PROVE  Follows
    <2>1. /\ call[h].token \in Token /\ rows[call[h].token].stored
          /\ call[h].at \in Nat \cup {NoTime}
      BY <1>4, RunningCall DEF CancelMark, At, CallOK, Call
    <2>. QED
      BY <1>4, <2>1, CancelFollows DEF CancelMark, world
  <1>5. ASSUME NEW h \in Handler, SubmitCandidate(h)
        PROVE  Follows
    BY <1>5, RunningCall, CandidateFollows DEF SubmitCandidate, At, CallOK, world
  <1>6. ASSUME NEW h \in Handler, SettleAndAnswer(h) \/ ReconcileSettle(h)
        PROVE  Follows
    BY <1>6, RunningCall, SettleFollows
       DEF SettleAndAnswer, ReconcileSettle, SettleAndEnqueue, At, CallOK, world
  <1>7. ASSUME NEW h \in Handler,
               \/ CancelGet(h) \/ SubmitVerify(h) \/ ReconcileVerify(h)
               \/ ReconcileScan(h) \/ Fail(h)
        PROVE  Follows
    BY <1>7, SameSeen
       DEF CancelGet, SubmitVerify, ReconcileVerify, ReconcileScan, Fail, store, world
  <1>8. CASE Environment
    <2>1. UNCHANGED <<rows, now>> \/ Tick
      BY <1>8 DEF Environment, SetSubscription, Mine, NewBlock, store, world
    <2>. QED
      BY <2>1, SameSeen, TickFollows
  <1>9. CASE UNCHANGED vars
    BY <1>9, SameSeen DEF vars
  <1>. QED
    BY <1>1, <1>2, <1>3, <1>4, <1>5, <1>6, <1>7, <1>8, <1>9 DEF Next, Step

(* What a reader sees of the rows moves as PayLifecycle says, whatever the *)
(* handlers, the chain and the clocks do.                                  *)
THEOREM SettlementFollowsLifecycle == Spec => FollowsLifecycle
  <1>1. Init => Lifecycle!Init
    BY DEF Init, Lifecycle!Init, AbsentRecord
  <1>2. Follows =>
          [Lifecycle!Next]_<<[t \in Token |-> IF rows[t].stored
                                  THEN PayPhase(t, rows[t], now) ELSE "NONE"],
                              [t \in Token |-> rows[t].paidTx]>>
    BY DEF Follows, PhaseOf, SettledBy, RowPhase
  <1>. QED
    BY <1>1, <1>2, StepFollows, Invariance, PTL
       DEF Spec, FollowsLifecycle, Lifecycle!Spec

-----------------------------------------------------------------------------
(* The store that the rows are kept in: mutatePayStoreBlob over either     *)
(* backend implements AtomicStore, for every set of writers and mutators   *)
(* and any bound on the attempts.  This is what lets PaySettlement take    *)
(* each of its mutations as one step.                                      *)

(* A call that has chosen what to write knows a value to write, and        *)
(* "write" is the critical section of the file backend: only one writer is *)
(* in it, and what it compared is still there.                             *)
CallInv ==
    \A w \in Writer :
        /\ pc[w] = "idle" <=> mutation[w] = Threw
        /\ pc[w] \in {"commit", "write"} => Effect[mutation[w]][snapshot[w]] # Threw

TailInv ==
    \A w \in Writer :
        /\ pc[w] = "write" <=> w \in tail
        /\ pc[w] = "write" =>
              backend = "file" /\ tail = {w} /\ blob = snapshot[w]

(* Each attempt but the last was lost to a change, and so will the last be *)
(* if the store is no longer what the mutator ran on.                      *)
OvertakenInv ==
    \A w \in Writer :
        /\ pc[w] # "idle" => attempt[w] <= overtaken[w] + 1
        /\ pc[w] = "commit" /\ blob # snapshot[w] => attempt[w] <= overtaken[w]
        /\ result[w] = "exhausted" => overtaken[w] >= MaxAttempts

StoreIInv == StoreTypeOK /\ CallInv /\ TailInv /\ OvertakenInv

LEMMA StoreInitInv == StoreInit => StoreIInv
  BY StoreAssumption, SMTT(30)
     DEF StoreInit, StoreIInv, StoreTypeOK, CallInv, TailInv, OvertakenInv, Outcome

(* The three pieces an action is made of.                                  *)
LEMMA ReturnInv ==
  ASSUME StoreIInv, UNCHANGED backend, NEW w \in Writer, NEW r \in Outcome, Return(w, r),
         tail' = tail \ {w}, UNCHANGED blob, UNCHANGED overtaken,
         r = "exhausted" => overtaken[w] >= MaxAttempts
  PROVE  StoreIInv'
  <1>. USE StoreAssumption DEF StoreIInv
  <1>1. StoreTypeOK'
    BY SMTT(30) DEF StoreTypeOK, Return
  <1>2. CallInv'
    BY SMTT(30) DEF StoreTypeOK, CallInv, Return
  <1>3. TailInv'
    BY SMTT(30) DEF StoreTypeOK, TailInv, Return
  <1>4. OvertakenInv'
    BY SMTT(30) DEF StoreTypeOK, OvertakenInv, Return
  <1>. QED
    BY <1>1, <1>2, <1>3, <1>4

LEMMA ConflictInv ==
  ASSUME StoreIInv, UNCHANGED backend, NEW w \in Writer, pc[w] = "commit", blob # snapshot[w], Conflict(w)
  PROVE  StoreIInv'
  <1>. USE StoreAssumption DEF StoreIInv
  <1>0. attempt[w] <= overtaken[w] /\ w \notin tail
    BY DEF OvertakenInv, TailInv
  <1>1. CASE attempt[w] < MaxAttempts
    <2>1. StoreTypeOK'
      BY <1>0, <1>1, SMTT(30) DEF StoreTypeOK, Conflict
    <2>2. CallInv'
      BY <1>1, SMTT(30) DEF StoreTypeOK, CallInv, Conflict
    <2>3. TailInv'
      BY <1>1, SMTT(30) DEF StoreTypeOK, TailInv, Conflict
    <2>4. OvertakenInv'
      BY <1>0, <1>1, SMTT(30) DEF StoreTypeOK, OvertakenInv, Conflict
    <2>. QED
      BY <2>1, <2>2, <2>3, <2>4
  <1>2. CASE ~(attempt[w] < MaxAttempts)
    <2>1. Return(w, "exhausted") /\ tail' = tail \ {w} /\ UNCHANGED <<blob, overtaken>>
      BY <1>0, <1>2 DEF Conflict
    <2>2. overtaken[w] >= MaxAttempts
      BY <1>0, <1>2 DEF StoreTypeOK
    <2>. QED
      BY <2>1, <2>2, ReturnInv DEF Outcome
  <1>. QED
    BY <1>1, <1>2

(* Writing is safe for the others because nobody else is in "write".       *)
LEMMA WriteInv ==
  ASSUME StoreIInv, UNCHANGED backend, NEW w \in Writer, NEW r \in {"ok", "unavailable"},
         pc[w] \in {"commit", "write"}, Write(w), Return(w, r),
         tail' = tail \ {w},
         \A v \in Writer \ {w} : pc[v] # "write"
  PROVE  StoreIInv'
  <1>. USE StoreAssumption DEF StoreIInv
  <1>0. blob' \in Blob
    BY DEF StoreTypeOK, CallInv, Write
  <1>1. StoreTypeOK'
    BY <1>0, SMTT(30) DEF StoreTypeOK, Return, Write, Outcome
  <1>2. CallInv'
    BY SMTT(30) DEF StoreTypeOK, CallInv, Return
  <1>3. TailInv'
    BY SMTT(30) DEF StoreTypeOK, TailInv, Return
  <1>4. OvertakenInv'
    BY SMTT(60) DEF StoreTypeOK, OvertakenInv, Return, Write
  <1>. QED
    BY <1>1, <1>2, <1>3, <1>4

LEMMA MutateInv ==
  ASSUME StoreIInv, UNCHANGED backend, NEW w \in Writer, NEW m \in Mutation, Mutate(w, m)
  PROVE  StoreIInv'
  <1>. USE StoreAssumption DEF StoreIInv
  <1>1. StoreTypeOK'
    BY SMTT(30) DEF StoreTypeOK, Mutate, Outcome
  <1>2. CallInv'
    BY SMTT(30) DEF StoreTypeOK, CallInv, Mutate
  <1>3. TailInv'
    BY SMTT(30) DEF StoreTypeOK, TailInv, Mutate
  <1>4. OvertakenInv'
    BY SMTT(30) DEF StoreTypeOK, OvertakenInv, Mutate
  <1>. QED
    BY <1>1, <1>2, <1>3, <1>4

LEMMA ReadInv ==
  ASSUME StoreIInv, UNCHANGED backend, NEW w \in Writer, Read(w)
  PROVE  StoreIInv'
  <1>. USE StoreAssumption DEF StoreIInv
  <1>. DEFINE next == Effect[mutation[w]][blob]
  <1>0. w \notin tail /\ UNCHANGED <<blob, tail, overtaken>> /\ pc[w] = "read"
    BY DEF Read, TailInv
  <1>1. ASSUME NEW r \in {"threw", "ok"}, Return(w, r)
        PROVE  StoreIInv'
    BY <1>0, <1>1, ReturnInv DEF Outcome
  <1>2. CASE /\ next \notin {Threw, blob}
             /\ pc' = [pc EXCEPT ![w] = "commit"]
             /\ snapshot' = [snapshot EXCEPT ![w] = blob]
             /\ UNCHANGED <<mutation, attempt, result>>
    <2>1. StoreTypeOK'
      BY <1>0, <1>2, SMTT(30) DEF StoreTypeOK
    <2>2. CallInv'
      BY <1>0, <1>2, SMTT(30) DEF StoreTypeOK, CallInv
    <2>3. TailInv'
      BY <1>0, <1>2, SMTT(30) DEF StoreTypeOK, TailInv
    <2>4. OvertakenInv'
      BY <1>0, <1>2, SMTT(30) DEF StoreTypeOK, OvertakenInv
    <2>. QED
      BY <2>1, <2>2, <2>3, <2>4
  <1>. QED
    BY <1>1, <1>2 DEF Read

LEMMA RedisCasInv ==
  ASSUME StoreIInv, UNCHANGED backend, NEW w \in Writer, RedisCas(w)
  PROVE  StoreIInv'
  <1>0. backend = "redis" /\ pc[w] = "commit"
    BY DEF RedisCas
  <1>1. w \notin tail /\ \A v \in Writer : pc[v] # "write"
    BY <1>0 DEF StoreIInv, TailInv
  <1>2. CASE blob = snapshot[w]
    <2>1. PICK r \in {"ok", "unavailable"} :
             Write(w) /\ Return(w, r) /\ tail' = tail \ {w}
      BY <1>1, <1>2 DEF RedisCas
    <2>. QED
      BY <1>0, <1>1, <2>1, WriteInv
  <1>3. CASE blob # snapshot[w]
    BY <1>0, <1>3, ConflictInv DEF RedisCas
  <1>. QED
    BY <1>2, <1>3

LEMMA FileCompareInv ==
  ASSUME StoreIInv, UNCHANGED backend, NEW w \in Writer, FileCompare(w)
  PROVE  StoreIInv'
  <1>. USE StoreAssumption DEF StoreIInv
  <1>0. backend = "file" /\ pc[w] = "commit" /\ tail = {}
    BY DEF FileCompare
  <1>1. CASE blob = snapshot[w]
    <2>0. /\ pc' = [pc EXCEPT ![w] = "write"]
          /\ tail' = {w}
          /\ UNCHANGED <<blob, mutation, snapshot, attempt, result, overtaken>>
      BY <1>1 DEF FileCompare
    <2>1. StoreTypeOK'
      BY <2>0, SMTT(30) DEF StoreTypeOK
    <2>2. CallInv'
      BY <1>0, <2>0, SMTT(30) DEF StoreTypeOK, CallInv
    <2>3. TailInv'
      BY <1>0, <1>1, <2>0, SMTT(30) DEF StoreTypeOK, TailInv
    <2>4. OvertakenInv'
      BY <1>0, <2>0, SMTT(30) DEF StoreTypeOK, OvertakenInv
    <2>. QED
      BY <2>1, <2>2, <2>3, <2>4
  <1>2. CASE blob # snapshot[w]
    BY <1>0, <1>2, ConflictInv DEF FileCompare
  <1>. QED
    BY <1>1, <1>2

LEMMA FileWriteInv ==
  ASSUME StoreIInv, UNCHANGED backend, NEW w \in Writer, FileWrite(w)
  PROVE  StoreIInv'
  <1>1. \A v \in Writer \ {w} : pc[v] # "write"
    BY DEF StoreIInv, TailInv, FileWrite
  <1>. QED
    BY <1>1, WriteInv DEF FileWrite

LEMMA UnavailableInv ==
  ASSUME StoreIInv, UNCHANGED backend, NEW w \in Writer, Unavailable(w)
  PROVE  StoreIInv'
  BY ReturnInv DEF Unavailable, Outcome

LEMMA StoreStepInv == StoreIInv /\ [StoreNext]_storeVars => StoreIInv'
  <1>. SUFFICES ASSUME StoreIInv, [StoreNext]_storeVars
                PROVE  StoreIInv'
    OBVIOUS
  <1>0. UNCHANGED backend
    BY DEF StoreNext, storeVars
  <1>1. ASSUME NEW w \in Writer, NEW m \in Mutation, Mutate(w, m)
        PROVE  StoreIInv'
    BY <1>0, <1>1, MutateInv
  <1>2. ASSUME NEW w \in Writer, Read(w)
        PROVE  StoreIInv'
    BY <1>0, <1>2, ReadInv
  <1>3. ASSUME NEW w \in Writer, RedisCas(w)
        PROVE  StoreIInv'
    BY <1>0, <1>3, RedisCasInv
  <1>4. ASSUME NEW w \in Writer, FileCompare(w)
        PROVE  StoreIInv'
    BY <1>0, <1>4, FileCompareInv
  <1>5. ASSUME NEW w \in Writer, FileWrite(w)
        PROVE  StoreIInv'
    BY <1>0, <1>5, FileWriteInv
  <1>6. ASSUME NEW w \in Writer, Unavailable(w)
        PROVE  StoreIInv'
    BY <1>0, <1>6, UnavailableInv
  <1>7. CASE UNCHANGED storeVars
    BY <1>7 DEF storeVars, StoreIInv, StoreTypeOK, CallInv, TailInv, OvertakenInv
  <1>. QED
    BY <1>1, <1>2, <1>3, <1>4, <1>5, <1>6, <1>7 DEF StoreNext, WriterStep

LEMMA StoreInvariance == StoreSpec => []StoreIInv
  BY StoreInitInv, StoreStepInv, PTL DEF StoreSpec

(* The bound on the attempts and the types hold for every set of writers.  *)
THEOREM StoreTypesHold == StoreSpec => []StoreTypeOK
  BY StoreInvariance, PTL DEF StoreIInv

(* mutatePayStoreBlob gives up only after as many changes by others as it  *)
(* made attempts.                                                          *)
THEOREM StoreConflictsAreReal == StoreSpec => []ConflictsAreReal
  <1>1. StoreIInv => ConflictsAreReal
    BY DEF StoreIInv, OvertakenInv, ConflictsAreReal
  <1>. QED
    BY <1>1, StoreInvariance, PTL

-----------------------------------------------------------------------------
(* Refinement.  The linearisation point of a mutation is the commit whose  *)
(* comparison succeeded, or the read when it changes nothing or throws.    *)

LEMMA AtomicInit == StoreInit => Atomic!Init
  BY DEF StoreInit, Atomic!Init

LEMMA PendingWhileRunning ==
  ASSUME StoreIInv, NEW w \in Writer, pc[w] # "idle"
  PROVE  mutation[w] # Threw
  BY DEF StoreIInv, CallInv

LEMMA ConflictIsAtomic ==
  ASSUME StoreIInv, NEW w \in Writer, pc[w] # "idle", Conflict(w)
  PROVE  [Atomic!Next]_<<blob, mutation, result>>
  <1>1. CASE attempt[w] < MaxAttempts
    BY <1>1 DEF Conflict
  <1>2. CASE ~(attempt[w] < MaxAttempts)
    <2>1. Atomic!HasNoEffect(w)
      BY <1>2, PendingWhileRunning
         DEF Conflict, Return, Atomic!HasNoEffect, Atomic!Return
    <2>. QED
      BY <2>1 DEF Atomic!Next
  <1>. QED
    BY <1>1, <1>2

LEMMA WriteIsAtomic ==
  ASSUME StoreIInv, NEW w \in Writer, NEW r \in {"ok", "unavailable"},
         pc[w] \in {"commit", "write"}, blob = snapshot[w],
         Write(w), Return(w, r)
  PROVE  Atomic!Next
  <1>1. Effect[mutation[w]][blob] # Threw
    BY DEF StoreIInv, CallInv
  <1>2. Atomic!TakesEffect(w)
    BY <1>1, PendingWhileRunning
       DEF Write, Return, Atomic!TakesEffect, Atomic!Return
  <1>. QED
    BY <1>2 DEF Atomic!Next

LEMMA AtomicStep ==
  StoreIInv /\ [StoreNext]_storeVars => [Atomic!Next]_<<blob, mutation, result>>
  <1>. SUFFICES ASSUME StoreIInv, [StoreNext]_storeVars
                PROVE  [Atomic!Next]_<<blob, mutation, result>>
    OBVIOUS
  <1>1. ASSUME NEW w \in Writer, NEW m \in Mutation, Mutate(w, m)
        PROVE  Atomic!Next
    <2>1. Atomic!Call(w, m)
      BY <1>1 DEF Mutate, Atomic!Call, StoreIInv, CallInv
    <2>. QED
      BY <2>1 DEF Atomic!Next
  <1>2. ASSUME NEW w \in Writer, Read(w)
        PROVE  [Atomic!Next]_<<blob, mutation, result>>
    <2>. DEFINE next == Effect[mutation[w]][blob]
    <2>0. mutation[w] # Threw
      BY <1>2, PendingWhileRunning DEF Read
    <2>1. CASE next = Threw /\ Return(w, "threw")
      <3>1. Atomic!Throws(w)
        BY <1>2, <2>0, <2>1 DEF Read, Return, Atomic!Throws, Atomic!Return
      <3>. QED
        BY <3>1 DEF Atomic!Next
    <2>2. CASE next = blob /\ Return(w, "ok")
      <3>0. blob # Threw
        BY StoreAssumption DEF StoreIInv, StoreTypeOK
      <3>1. Atomic!TakesEffect(w)
        BY <1>2, <2>0, <2>2, <3>0
           DEF Read, Return, Atomic!TakesEffect, Atomic!Return
      <3>. QED
        BY <3>1 DEF Atomic!Next
    <2>3. CASE UNCHANGED <<mutation, attempt, result>>
      BY <1>2, <2>3 DEF Read
    <2>. QED
      BY <1>2, <2>1, <2>2, <2>3 DEF Read
  <1>3. ASSUME NEW w \in Writer, RedisCas(w)
        PROVE  [Atomic!Next]_<<blob, mutation, result>>
    <2>1. CASE blob = snapshot[w]
      BY <1>3, <2>1, WriteIsAtomic DEF RedisCas
    <2>2. CASE blob # snapshot[w]
      BY <1>3, <2>2, ConflictIsAtomic DEF RedisCas
    <2>. QED
      BY <2>1, <2>2
  <1>4. ASSUME NEW w \in Writer, FileCompare(w)
        PROVE  [Atomic!Next]_<<blob, mutation, result>>
    <2>1. CASE blob = snapshot[w]
      BY <1>4, <2>1 DEF FileCompare
    <2>2. CASE blob # snapshot[w]
      BY <1>4, <2>2, ConflictIsAtomic DEF FileCompare
    <2>. QED
      BY <2>1, <2>2
  <1>5. ASSUME NEW w \in Writer, FileWrite(w)
        PROVE  Atomic!Next
    <2>1. blob = snapshot[w]
      BY <1>5 DEF StoreIInv, TailInv, FileWrite
    <2>. QED
      BY <1>5, <2>1, WriteIsAtomic DEF FileWrite
  <1>6. ASSUME NEW w \in Writer, Unavailable(w)
        PROVE  Atomic!Next
    <2>1. Atomic!HasNoEffect(w)
      BY <1>6, PendingWhileRunning
         DEF Unavailable, Return, Atomic!HasNoEffect, Atomic!Return
    <2>. QED
      BY <2>1 DEF Atomic!Next
  <1>7. CASE UNCHANGED storeVars
    BY <1>7 DEF storeVars
  <1>. QED
    BY <1>1, <1>2, <1>3, <1>4, <1>5, <1>6, <1>7 DEF StoreNext, WriterStep

(* Every mutation of the store is atomic: whatever the interleaving of     *)
(* writers, conflicts and lost answers, on Redis and on the file.          *)
THEOREM StoreMutationsAreAtomic == StoreSpec => MutationsAreAtomic
  BY AtomicInit, AtomicStep, StoreInvariance, PTL
     DEF StoreSpec, MutationsAreAtomic, Atomic!Spec

=============================================================================
