--------------------------- MODULE CheckoutProofs ----------------------------
(***************************************************************************)
(* Theorems about Checkout, for any number of transactions and reloads and *)
(* either version of the link: what a page says is paid is paid, and a     *)
(* page does not have a payment signed that it knows was made.  What is    *)
(* proven of a transaction is right (MemoProof), and what the page sends   *)
(* is proven.                                                              *)
(***************************************************************************)
EXTENDS Checkout, FiniteSetTheorems, WellFoundedInduction, SequenceTheorems,
        TLAPS

(***************************************************************************)
(* The proof of receipts: what a transaction is to the server.             *)
(***************************************************************************)

(* Transactions without the bounds of Executions: any number of steps, and *)
(* calls of other contracts that do any number of things in their turn.    *)
Inner == Moves \cup Payments
AnyWrapped ==
    {MemoCall(s, id, Foreign, data, body) :
        s \in Sender, id \in {ownId, otherId}, data \in transferCalls,
        body \in Seq(Inner)}
AnyStep == Inner \cup AnyWrapped
AnyExecution == Seq(AnyStep)

-----------------------------------------------------------------------------
(* A set of numbers has a smallest one; hence what FlattenSeq computes,    *)
(* whose recursion is over the length: a smallest counterexample is        *)
(* refuted from the one before.                                            *)

LEMMA MinIsIn ==
    ASSUME NEW S, S \subseteq Nat, IsFiniteSet(S), S # {}
    PROVE  Min(S) \in S /\ \A x \in S : Min(S) =< x
<1> DEFINE upTo(x) == {y \in S : y =< x}
           T == {upTo(x) : x \in S}
<1>1. IsWellFoundedOn(StrictSubsetOrdering(S), SUBSET S)
  BY FS_StrictSubsetOrderingWellFounded, FS_FiniteSubsetsOfFinite
<1>2. T \subseteq SUBSET S /\ T # {}
  OBVIOUS
<1>3. PICK U \in T : \A V \in T : <<V, U>> \notin StrictSubsetOrdering(S)
  <2> HIDE DEF T
  <2> QED
    BY <1>1, <1>2, WFMin
<1>4. PICK x \in S : U = upTo(x)
  OBVIOUS
<1>5. ASSUME NEW z \in S PROVE x =< z
  <2>1. CASE z < x
    <3>1. /\ \A y \in S : y =< z => y =< x
          /\ x =< x /\ ~ x =< z
      BY <2>1
    <3>3. upTo(z) \subseteq upTo(x) /\ x \in upTo(x) /\ x \notin upTo(z)
      BY <3>1
    <3>2. <<upTo(z), U>> \notin StrictSubsetOrdering(S)
      BY <1>3
    <3> QED
      BY <1>4, <3>2, <3>3 DEF StrictSubsetOrdering
  <2> QED
    BY <2>1
<1> QED
  BY <1>5 DEF Min

LEMMA LeastIn ==
    ASSUME NEW n \in Nat, NEW T \in SUBSET (0 .. n), T # {}
    PROVE  \E m \in T : \A i \in T : m =< i
<1>1. IsFiniteSet(0 .. n)
  BY FS_Interval
<1>2. T \subseteq Nat
  OBVIOUS
<1>3. IsFiniteSet(T)
  BY <1>1, FS_Subset, Zenon
<1> QED
  BY <1>2, <1>3, MinIsIn

UpTo(seqs, n, g) ==
    g = [i \in 1 .. n |-> IF i = 1 THEN seqs[i] ELSE g[i - 1] \o seqs[i]]

LEMMA UpToExists ==
    ASSUME NEW seqs, NEW n \in Nat
    PROVE  \E g : UpTo(seqs, n, g)
<1> DEFINE T == {i \in 0 .. n : ~ \E g : UpTo(seqs, i, g)}
<1>1. SUFFICES ASSUME T # {} PROVE FALSE
  OBVIOUS
<1>2. PICK m \in T : \A i \in T : m =< i
  <2> HIDE DEF T
  <2>1. T \in SUBSET (0 .. n)
    BY DEF T
  <2> QED
    BY <1>1, <2>1, LeastIn
<1>3. m \in 0 .. n /\ ~ \E g : UpTo(seqs, m, g)
  OBVIOUS
<1>4. CASE m = 0
  <2> DEFINE g == [i \in 1 .. 0 |-> 0]
  <2>1. UpTo(seqs, 0, g)
    BY DEF UpTo
  <2> QED
    BY <1>3, <1>4, <2>1
<1>5. CASE m > 0
  <2>1. m - 1 \in 0 .. n /\ m - 1 \notin T
    BY <1>2, <1>3, <1>5
  <2>2. PICK g : UpTo(seqs, m - 1, g)
    BY <2>1
  <2> DEFINE last == IF m = 1 THEN seqs[m] ELSE g[m - 1] \o seqs[m]
             h == [i \in 1 .. m |-> IF i < m THEN g[i] ELSE last]
  <2>3. \A i \in 1 .. m - 1 :
            g[i] = IF i = 1 THEN seqs[i] ELSE g[i - 1] \o seqs[i]
    BY <2>2 DEF UpTo
  <2>4. m \in Nat /\ 1 =< m
    BY <1>3, <1>5
  <2> HIDE DEF T
  <2>5. ASSUME NEW i \in 1 .. m
        PROVE  h[i] = IF i = 1 THEN seqs[i] ELSE h[i - 1] \o seqs[i]
    <3>1. CASE i < m
      <4>1. i \in 1 .. m - 1 /\ h[i] = g[i]
        BY <2>4, <3>1
      <4>2. i # 1 => h[i - 1] = g[i - 1]
        BY <2>4, <3>1
      <4> HIDE DEF h
      <4> QED
        BY <2>3, <4>1, <4>2
    <3>2. CASE i = m
      <4>1. h[i] = last
        BY <2>4, <3>2
      <4>2. i # 1 => h[i - 1] = g[i - 1]
        BY <2>4, <3>2
      <4> HIDE DEF h
      <4> QED
        BY <3>2, <4>1, <4>2
    <3> QED
      BY <2>4, <3>1, <3>2
  <2>6. h = [i \in 1 .. m |-> h[i]]
    OBVIOUS
  <2> HIDE DEF h
  <2>7. UpTo(seqs, m, h)
    BY <2>5, <2>6, Zenon DEF UpTo
  <2> QED
    BY <1>3, <2>7
<1> QED
  BY <1>3, <1>4, <1>5

(* The sequence that FlattenSeq gives is built from the front.             *)
LEMMA FlattenIs ==
    ASSUME NEW seqs, NEW n \in Nat, Len(seqs) = n, n # 0
    PROVE  \E g : UpTo(seqs, n, g) /\ FlattenSeq(seqs) = g[n]
<1> DEFINE g == CHOOSE f : UpTo(seqs, n, f)
<1>1. UpTo(seqs, n, g)
  BY UpToExists
<1>2. FlattenSeq(seqs) = g[n]
  BY DEF FlattenSeq, UpTo
<1> QED
  BY <1>1, <1>2

-----------------------------------------------------------------------------
(* What the logs of a transaction tell of it.                              *)

Log ==
    [address : {USDC, Foreign}, event : {"Transfer"}, from : Sender,
     to : {recipient, elsewhere}, value : {amount, less}]
    \cup
    [address : {MEMO}, event : {"BeforeMemo"}, memoIndex : Seq(Nat)]
    \cup
    [address : {MEMO}, event : {"Memo"}, memoIndex : Seq(Nat),
     sender : Sender, target : {USDC, Foreign}, callDataHash : transferCalls,
     memoId : {ownId, otherId}]

(* A log stands for something that was done: a memo for the call of the    *)
(* Memo contract, a transfer for the call of the token.                    *)
Tells(log, done) ==
    /\ log.event = "Memo" =>
           \E call \in done :
              /\ call.kind = "memo"
              /\ log.sender = call.sender /\ log.memoId = call.id
              /\ log.target = call.target /\ log.callDataHash = call.data
    /\ log.event = "Transfer" /\ log.address = USDC =>
           \E step \in done :
              Sends(step, transferCalldataHash(log.to, log.value))

Told(logs, done) ==
    logs \in Seq(Log) /\ \A k \in DOMAIN logs : Tells(logs[k], done)

LEMMA ToldJoin ==
    ASSUME NEW s, NEW t, NEW c, Told(s, c), Told(t, c)
    PROVE  Told(s \o t, c)
<1>1. s \in Seq(Log) /\ t \in Seq(Log)
  BY DEF Told
<1> HIDE DEF Log
<1>2. s \o t \in Seq(Log)
  BY <1>1, ConcatProperties
<1>3. ASSUME NEW k \in DOMAIN (s \o t)
      PROVE  Tells((s \o t)[k], c)
  <2>1. /\ k \in 1 .. Len(s) + Len(t)
        /\ (s \o t)[k] = IF k <= Len(s) THEN s[k] ELSE t[k - Len(s)]
    BY <1>1, <1>3, ConcatProperties
  <2>2. CASE k <= Len(s)
    BY <1>1, <2>1, <2>2 DEF Told
  <2>3. CASE k > Len(s)
    <3>1. k - Len(s) \in DOMAIN t
      BY <1>1, <2>1, <2>3
    <3> QED
      BY <1>1, <2>1, <2>3, <3>1 DEF Told
  <2> QED
    BY <1>1, <2>1, <2>2, <2>3
<1> QED
  BY <1>2, <1>3 DEF Told

LEMMA ToldMore ==
    ASSUME NEW s, NEW c, NEW d, Told(s, c), c \subseteq d
    PROVE  Told(s, d)
  BY DEF Told, Tells

LEMMA ToldOne ==
    ASSUME NEW log \in Log, NEW c, Tells(log, c)
    PROVE  Told(<<log>>, c)
  BY DEF Told

LEMMA ToldNone == ASSUME NEW c PROVE Told(<<>>, c)
  BY DEF Told

LEMMA ToldTransfer ==
    ASSUME NEW token \in {USDC, Foreign}, NEW from \in Sender,
           NEW data \in transferCalls, NEW c,
           token = USDC => \E step \in c : Sends(step, data)
    PROVE  Told(<<TransferLog(token, from, data)>>, c)
<1> DEFINE log == TransferLog(token, from, data)
<1>1. /\ data[1] \in {recipient, elsewhere} /\ data[2] \in {amount, less}
      /\ data = transferCalldataHash(data[1], data[2])
  BY DEF transferCalls, transferCalldataHash
<1>2. /\ log \in Log /\ log.event = "Transfer" /\ log.address = token
      /\ log.to = data[1] /\ log.value = data[2]
  BY <1>1 DEF TransferLog, Log
<1> HIDE DEF log
<1>3. data = transferCalldataHash(log.to, log.value)
  BY <1>1, <1>2
<1>4. Tells(log, c)
  BY <1>2, <1>3 DEF Tells
<1>5. Told(<<log>>, c)
  BY <1>2, <1>4, ToldOne
<1> QED
  BY <1>5 DEF log

LEMMA ToldMemo ==
    ASSUME NEW call \in Payments \cup AnyWrapped, NEW index \in Seq(Nat),
           NEW inner, NEW c, Told(inner, c), call \in c
    PROVE  Told(MemoLogs(call, index, inner), c)
<1> DEFINE before == [address |-> MEMO, event |-> "BeforeMemo",
                      memoIndex |-> index]
           after == [address |-> MEMO, event |-> "Memo", memoIndex |-> index,
                     sender |-> call.sender, target |-> call.target,
                     callDataHash |-> call.data, memoId |-> call.id]
<1>1. /\ call.sender \in Sender /\ call.target \in {USDC, Foreign}
      /\ call.data \in transferCalls /\ call.id \in {ownId, otherId}
      /\ call.kind = "memo"
  <2>1. CASE call \in Payments
    BY <2>1 DEF Payments, MemoCall
  <2>2. CASE call \in AnyWrapped
    BY <2>2 DEF AnyWrapped, MemoCall
  <2> QED
    BY <2>1, <2>2
<1>2. before \in Log /\ after \in Log
  BY <1>1 DEF Log
<1>3. Tells(before, c) /\ Tells(after, c)
  BY <1>1 DEF Tells
<1>4. MemoLogs(call, index, inner) = <<before>> \o inner \o <<after>>
  BY DEF MemoLogs
<1> HIDE DEF before, after
<1>5. Told(<<before>>, c) /\ Told(<<after>>, c)
  BY <1>2, <1>3, ToldOne
<1>6. Told(<<before>> \o inner, c)
  BY <1>5, ToldJoin
<1>7. Told(<<before>> \o inner \o <<after>>, c)
  BY <1>5, <1>6, ToldJoin
<1> QED
  BY <1>4, <1>7, Zenon

LEMMA ToldSimple ==
    ASSUME NEW step \in Inner, NEW index \in Seq(Nat)
    PROVE  Told(SimpleLogs(step, index), {step})
<1>1. CASE step \in Moves
  <2>1. /\ step.kind = "move" /\ step.token \in {USDC, Foreign}
        /\ step.from \in Sender /\ step.data \in transferCalls
    BY <1>1 DEF Moves
  <2>2. step.token = USDC => \E s \in {step} : Sends(s, step.data)
    BY <2>1 DEF Sends
  <2>3. Told(<<TransferLog(step.token, step.from, step.data)>>, {step})
    BY <2>1, <2>2, ToldTransfer
  <2> QED
    BY <2>1, <2>3 DEF SimpleLogs
<1>2. CASE step \in Payments
  <2>1. /\ step.kind = "memo" /\ step.sender \in Sender
        /\ step.data \in transferCalls /\ step.target = USDC
    BY <1>2 DEF Payments, MemoCall
  <2>2. \E s \in {step} : Sends(s, step.data)
    BY <2>1 DEF Sends
  <2> DEFINE inner == <<TransferLog(USDC, step.sender, step.data)>>
  <2>3. Told(inner, {step})
    BY <2>1, <2>2, ToldTransfer
  <2> HIDE DEF inner
  <2>4. Told(MemoLogs(step, index, inner), {step})
    BY <1>2, <2>3, ToldMemo
  <2> QED
    BY <2>1, <2>4 DEF SimpleLogs, inner
<1> QED
  BY <1>1, <1>2 DEF Inner

(* What is told of each part is told of the whole.                         *)
LEMMA ToldAll ==
    ASSUME NEW seqs, NEW n \in Nat, seqs \in [1 .. n -> Seq(Log)], NEW c,
           \A i \in 1 .. n : Told(seqs[i], c)
    PROVE  Told(FlattenSeq(seqs), c)
<1> HIDE DEF Log
<1>1. seqs \in Seq(Seq(Log)) /\ Len(seqs) = n
  BY LenProperties
<1>2. CASE n = 0
  <2>1. seqs = <<>>
    BY <1>1, <1>2
  <2>2. FlattenSeq(seqs) = <<>>
    BY <1>1, <1>2, <2>1 DEF FlattenSeq
  <2> QED
    BY <2>2, ToldNone
<1>3. CASE n # 0
  <2>1. PICK g : UpTo(seqs, n, g) /\ FlattenSeq(seqs) = g[n]
    BY <1>1, <1>3, FlattenIs
  <2>2. \A i \in 1 .. n : g[i] = IF i = 1 THEN seqs[i] ELSE g[i - 1] \o seqs[i]
    BY <2>1 DEF UpTo
  <2> DEFINE T == {i \in 1 .. n : ~ Told(g[i], c)}
  <2>3. T = {}
    <3>1. SUFFICES ASSUME T # {} PROVE FALSE
      OBVIOUS
    <3>2. T \in SUBSET (0 .. n)
      OBVIOUS
    <3>3. PICK m \in T : \A i \in T : m =< i
      <4> HIDE DEF T
      <4> QED
        BY <3>1, <3>2, LeastIn
    <3>4. m \in 1 .. n /\ ~ Told(g[m], c) /\ Told(seqs[m], c)
      OBVIOUS
    <3>5. CASE m = 1
      BY <2>2, <3>4, <3>5
    <3>6. CASE m # 1
      <4>1. m - 1 \in 1 .. n /\ m - 1 \notin T
        BY <3>3, <3>4, <3>6
      <4>2. Told(g[m - 1], c)
        BY <4>1
      <4>3. g[m] = g[m - 1] \o seqs[m]
        BY <2>2, <3>4, <3>6
      <4> HIDE DEF T
      <4>4. Told(g[m - 1] \o seqs[m], c)
        BY <3>4, <4>2, ToldJoin
      <4> QED
        BY <3>4, <4>3, <4>4, Zenon
    <3> QED
      BY <3>5, <3>6
  <2>4. Told(g[n], c)
    <3>1. n \in 1 .. n
      BY <1>1, <1>3
    <3> QED
      BY <2>3, <3>1, Zenon
  <2> QED
    BY <2>1, <2>4
<1> QED
  BY <1>2, <1>3

LEMMA WrappedAre ==
    ASSUME NEW step \in AnyWrapped
    PROVE  /\ step.kind = "memo" /\ step.target = Foreign
           /\ step.body \in Seq(Inner)
<1>1. PICK s \in Sender, id \in {ownId, otherId}, data \in transferCalls,
           body \in Seq(Inner) : step = MemoCall(s, id, Foreign, data, body)
  BY DEF AnyWrapped
<1> QED
  BY <1>1 DEF MemoCall

LEMMA ToldStep ==
    ASSUME NEW step \in AnyStep, NEW i \in Nat
    PROVE  Told(StepLogs(step, i), Parts(step))
<1>0. <<i>> \in Seq(Nat) /\ \A j \in Nat : <<i, j>> \in Seq(Nat)
  OBVIOUS
<1>1. step \in Parts(step) /\ {step} \subseteq Parts(step)
  BY DEF Parts
<1>2. CASE step \in Inner
  <2>1. step.kind = "move" \/ step.target = USDC
    BY <1>2 DEF Inner, Moves, Payments, MemoCall
  <2>2. Told(SimpleLogs(step, <<i>>), {step})
    BY <1>0, <1>2, ToldSimple
  <2>3. Told(SimpleLogs(step, <<i>>), Parts(step))
    BY <1>1, <2>2, ToldMore
  <2> QED
    BY <2>1, <2>3 DEF StepLogs
<1>3. CASE step \in AnyWrapped
  <2> DEFINE body == step.body
             n == Len(body)
             seqs == [j \in DOMAIN body |-> SimpleLogs(body[j], <<i, j>>)]
             inner == FlattenSeq(seqs)
  <2>1. step.kind = "memo" /\ step.target = Foreign /\ body \in Seq(Inner)
    BY <1>3, WrappedAre
  <2> HIDE DEF body
  <2>2. n \in Nat /\ DOMAIN body = 1 .. n /\ \A j \in 1 .. n : body[j] \in Inner
    BY <2>1, LenProperties, ElementOfSeq
  <2>3. Parts(step) = {step} \cup Range(body)
    BY <2>1 DEF Parts, body
  <2> HIDE DEF n
  <2>4. ASSUME NEW j \in 1 .. n
        PROVE  Told(SimpleLogs(body[j], <<i, j>>), Parts(step))
    <3> DEFINE part == body[j]
               index == <<i, j>>
    <3>3. part \in Inner /\ index \in Seq(Nat)
      BY <2>2
    <3> HIDE DEF part, index
    <3>4. Told(SimpleLogs(part, index), {part})
      BY <3>3, ToldSimple
    <3>1. Told(SimpleLogs(body[j], <<i, j>>), {body[j]})
      BY <3>4 DEF part, index
    <3>2. {body[j]} \subseteq Parts(step)
      BY <2>2, <2>3 DEF Range
    <3> QED
      BY <3>1, <3>2, ToldMore
  <2>5. /\ seqs \in [1 .. n -> Seq(Log)]
        /\ \A j \in 1 .. n : Told(seqs[j], Parts(step))
    <3> HIDE DEF Log
    <3> QED
      BY <2>2, <2>4 DEF Told
  <2> HIDE DEF seqs
  <2>6. Told(inner, Parts(step))
    BY <2>2, <2>5, ToldAll
  <2>7. StepLogs(step, i) = MemoLogs(step, <<i>>, inner)
    BY <2>1, ContractsAssumption DEF StepLogs, ContractsAssumption, seqs, body
  <2> HIDE DEF inner
  <2>8. Told(MemoLogs(step, <<i>>, inner), Parts(step))
    BY <1>0, <1>1, <1>3, <2>6, ToldMemo
  <2> QED
    BY <2>7, <2>8, Zenon
<1> QED
  BY <1>2, <1>3 DEF AnyStep

(* Every log of a transaction is of something that it did.                 *)
LEMMA ToldReceipt ==
    ASSUME NEW tx \in AnyExecution
    PROVE  Told(Receipt(tx), Done(tx))
<1> DEFINE n == Len(tx)
           seqs == [i \in DOMAIN tx |-> StepLogs(tx[i], i)]
<1>1. n \in Nat /\ DOMAIN tx = 1 .. n /\ \A i \in 1 .. n : tx[i] \in AnyStep
  BY LenProperties, ElementOfSeq DEF AnyExecution
<1> HIDE DEF n
<1>2. ASSUME NEW i \in 1 .. n
      PROVE  Told(StepLogs(tx[i], i), Done(tx))
  <2>1. Told(StepLogs(tx[i], i), Parts(tx[i]))
    BY <1>1, ToldStep
  <2>2. Parts(tx[i]) \subseteq Done(tx)
    BY <1>1 DEF Done
  <2> QED
    BY <2>1, <2>2, ToldMore
<1>3. /\ seqs \in [1 .. n -> Seq(Log)]
      /\ \A i \in 1 .. n : Told(seqs[i], Done(tx))
  <2> HIDE DEF Log
  <2> QED
    BY <1>1, <1>2 DEF Told
<1>4. Receipt(tx) = FlattenSeq(seqs)
  BY DEF Receipt
<1> HIDE DEF seqs
<1> QED
  BY <1>1, <1>3, <1>4, ToldAll

LEMMA DoneAre == ASSUME NEW tx \in AnyExecution PROVE Done(tx) \subseteq AnyStep
<1>1. ASSUME NEW i \in DOMAIN tx PROVE Parts(tx[i]) \subseteq AnyStep
  <2>1. tx[i] \in AnyStep
    BY <1>1, ElementOfSeq, LenProperties DEF AnyExecution
  <2>2. tx[i].kind = "memo" => tx[i].body \in Seq(Inner)
    <3>1. CASE tx[i] \in Moves
      BY <3>1 DEF Moves
    <3>2. CASE tx[i] \in Payments
      <4>1. tx[i].body = <<>>
        BY <3>2 DEF Payments, MemoCall
      <4> QED
        BY <4>1
    <3>3. CASE tx[i] \in AnyWrapped
      BY <3>3, WrappedAre
    <3> QED
      BY <2>1, <3>1, <3>2, <3>3 DEF AnyStep, Inner
  <2>3. tx[i].kind = "memo" => Range(tx[i].body) \subseteq Inner
    BY <2>2, LenProperties, ElementOfSeq DEF Range
  <2> QED
    BY <2>1, <2>3 DEF Parts, AnyStep
<1> QED
  BY <1>1 DEF Done

(* A memo of the request's id and terms that forwarded to USDC is the      *)
(* payment that was asked for.                                             *)
LEMMA CallIsPayment ==
    ASSUME NEW tx \in AnyExecution, NEW call \in Done(tx), call.kind = "memo",
           call.target = USDC, call.id = ownId,
           call.data = transferCalldataHash(recipient, amount)
    PROVE  Transferred(terms, tx)
<1>1. call \in AnyStep
  BY DoneAre
<1>2. call \notin Moves /\ call \notin AnyWrapped
  BY WrappedAre, ContractsAssumption DEF Moves, ContractsAssumption
<1>3. call \in Payments
  BY <1>1, <1>2 DEF AnyStep, Inner
<1>4. PICK s \in Sender :
        call = MemoCall(s, ownId, USDC, transferCalldataHash(recipient, amount), <<>>)
  BY <1>3 DEF Payments, MemoCall
<1>5. call = encodeAuthorizedMemoCall(terms, s)
  BY <1>4 DEF encodeAuthorizedMemoCall, terms
<1> QED
  BY <1>5 DEF Transferred

LEMMA MemoIsPayment ==
    ASSUME NEW tx \in AnyExecution,
           NEW m \in decodeMemoEvents(Receipt(tx)),
           Receipt(tx)[m].memoId = terms.memoId,
           NEW k \in bindTransfer(Receipt(tx), m),
           Receipt(tx)[k].to = terms.recipient,
           Receipt(tx)[k].value = terms.amount
    PROVE  Transferred(terms, tx)
<1> DEFINE logs == Receipt(tx)
<1>1. logs[m].event = "Memo" /\ m \in DOMAIN logs
  BY DEF decodeMemoEvents, Decoded
<1>2. /\ logs[m].target = USDC
      /\ transferCalldataHash(logs[k].to, logs[k].value) = logs[m].callDataHash
  BY DEF bindTransfer, Forwarded
<1>3. Tells(logs[m], Done(tx))
  BY <1>1, ToldReceipt DEF Told
<1>4. PICK call \in Done(tx) :
          /\ call.kind = "memo"
          /\ logs[m].sender = call.sender /\ logs[m].memoId = call.id
          /\ logs[m].target = call.target /\ logs[m].callDataHash = call.data
  BY <1>1, <1>3 DEF Tells
<1>5. /\ logs[m].memoId = ownId
      /\ transferCalldataHash(logs[k].to, logs[k].value)
           = transferCalldataHash(recipient, amount)
  BY DEF terms
<1> HIDE DEF logs
<1>6. /\ call.target = USDC /\ call.id = ownId
      /\ call.data = transferCalldataHash(recipient, amount)
  BY <1>2, <1>4, <1>5
<1> QED
  BY <1>4, <1>6, CallIsPayment

(* A receipt that verifies, or that binds, is of the payment itself, and   *)
(* its page says so.                                                       *)
LEMMA MemosAreFinite ==
    ASSUME NEW tx \in AnyExecution, NEW T \in SUBSET decodeMemoEvents(Receipt(tx))
    PROVE  T \subseteq Nat /\ IsFiniteSet(T)
<1>1. Receipt(tx) \in Seq(Log)
  BY ToldReceipt DEF Told
<1>2. DOMAIN Receipt(tx) = 1 .. Len(Receipt(tx)) /\ Len(Receipt(tx)) \in Nat
  BY <1>1
<1>3. T \subseteq 1 .. Len(Receipt(tx))
  BY <1>2 DEF decodeMemoEvents, Decoded
<1>4. IsFiniteSet(1 .. Len(Receipt(tx)))
  BY <1>2, FS_Interval
<1>5. IsFiniteSet(T)
  <2> HIDE DEF Log
  <2> QED
    BY <1>3, <1>4, FS_Subset, Zenon
<1> QED
  BY <1>2, <1>3, <1>5

LEMMA VerifiedIsTransferred ==
    ASSUME NEW tx \in AnyExecution, verifyReceiptForRequest(Receipt(tx), terms)
    PROVE  Transferred(terms, tx) /\ presentReceipt(Receipt(tx)) = "Verified"
<1> DEFINE logs == Receipt(tx)
           memos == {k \in decodeMemoEvents(logs) : logs[k].memoId = terms.memoId}
           m == Min(memos)
<1>1. PICK k \in matchMemoSettlement(logs, terms.memoId) :
          logs[k].to = terms.recipient /\ logs[k].value = terms.amount
  BY DEF verifyReceiptForRequest
<1>2. memos # {} /\ k \in bindTransfer(logs, m)
  BY <1>1 DEF matchMemoSettlement
<1>3. memos \in SUBSET decodeMemoEvents(logs)
  OBVIOUS
<1>4. m \in memos
  <2> HIDE DEF memos, logs
  <2>1. memos \subseteq Nat /\ IsFiniteSet(memos)
    BY <1>3, MemosAreFinite DEF logs
  <2> QED
    BY <1>2, <2>1, MinIsIn
<1>5. m \in decodeMemoEvents(logs) /\ logs[m].memoId = terms.memoId
  BY <1>4
<1> HIDE DEF m, memos, logs
<1>6. Transferred(terms, tx)
  BY <1>1, <1>2, <1>5, MemoIsPayment DEF logs
<1>7. parseMemoReceipt(logs).settlementValid
  BY <1>2, <1>5 DEF parseMemoReceipt
<1> QED
  BY <1>6, <1>7 DEF presentReceipt, logs

LEMMA BoundIsTransferred ==
    ASSUME NEW tx \in AnyExecution, Binds(tx)
    PROVE  Transferred(terms, tx) /\ presentReceipt(Receipt(tx)) = "Verified"
<1> DEFINE logs == Receipt(tx)
           bound == {m \in decodeMemoEvents(logs) : bindTransfer(logs, m) # {}}
           parsed == [memoEventValid |-> decodeMemoEvents(logs) # {},
                      settlementValid |-> bound # {},
                      memo |-> IF bound = {} THEN {} ELSE {Min(bound)}]
<1>1. PICK load \in liveLoad(tx) : bindProof(load, terms)
  BY DEF Binds
<1>2. verifyArcTransaction(load) = "VERIFIED"
  BY <1>1 DEF bindProof
<1>3. load.kind = "receipt" /\ load.logs = logs
  BY <1>1, <1>2 DEF liveLoad, verifyArcTransaction
<1>4. parseMemoReceipt(load.logs) = parsed
  BY <1>3 DEF parseMemoReceipt
<1>5. PICK memo \in parsed.memo :
          /\ logs[memo].memoId = terms.memoId
          /\ \E k \in bindTransfer(logs, memo) :
                logs[k].to = terms.recipient /\ logs[k].value = terms.amount
  <2> HIDE DEF parsed, logs
  <2> QED
    BY <1>1, <1>3, <1>4 DEF bindProof
<1>6. bound # {} /\ memo = Min(bound)
  BY <1>5
<1>7. memo \in decodeMemoEvents(logs)
  <2>1. bound \in SUBSET decodeMemoEvents(logs)
    OBVIOUS
  <2> HIDE DEF logs
  <2>2. bound \subseteq Nat /\ IsFiniteSet(bound)
    <3> HIDE DEF bound
    <3> QED
      BY <2>1, MemosAreFinite DEF logs
  <2>3. Min(bound) \in bound
    <3> HIDE DEF bound
    <3> QED
      BY <1>6, <2>2, MinIsIn
  <2> QED
    BY <1>6, <2>3
<1>8. parsed.settlementValid
  BY <1>6
<1> HIDE DEF parsed, logs
<1>9. Transferred(terms, tx)
  BY <1>5, <1>7, MemoIsPayment DEF logs
<1> QED
  BY <1>3, <1>4, <1>8, <1>9 DEF presentReceipt, logs

(* Whatever else a transaction does, in however many steps, it is proven,  *)
(* to a request or to an agent's intent, only if a call of it forwarded    *)
(* the transfer that was asked for; and its receipt page then says         *)
(* Verified.                                                               *)
THEOREM ProofIsSound ==
    \A tx \in AnyExecution :
        verifyReceiptForRequest(Receipt(tx), terms) \/ Binds(tx) =>
            /\ Transferred(terms, tx)
            /\ presentReceipt(Receipt(tx)) = "Verified"
  BY VerifiedIsTransferred, BoundIsTransferred

LEMMA TransferredIsKept ==
    ASSUME NEW tx, Transferred(terms, tx)
    PROVE  Moved(terms, tx) /\ Announced(terms, tx)
<1>1. PICK s \in Sender : encodeAuthorizedMemoCall(terms, s) \in Done(tx)
  BY DEF Transferred
<1> DEFINE call == encodeAuthorizedMemoCall(terms, s)
<1>2. /\ call.kind = "memo" /\ call.target = USDC /\ call.id = terms.memoId
      /\ call.data = transferCalldataHash(terms.recipient, terms.amount)
  BY DEF encodeAuthorizedMemoCall, MemoCall
<1>3. call \in Done(tx)
  BY <1>1
<1> HIDE DEF call
<1> QED
  BY <1>2, <1>3 DEF Moved, Announced, Sends

(* The match of a legacy link finds the amount moved to the payee, and a   *)
(* memo of the link's text; nothing says that they are for each other,     *)
(* unless the transaction is a single call or transfer: then it is the     *)
(* payment (matchV1Settlement in payPaid.ts).                              *)
THEOREM LegacyProofIsSound ==
    \A tx \in AnyExecution :
        matchV1Settlement(Receipt(tx), terms) =>
            /\ Moved(terms, tx) /\ Announced(terms, tx)
            /\ (\E step \in Inner : tx = <<step>>) => Transferred(terms, tx)
<1> SUFFICES ASSUME NEW tx \in AnyExecution, matchV1Settlement(Receipt(tx), terms)
             PROVE  /\ Moved(terms, tx) /\ Announced(terms, tx)
                    /\ (\E step \in Inner : tx = <<step>>) => Transferred(terms, tx)
  OBVIOUS
<1> DEFINE logs == Receipt(tx)
<1>1. PICK m \in decodeMemoEvents(logs) : logs[m].memoId = terms.memoId
  BY DEF matchV1Settlement
<1>2. PICK k \in decodeUsdcTransfers(logs) :
          logs[k].to = terms.recipient /\ logs[k].value = terms.amount
  BY DEF matchV1Settlement
<1>3. /\ m \in DOMAIN logs /\ logs[m].event = "Memo"
      /\ k \in DOMAIN logs /\ logs[k].event = "Transfer" /\ logs[k].address = USDC
  BY <1>1, <1>2 DEF decodeMemoEvents, decodeUsdcTransfers, Decoded
<1>4. Tells(logs[m], Done(tx)) /\ Tells(logs[k], Done(tx))
  BY <1>3, ToldReceipt DEF Told
<1> HIDE DEF logs
<1>5. PICK call \in Done(tx) : call.kind = "memo" /\ call.id = terms.memoId
  BY <1>1, <1>3, <1>4 DEF Tells
<1>6. PICK step \in Done(tx) :
          Sends(step, transferCalldataHash(terms.recipient, terms.amount))
  BY <1>2, <1>3, <1>4 DEF Tells
<1>7. Moved(terms, tx) /\ Announced(terms, tx)
  BY <1>5, <1>6 DEF Moved, Announced
<1>8. ASSUME NEW only \in Inner, tx = <<only>>
      PROVE  Transferred(terms, tx)
  <2>1. Done(tx) = Parts(only)
    BY <1>8 DEF Done
  <2>2. only.kind = "memo" => Range(only.body) = {}
    BY DEF Inner, Moves, Payments, MemoCall, Range
  <2>3. call = only /\ step = only
    BY <2>1, <2>2, <1>5, <1>6 DEF Parts
  <2>4. /\ only.kind = "memo" /\ only.id = ownId /\ only.target = USDC
        /\ only.data = transferCalldataHash(recipient, amount)
    BY <1>5, <1>6, <2>3 DEF Sends, terms
  <2> QED
    BY <1>5, <2>3, <2>4, CallIsPayment
<1> QED
  BY <1>7, <1>8

(* A payment that the match of a V2 link accepts would do for a legacy     *)
(* link: the rules since ask for more, never for something else.           *)
THEOREM LegacyTakesMore ==
    \A tx \in AnyExecution :
        verifyReceiptForRequest(Receipt(tx), terms)
            => matchV1Settlement(Receipt(tx), terms)
<1> SUFFICES ASSUME NEW tx \in AnyExecution,
                    verifyReceiptForRequest(Receipt(tx), terms)
             PROVE  matchV1Settlement(Receipt(tx), terms)
  OBVIOUS
<1> DEFINE logs == Receipt(tx)
           memos == {k \in decodeMemoEvents(logs) : logs[k].memoId = terms.memoId}
<1>1. PICK k \in matchMemoSettlement(logs, terms.memoId) :
          logs[k].to = terms.recipient /\ logs[k].value = terms.amount
  BY DEF verifyReceiptForRequest
<1>2. memos # {} /\ k \in bindTransfer(logs, Min(memos))
  BY <1>1 DEF matchMemoSettlement
<1>3. k \in decodeUsdcTransfers(logs)
  <2> HIDE DEF memos, logs
  <2> QED
    BY <1>2 DEF bindTransfer, Forwarded
<1>4. \E m \in decodeMemoEvents(logs) : logs[m].memoId = terms.memoId
  BY <1>2
<1> QED
  BY <1>1, <1>3, <1>4 DEF matchV1Settlement

LEMMA ExecutionsAre == Executions \subseteq AnyExecution
<1>1. Steps \subseteq AnyStep
  <2>1. ASSUME NEW step \in Wrapped PROVE step \in AnyWrapped
    <3>1. PICK id \in {ownId, otherId},
               b \in {<<>>} \cup {<<s>> : s \in Moves \cup Payments} :
            step = MemoCall(payer, id, Foreign,
                            transferCalldataHash(recipient, amount), b)
      BY <2>1 DEF Wrapped
    <3>2. b \in Seq(Inner)
      <4>1. CASE b = <<>>
        BY <4>1
      <4>2. CASE b # <<>>
        <5>1. PICK s \in Moves \cup Payments : b = <<s>>
          BY <3>1, <4>2
        <5>2. s \in Inner
          BY DEF Inner
        <5> QED
          BY <5>1, <5>2
      <4> QED
        BY <4>1, <4>2
    <3>3. payer \in Sender /\ transferCalldataHash(recipient, amount) \in transferCalls
      BY DEF Sender, transferCalls
    <3> QED
      BY <3>1, <3>2, <3>3 DEF AnyWrapped
  <2> QED
    BY <2>1 DEF Steps, AnyStep, Inner
<1>2. \A s \in Steps : <<s>> \in Seq(AnyStep)
  BY <1>1
<1>3. ASSUME NEW tx \in Steps \X Steps PROVE tx \in Seq(AnyStep)
  <2>1. Len(tx) = 2 /\ DOMAIN tx = {1, 2} /\ tx[1] \in Steps /\ tx[2] \in Steps
    BY <1>3
  <2>2. tx[1] \in AnyStep /\ tx[2] \in AnyStep
    BY <1>1, <2>1
  <2>3. tx = <<tx[1], tx[2]>>
    BY <1>3
  <2>4. PICK s \in AnyStep, t \in AnyStep : tx = <<s, t>>
    BY <2>2, <2>3
  <2> QED
    BY ONLY s \in AnyStep, t \in AnyStep, <2>4
<1> QED
  BY <1>2, <1>3 DEF Executions, AnyExecution

(* No transaction that the server takes for a payment is none.             *)
LEMMA ProvenIsKept ==
    ASSUME NEW tx \in AnyExecution, settlementProofFor(Receipt(tx)) \/ Binds(tx)
    PROVE  Kept(tx)
<1>1. CASE LinkVersion = 2
  BY <1>1, ProofIsSound DEF settlementProofFor, Kept
<1>2. CASE LinkVersion # 2
  <2>1. CASE Binds(tx)
    BY <1>2, <2>1, ProofIsSound, TransferredIsKept DEF Kept
  <2>2. CASE settlementProofFor(Receipt(tx))
    BY <1>2, <2>2, LegacyProofIsSound DEF settlementProofFor, Kept
  <2> QED
    BY <2>1, <2>2
<1> QED
  BY <1>1, <1>2

LEMMA NoneForged == "forged" \notin Fates
<1>1. ASSUME NEW tx \in Executions PROVE Fate(tx) # "forged"
  BY ExecutionsAre, ProvenIsKept DEF Fate
<1> QED
  BY <1>1 DEF Fates

(* A sequence and the same one with one element more, of the number m.     *)
OneMore(S, s, x, m, t) ==
    s \in Seq(S) /\ x \in S /\ m \in Nat /\ m = Len(s) + 1 /\ t = s \o <<x>> =>
        /\ t \in Seq(S) /\ Len(t) = m /\ t[m] = x
        /\ \A i \in Nat : 1 <= i /\ i < m => t[i] = s[i]

LEMMA Appended == \A S, s, x, m, t : OneMore(S, s, x, m, t)
<1> SUFFICES ASSUME NEW S, NEW s \in Seq(S), NEW x \in S, NEW m \in Nat,
                    m = Len(s) + 1, NEW t, t = s \o <<x>>
             PROVE  /\ t \in Seq(S) /\ Len(t) = m /\ t[m] = x
                    /\ \A i \in Nat : 1 <= i /\ i < m => t[i] = s[i]
  BY DEF OneMore
<1> DEFINE last == <<x>>
<1>1. last \in Seq(S) /\ Len(last) = 1 /\ last[1] = x
  OBVIOUS
<1>2. t = s \o last
  OBVIOUS
<1> HIDE DEF last
<1>3. /\ s \o last \in Seq(S) /\ Len(s \o last) = Len(s) + Len(last)
      /\ \A i \in 1 .. Len(s) + Len(last) :
             (s \o last)[i] = IF i <= Len(s) THEN s[i] ELSE last[i - Len(s)]
  BY <1>1, ConcatProperties
<1>4. t \in Seq(S) /\ Len(t) = m
  BY <1>1, <1>2, <1>3
<1>5. t[m] = x
  BY <1>1, <1>2, <1>3
<1>6. \A i \in Nat : 1 <= i /\ i < m => t[i] = s[i]
  BY <1>1, <1>2, <1>3
<1> QED
  BY <1>4, <1>5, <1>6

Joined(all, a, b, c) == all = <<a>> \o <<b>> \o <<c>>
AreThree(all, a, b, c) ==
    all[1] = a /\ all[2] = b /\ all[3] = c /\ DOMAIN all = {1, 2, 3}

LEMMA ThreeLogs ==
    ASSUME NEW a, NEW b, NEW c, NEW all, Joined(all, a, b, c)
    PROVE  AreThree(all, a, b, c)
<1> DEFINE S == {a, b, c}
           one == <<a>>
           two == one \o <<b>>
<1>1. one \in Seq(S) /\ Len(one) = 1 /\ one[1] = a
  OBVIOUS
<1>2. a \in S /\ b \in S /\ c \in S
  OBVIOUS
<1>3. two = one \o <<b>> /\ all = two \o <<c>>
  BY DEF Joined
<1> HIDE DEF S, one, two
<1>4. OneMore(S, one, b, 2, two) /\ OneMore(S, two, c, 3, all)
  BY Appended
<1>5. /\ two \in Seq(S) /\ Len(two) = 2 /\ two[2] = b
      /\ \A i \in Nat : 1 <= i /\ i < 2 => two[i] = one[i]
  BY <1>1, <1>2, <1>3, <1>4 DEF OneMore
<1>6. /\ all \in Seq(S) /\ Len(all) = 3 /\ all[3] = c
      /\ \A i \in Nat : 1 <= i /\ i < 3 => all[i] = two[i]
  BY <1>2, <1>3, <1>4, <1>5 DEF OneMore
<1>7. two[1] = a /\ all[1] = a /\ all[2] = b
  <2>1. 1 \in Nat /\ 2 \in Nat /\ 1 <= 1 /\ 1 <= 2 /\ 1 < 2 /\ 1 < 3 /\ 2 < 3
    OBVIOUS
  <2>2. two[1] = one[1]
    BY <1>5, <2>1
  <2>3. all[1] = two[1] /\ all[2] = two[2]
    BY <1>6, <2>1
  <2> QED
    BY <1>1, <1>5, <2>2, <2>3, Zenon
<1>8. DOMAIN all = 1 .. Len(all)
  BY <1>6, LenProperties, Zenon
<1>9. 1 .. 3 = {1, 2, 3}
  OBVIOUS
<1>10. DOMAIN all = {1, 2, 3}
  BY <1>6, <1>8, <1>9, Zenon
<1> QED
  BY <1>6, <1>7, <1>10, Zenon DEF AreThree

(* The page's own call leaves three logs: its memo is the only one, and    *)
(* the transfer between is what it forwarded.                              *)
LEMMA OwnCallSettles == FateOfPayment = "settles"
<1> DEFINE hash == transferCalldataHash(recipient, amount)
           call == MemoCall(payer, ownId, USDC, hash, <<>>)
           tx == <<call>>
           before == [address |-> MEMO, event |-> "BeforeMemo",
                      memoIndex |-> <<1>>]
           after == [address |-> MEMO, event |-> "Memo", memoIndex |-> <<1>>,
                     sender |-> payer, target |-> USDC,
                     callDataHash |-> hash, memoId |-> ownId]
           transfer == [address |-> USDC, event |-> "Transfer",
                        from |-> payer, to |-> recipient, value |-> amount]
           logs == Receipt(tx)
<1>1. encodeAuthorizedMemoCall(terms, payer) = call
  BY DEF encodeAuthorizedMemoCall, terms
<1>2. Joined(logs, before, transfer, after)
  <2>1. SimpleLogs(call, <<1>>) = <<before>> \o <<transfer>> \o <<after>>
    BY DEF SimpleLogs, MemoLogs, MemoCall, TransferLog, transferCalldataHash
  <2>2. StepLogs(call, 1) = SimpleLogs(call, <<1>>)
    BY DEF StepLogs, MemoCall
  <2> DEFINE seqs == [i \in DOMAIN tx |-> StepLogs(tx[i], i)]
  <2>3. DOMAIN tx = 1 .. 1 /\ seqs = [i \in 1 .. 1 |-> StepLogs(tx[i], i)]
    BY DEF call
  <2>4. seqs[1] = StepLogs(call, 1) /\ Len(seqs) = 1 /\ Receipt(tx) = FlattenSeq(seqs)
    BY <2>3 DEF Receipt
  <2> HIDE DEF seqs, tx
  <2>5. FlattenSeq(seqs) = seqs[1]
    <3>1. 1 \in Nat /\ 1 # 0 /\ Len(seqs) = 1
      BY <2>4
    <3>2. PICK g : UpTo(seqs, 1, g) /\ FlattenSeq(seqs) = g[1]
      BY <3>1, FlattenIs, Zenon
    <3> QED
      BY <3>2 DEF UpTo
  <2>6. logs = SimpleLogs(call, <<1>>)
    BY <2>2, <2>4, <2>5
  <2> QED
    BY <2>1, <2>6, Zenon DEF Joined
<1> HIDE DEF logs
<1>3. /\ logs[1] = before /\ logs[2] = transfer /\ logs[3] = after
      /\ DOMAIN logs = {1, 2, 3}
  <2> HIDE DEF before, transfer, after
  <2>1. AreThree(logs, before, transfer, after)
    BY <1>2, ThreeLogs
  <2> QED
    BY <2>1, Zenon DEF AreThree
<1>4. /\ decodeMemoEvents(logs) = {3}
      /\ decodeBeforeMemos(logs) = {1}
      /\ decodeUsdcTransfers(logs) = {2}
  BY <1>3 DEF decodeMemoEvents, decodeBeforeMemos, decodeUsdcTransfers, Decoded
<1>5. \A n \in Nat : Min({n}) = n /\ Max({n}) = n
  BY DEF Min, Max
<1>6. windowStarts(logs, 3) = {1}
  BY <1>3, <1>4 DEF windowStarts
<1>7. Forwarded(logs, 3, 1) = {2}
  BY <1>3, <1>4 DEF Forwarded, transferCalldataHash
<1>8. bindTransfer(logs, 3) = {2}
  <2>1. Max(windowStarts(logs, 3)) = 1 /\ Cardinality({2}) = 1
    BY <1>5, <1>6, FS_Singleton
  <2> QED
    BY <1>3, <1>6, <1>7, <2>1 DEF bindTransfer
<1>9. matchMemoSettlement(logs, ownId) = {2}
  <2>1. {k \in decodeMemoEvents(logs) : logs[k].memoId = ownId} = {3}
    BY <1>3, <1>4
  <2> QED
    BY <1>5, <1>8, <2>1 DEF matchMemoSettlement
<1>10. verifyReceiptForRequest(logs, terms)
  BY <1>3, <1>9 DEF verifyReceiptForRequest, terms
<1>11. {m \in decodeMemoEvents(logs) : bindTransfer(logs, m) # {}} = {3}
  BY <1>4, <1>8
<1>12. /\ parseMemoReceipt(logs).memoEventValid
       /\ parseMemoReceipt(logs).settlementValid
       /\ parseMemoReceipt(logs).memo = {3}
  BY <1>4, <1>5, <1>11 DEF parseMemoReceipt
<1>13. Binds(tx)
  <2> DEFINE load == [kind |-> "receipt", logs |-> logs,
                      certificate |-> [block |-> "same", signed |-> TRUE]]
  <2>1. load \in liveLoad(tx)
    BY DEF liveLoad, readCertificate, logs
  <2>2. verifyArcTransaction(load) = "VERIFIED"
    BY <1>12 DEF verifyArcTransaction, assembleArcProof, checkCertificate,
       NoCertificate
  <2>3. bindProof(load, terms)
    BY <1>3, <1>8, <1>12, <2>2 DEF bindProof, terms
  <2> QED
    BY <2>1, <2>3 DEF Binds
<1>14. tx \in AnyExecution
  <2>1. hash \in transferCalls /\ payer \in Sender /\ ownId \in {ownId, otherId}
    BY DEF transferCalls, Sender
  <2> HIDE DEF hash
  <2>2. call \in Payments
    BY <2>1 DEF Payments
  <2> HIDE DEF call
  <2> QED
    BY <2>2 DEF AnyExecution, AnyStep, Inner
<1>15. settlementProofFor(logs)
  BY <1>10, <1>14, LegacyTakesMore DEF settlementProofFor, logs
<1>17. Kept(tx)
  BY <1>14, <1>15, ProvenIsKept DEF logs
<1>16. Fate(tx) = "settles"
  BY <1>15, <1>17 DEF Fate, logs
<1> QED
  BY <1>1, <1>13, <1>16 DEF FateOfPayment, memoInstruction
(***************************************************************************)
(* The page.                                                               *)
(***************************************************************************)

Outcome == {"none", "sent", "reverted", "late", "settles", "forged", "unproven"}

Shapes ==
    /\ phase \in [{Link} -> Server!Phase]
    /\ settledBy \in [{Link} -> Tx \cup {NoTx}]
    /\ chain \in [Tx -> Outcome]
    /\ flow \in Flow
    /\ pending \in Tx \cup {NoTx} /\ stored \in Tx \cup {NoTx}
    /\ connecting \in BOOLEAN
    /\ reloads \in 0 .. MaxReloads

(* No answer was ever given of a payment that is not recorded.             *)
SeenIsPaid ==
    observed = "paid" \/ "paid" \in inflight => phase[Link] = "PAID"

(* The wallet is asked only by a page that knows of no payment of its own. *)
Sending ==
    /\ submittedHash = stored
    /\ announcing # "none" => stored # NoTx
    /\ pending # NoTx <=> sending = "mining"
    /\ sending # "none" <=> flow = "awaiting_signature"
    /\ flow \in {"preparing", "awaiting_signature"} => stored = NoTx
    /\ connecting => flow = "idle"

(* What became of the page's own payments, and of the one that settled.    *)
OwnPayment ==
    /\ pending # NoTx =>
           chain[pending] \in {"sent", "reverted", "late", FateOfPayment}
    /\ stored # NoTx => chain[stored] \in {"late", FateOfPayment}

Settled ==
    phase[Link] = "PAID" =>
        settledBy[Link] \in Tx /\ chain[settledBy[Link]] \in {"settles", "forged"}

NoForgery == \A x \in Tx : chain[x] # "forged"

IInv == Shapes /\ SeenIsPaid /\ Sending /\ OwnPayment /\ Settled /\ NoForgery

SignsOnce ==
    (\E x \in Tx : chain[x] = "none" /\ chain'[x] = "sent")
        => stored = NoTx /\ pending = NoTx

Good == IInv' /\ SignsOnce

-----------------------------------------------------------------------------
(* What an execution can be to the server, and what the page sends.        *)
LEMMA FatesAre ==
    /\ Fates \subseteq {"forged", "settles", "unproven"}
    /\ FateOfPayment \in {"forged", "settles", "unproven"}
<1>1. \A tx : Fate(tx) \in {"forged", "settles", "unproven"}
  BY DEF Fate
<1> QED
  BY <1>1 DEF Fates, FateOfPayment

LEMMA ServerPays ==
    ASSUME IInv, NEW x \in Tx, Records(x)
    PROVE  /\ phase' \in [{Link} -> Server!Phase] /\ phase'[Link] = "PAID"
           /\ settledBy' \in [{Link} -> Tx \cup {NoTx}] /\ settledBy'[Link] = x
           /\ chain[x] \in {"settles", "forged"}
  BY DEF IInv, Shapes, Records, Server!Pay, Server!Phase

(* The server records a payment for good.                                  *)
LEMMA ServerMoves ==
    ASSUME IInv, UNCHANGED chain,
           \/ UNCHANGED serverVars
           \/ Server!Cancel(Link)
           \/ \E x \in Tx : Records(x)
    PROVE  /\ phase' \in [{Link} -> Server!Phase]
           /\ settledBy' \in [{Link} -> Tx \cup {NoTx}]
           /\ phase[Link] = "PAID" => phase'[Link] = "PAID"
           /\ Settled'
<1>1. CASE UNCHANGED serverVars
  BY <1>1 DEF IInv, Shapes, Settled, serverVars
<1>2. CASE Server!Cancel(Link)
  BY <1>2 DEF IInv, Shapes, Settled, Server!Cancel, Server!Phase
<1>3. CASE \E x \in Tx : Records(x)
  BY <1>3, ServerPays DEF Settled
<1> QED
  BY <1>1, <1>2, <1>3

(* Steps of the page and the wallet: the chain and the server stand still. *)
LEMMA PageStep ==
    ASSUME IInv, UNCHANGED <<serverVars, chain>>,
           flow' \in Flow, pending' \in Tx \cup {NoTx}, stored' \in Tx \cup {NoTx},
           connecting' \in BOOLEAN, reloads' \in 0 .. MaxReloads,
           SeenIsPaid', Sending', OwnPayment'
    PROVE  Good
<1>1. phase' = phase /\ settledBy' = settledBy /\ chain' = chain
  BY DEF serverVars
<1>2. Shapes' /\ Settled' /\ NoForgery'
  BY <1>1 DEF IInv, Shapes, Settled, NoForgery
<1>3. SignsOnce
  BY <1>1 DEF SignsOnce
<1> QED
  BY <1>2, <1>3 DEF Good, IInv

(* Those that leave the payment alone.                                     *)
LEMMA LookingStep ==
    ASSUME IInv, SeenIsPaid',
           UNCHANGED <<serverVars, chain, sendVars, hashVars, connecting, reloads>>
    PROVE  Good
<1>1. UNCHANGED <<phase, settledBy, chain, flow, sending, pending, submittedHash,
                  stored, announcing, connecting, reloads>>
  BY DEF serverVars, sendVars, hashVars
<1>2. Sending' /\ OwnPayment'
  BY <1>1 DEF IInv, Sending, OwnPayment
<1>3. /\ flow' \in Flow /\ pending' \in Tx \cup {NoTx} /\ stored' \in Tx \cup {NoTx}
      /\ connecting' \in BOOLEAN /\ reloads' \in 0 .. MaxReloads
  BY <1>1 DEF IInv, Shapes
<1> QED
  BY <1>1, <1>2, <1>3, PageStep

(* Those that leave what was seen alone.                                   *)
LEMMA SameSight ==
    ASSUME IInv, UNCHANGED <<phase, observed, inflight>>
    PROVE  SeenIsPaid'
  BY DEF IInv, SeenIsPaid

LEMMA AskGood ==
    ASSUME IInv, Ask, observed' = observed, phase[Link] = "PAID" => phase'[Link] = "PAID"
    PROVE  SeenIsPaid'
  BY DEF IInv, SeenIsPaid, Ask, observeCheckoutRecord

LEMMA StatusGood ==
    ASSUME IInv,
           \/ pullStatus \/ Retry \/ SignatureVerified \/ ClockPassesExpiry
           \/ AskFailed \/ \E answer \in Seen : Answered(answer)
    PROVE  Good
<1> USE DEF serverVars, statusVars, localVars, walletVars
<1>1. CASE pullStatus \/ Retry
  BY <1>1, AskGood, LookingStep DEF pullStatus, Retry
<1>2. CASE SignatureVerified \/ ClockPassesExpiry \/ AskFailed
  BY <1>2, SameSight, LookingStep
  DEF SignatureVerified, ClockPassesExpiry, AskFailed
<1>3. CASE \E answer \in Seen : Answered(answer)
  <2>1. SeenIsPaid'
    BY <1>3 DEF Answered, IInv, SeenIsPaid
  <2> QED
    BY <1>3, <2>1, LookingStep DEF Answered
<1> QED
  BY <1>1, <1>2, <1>3

LEMMA WalletGood ==
    ASSUME IInv,
           \/ onConnect \/ connectFailed
           \/ WalletConnects \/ WalletDisconnects \/ NetworkChanges
           \/ classifyBalance
    PROVE  Good
<1> USE DEF serverVars, statusVars, localVars, walletVars, sendVars, hashVars
<1>1. SeenIsPaid'
  BY SameSight
  DEF onConnect, connectFailed, WalletConnects, WalletDisconnects, NetworkChanges,
      classifyBalance
<1>2. CASE WalletDisconnects \/ NetworkChanges \/ classifyBalance
  BY <1>1, <1>2, LookingStep DEF WalletDisconnects, NetworkChanges, classifyBalance
<1>3. CASE onConnect
  <2>1. flow = "idle"
    BY <1>3 DEF onConnect, resolveCheckoutState, effectiveFlow, IInv, Shapes, Flow
  <2>2. /\ connecting' = TRUE
        /\ UNCHANGED <<flow, sending, pending, submittedHash, stored,
                       announcing, chain>>
    BY <1>3 DEF onConnect
  <2>3. Sending' /\ OwnPayment'
    BY <2>1, <2>2 DEF IInv, Sending, OwnPayment
  <2> QED
    BY <1>1, <1>3, <2>2, <2>3, PageStep DEF onConnect, IInv, Shapes
<1>4. CASE connectFailed
  <2>1. flow = "idle" /\ sending = "none"
    BY <1>4 DEF connectFailed, IInv, Sending
  <2>2. /\ connecting' = FALSE /\ ~connecting' /\ flow' = "error"
        /\ UNCHANGED <<sending, pending, submittedHash, stored, announcing, chain>>
    BY <1>4 DEF connectFailed
  <2>3. Sending'
    BY <2>1, <2>2 DEF IInv, Sending
  <2>4. OwnPayment' /\ flow' \in Flow
    BY <2>2 DEF IInv, OwnPayment, Flow
  <2> QED
    BY <1>1, <1>4, <2>2, <2>3, <2>4, PageStep DEF connectFailed, IInv, Shapes
<1>5. CASE WalletConnects
  <2>1. /\ connecting' \in {connecting, FALSE}
        /\ UNCHANGED <<flow, sending, pending, submittedHash, stored,
                       announcing, chain>>
    BY <1>5 DEF WalletConnects
  <2>2. connecting' => connecting
    BY <2>1, Zenon
  <2>3. Sending' /\ OwnPayment'
    BY <2>1, <2>2 DEF IInv, Sending, OwnPayment
  <2>4. connecting' \in BOOLEAN
    BY <2>1, Zenon DEF IInv, Shapes
  <2> QED
    BY <1>1, <1>5, <2>1, <2>3, <2>4, PageStep DEF WalletConnects, IInv, Shapes
<1> QED
  BY <1>2, <1>3, <1>4, <1>5

(* The page offers to pay only while it knows of no payment.               *)
LEMMA PayGood ==
    ASSUME IInv, onPay \/ sendMemoPayment \/ AskWallet \/ TryAgain
    PROVE  Good
<1> USE DEF serverVars, statusVars, localVars, walletVars, hashVars
<1>1. SeenIsPaid'
  BY SameSight DEF onPay, sendMemoPayment, AskWallet, TryAgain
<1>2. CASE onPay
  <2>1. /\ flow = "idle" /\ submittedHash = NoTx /\ ~connecting
    BY <1>2 DEF onPay, canPay, resolveCheckoutState, effectiveFlow, payerState, wallet,
       IInv, Shapes, Flow
  <2>2. Sending' /\ OwnPayment' /\ flow' \in Flow
    BY <1>2, <2>1 DEF onPay, IInv, Sending, OwnPayment, Flow
  <2> QED
    BY <1>1, <1>2, <2>2, PageStep DEF onPay, IInv, Shapes
<1>3. CASE sendMemoPayment
  <2>1. Sending' /\ OwnPayment' /\ flow' \in Flow
    BY <1>3 DEF sendMemoPayment, IInv, Sending, OwnPayment, Flow
  <2> QED
    BY <1>1, <1>3, <2>1, PageStep DEF sendMemoPayment, IInv, Shapes
<1>4. CASE AskWallet
  <2>1. Sending' /\ OwnPayment'
    BY <1>4 DEF AskWallet, IInv, Sending, OwnPayment
  <2> QED
    BY <1>1, <1>4, <2>1, PageStep DEF AskWallet, IInv, Shapes
<1>5. CASE TryAgain
  <2>1. flow = "error"
    BY <1>5 DEF TryAgain, resolveCheckoutState, effectiveFlow, payerState, IInv, Shapes,
       Flow
  <2>2. Sending' /\ OwnPayment' /\ flow' \in Flow
    BY <1>5, <2>1 DEF TryAgain, IInv, Sending, OwnPayment, Flow
  <2> QED
    BY <1>1, <1>5, <2>2, PageStep DEF TryAgain, IInv, Shapes
<1> QED
  BY <1>2, <1>3, <1>4, <1>5

LEMMA SendFailsGood ==
    ASSUME IInv, CheckFails \/ Rejected \/ ReceiptFails
    PROVE  Good
<1> USE DEF serverVars, statusVars, localVars, walletVars, hashVars
<1>1. SendFails /\ UNCHANGED chain /\ sending # "none"
  BY DEF CheckFails, Rejected, ReceiptFails
<1>2. SeenIsPaid'
  BY <1>1, SameSight DEF SendFails
<1>3. flow' \in Flow /\ pending' \in Tx \cup {NoTx}
  BY <1>1 DEF SendFails, Flow
<1>4. Sending' /\ OwnPayment'
  BY <1>1 DEF SendFails, IInv, Sending, OwnPayment
<1> QED
  BY <1>1, <1>2, <1>3, <1>4, PageStep DEF SendFails, IInv, Shapes

(* A receipt that succeeded is one of a transaction that was mined.        *)
LEMMA SubmittedGood ==
    ASSUME IInv, Submitted
    PROVE  Good
<1> USE DEF serverVars, statusVars, localVars, walletVars
<1>1. SeenIsPaid'
  BY SameSight DEF Submitted
<1>2. pending # NoTx /\ pending \in Tx /\ flow = "awaiting_signature"
  BY DEF Submitted, IInv, Sending, Shapes
<1>3. chain[pending] \in {"late", FateOfPayment}
  BY <1>2 DEF Submitted, IInv, OwnPayment
<1>4. /\ flow' = "submitted" /\ sending' = "none" /\ pending' = NoTx
      /\ submittedHash' = pending /\ stored' = pending /\ chain' = chain
      /\ connecting' = connecting
  BY DEF Submitted
<1>5. Sending'
  BY <1>2, <1>4 DEF IInv, Sending
<1>6. OwnPayment'
  BY <1>2, <1>3, <1>4 DEF OwnPayment
<1> QED
  BY <1>1, <1>2, <1>4, <1>5, <1>6, PageStep DEF Submitted, IInv, Shapes, Flow

LEMMA ReloadGood ==
    ASSUME IInv, Reload
    PROVE  Good
<1> USE DEF serverVars
<1>1. SeenIsPaid'
  BY DEF Reload, SeenIsPaid
<1>2. Sending' /\ OwnPayment'
  BY DEF Reload, IInv, Sending, OwnPayment
<1>3. reloads' \in 0 .. MaxReloads
  BY CheckoutAssumption DEF CheckoutAssumption, Reload, IInv, Shapes
<1> QED
  BY <1>1, <1>2, <1>3, PageStep DEF Reload, IInv, Shapes, Flow

-----------------------------------------------------------------------------
(* Steps that move the chain or the server.                                *)

LEMMA SignedGood ==
    ASSUME IInv, NEW x \in Tx, Signed(x)
    PROVE  Good
<1> USE DEF serverVars, statusVars, localVars, walletVars, hashVars
<1>1. /\ sending = "prompted" /\ pending = NoTx /\ stored = NoTx
      /\ flow = "awaiting_signature"
  BY DEF Signed, IInv, Sending
<1>2. /\ chain' = [chain EXCEPT ![x] = "sent"] /\ pending' = x /\ sending' = "mining"
      /\ UNCHANGED <<phase, settledBy, observed, inflight, connecting, flow,
                    submittedHash, stored, announcing, reloads>>
  BY DEF Signed
<1>3. /\ chain' \in [Tx -> Outcome] /\ chain'[x] = "sent"
      /\ \A y \in Tx \ {x} : chain'[y] = chain[y]
      /\ chain[x] = "none"
  BY <1>2 DEF Signed, IInv, Shapes, Outcome
<1>4. Shapes'
  BY <1>2, <1>3 DEF IInv, Shapes
<1>5. SeenIsPaid'
  BY <1>2, SameSight
<1>6. Sending'
  BY <1>1, <1>2, CheckoutAssumption DEF CheckoutAssumption, IInv, Sending
<1>7. OwnPayment'
  BY <1>1, <1>2, <1>3 DEF OwnPayment
<1>8. Settled' /\ NoForgery'
  BY <1>2, <1>3 DEF IInv, Settled, NoForgery
<1>9. SignsOnce
  BY <1>1 DEF SignsOnce
<1> QED
  BY <1>4, <1>5, <1>6, <1>7, <1>8, <1>9 DEF Good, IInv

(* A transaction that gets an outcome, of its own sort.                    *)
LEMMA OutcomeGood ==
    ASSUME IInv, NEW x \in Tx, NEW fate \in Outcome \ {"none", "sent"},
           chain[x] \in {"none", "sent"}, chain' = [chain EXCEPT ![x] = fate],
           \/ chain[x] = "sent" /\ fate \in {"reverted", "late", FateOfPayment}
           \/ chain[x] = "none",
           fate # "forged",
           UNCHANGED <<serverVars, statusVars, localVars, walletVars, sendVars,
                       hashVars, reloads>>
    PROVE  Good
<1> USE DEF serverVars, statusVars, localVars, walletVars, sendVars, hashVars
<1>1. /\ chain' \in [Tx -> Outcome] /\ chain'[x] = fate
      /\ \A y \in Tx \ {x} : chain'[y] = chain[y]
  BY DEF IInv, Shapes
<1>2. Shapes'
  BY <1>1 DEF IInv, Shapes
<1>3. SeenIsPaid'
  BY SameSight
<1>4. Sending'
  BY DEF IInv, Sending
<1>5. OwnPayment'
  <2>1. ASSUME pending # NoTx
        PROVE  chain'[pending] \in {"sent", "reverted", "late", FateOfPayment}
    <3>1. pending \in Tx /\ chain[pending] \in {"sent", "reverted", "late", FateOfPayment}
      BY <2>1 DEF IInv, Shapes, OwnPayment
    <3>2. FateOfPayment \notin {"none", "sent"}
      BY FatesAre
    <3> QED
      BY <3>1, <3>2, <1>1
  <2>2. ASSUME stored # NoTx
        PROVE  chain'[stored] \in {"late", FateOfPayment}
    <3>1. stored \in Tx /\ chain[stored] \in {"late", FateOfPayment}
      BY <2>2 DEF IInv, Shapes, OwnPayment
    <3>2. FateOfPayment \notin {"none", "sent"}
      BY FatesAre
    <3> QED
      BY <3>1, <3>2, <1>1
  <2> QED
    BY <2>1, <2>2 DEF OwnPayment
<1>6. Settled'
  BY <1>1 DEF IInv, Settled
<1>7. NoForgery'
  BY <1>1 DEF IInv, NoForgery
<1>8. SignsOnce
  BY <1>1 DEF SignsOnce
<1> QED
  BY <1>2, <1>3, <1>4, <1>5, <1>6, <1>7, <1>8 DEF Good, IInv

LEMMA MinedGood ==
    ASSUME IInv, NEW x \in Tx, Mined(x)
    PROVE  Good
<1>1. PICK fate \in {FateOfPayment, "reverted", "late"} :
          chain' = [chain EXCEPT ![x] = fate]
  BY DEF Mined
<1>2. fate \in Outcome \ {"none", "sent"}
  BY FatesAre DEF Outcome
<1>3. fate # "forged"
  BY OwnCallSettles
<1> QED
  BY <1>1, <1>2, <1>3, OutcomeGood DEF Mined

LEMMA MinedElsewhereGood ==
    ASSUME IInv, NEW x \in Tx, MinedElsewhere(x)
    PROVE  Good
<1>1. PICK fate \in Fates : chain' = [chain EXCEPT ![x] = fate]
  BY DEF MinedElsewhere
<1>2. fate \in Outcome \ {"none", "sent"}
  BY FatesAre DEF Outcome
<1>3. fate # "forged"
  BY NoneForged
<1> QED
  BY <1>1, <1>2, <1>3, OutcomeGood DEF MinedElsewhere

(* The server records a payment or a cancellation.                         *)
LEMMA ServerStep ==
    ASSUME IInv, SeenIsPaid', announcing' # "none" => announcing # "none",
           UNCHANGED <<chain, sendVars, submittedHash, stored, connecting,
                       reloads>>,
           \/ UNCHANGED serverVars
           \/ Server!Cancel(Link)
           \/ \E x \in Tx : Records(x)
    PROVE  Good
<1>1. /\ phase' \in [{Link} -> Server!Phase]
      /\ settledBy' \in [{Link} -> Tx \cup {NoTx}]
      /\ Settled'
  BY ServerMoves
<1>2. UNCHANGED <<flow, sending, pending>>
  BY DEF sendVars
<1>3. Shapes' /\ NoForgery'
  BY <1>1, <1>2 DEF IInv, Shapes, NoForgery
<1>4. Sending' /\ OwnPayment'
  BY <1>2 DEF IInv, Sending, OwnPayment
<1>5. SignsOnce
  BY DEF SignsOnce
<1> QED
  BY <1>1, <1>3, <1>4, <1>5 DEF Good, IInv

LEMMA ReportGood ==
    ASSUME IInv, RowMoves \/ AnnounceAnswered \/ AnnounceFails
    PROVE  Good
<1> USE DEF statusVars, localVars, walletVars, hashVars
<1>1. announcing # "none" => submittedHash \in Tx
  BY DEF IInv, Shapes, Sending
<1>2. CASE RowMoves
  <2>1. phase[Link] = "PAID" => phase'[Link] = "PAID"
    BY <1>2, ServerMoves DEF RowMoves
  <2>2. SeenIsPaid'
    BY <1>2, <2>1 DEF RowMoves, IInv, SeenIsPaid
  <2> QED
    BY <1>2, <2>2, ServerStep DEF RowMoves
<1>3. CASE AnnounceAnswered \/ AnnounceFails
  <2>1. UNCHANGED serverVars \/ \E x \in Tx : Records(x)
    <3>1. announcing # "none" /\ (Records(submittedHash) \/ UNCHANGED serverVars)
      BY <1>3 DEF AnnounceAnswered, AnnounceFails
    <3> QED
      BY <1>1, <3>1
  <2>2. UNCHANGED chain
    BY <1>3 DEF AnnounceAnswered, AnnounceFails
  <2>3. phase[Link] = "PAID" => phase'[Link] = "PAID"
    BY <2>1, <2>2, ServerMoves
  <2>4. SeenIsPaid'
    <3>1. CASE AnnounceAnswered
      BY <3>1, <2>3, AskGood DEF AnnounceAnswered
    <3>2. CASE AnnounceFails
      BY <3>2, <2>3 DEF AnnounceFails, IInv, SeenIsPaid
    <3> QED
      BY <1>3, <3>1, <3>2
  <2> QED
    BY <1>3, <2>1, <2>4, ServerStep DEF AnnounceAnswered, AnnounceFails
<1> QED
  BY <1>2, <1>3

-----------------------------------------------------------------------------
(* Theorems.                                                               *)

LEMMA InitIInv == Init => IInv
<1> SUFFICES ASSUME Init PROVE IInv
  OBVIOUS
<1>1. /\ phase \in [{Link} -> Server!Phase]
      /\ settledBy \in [{Link} -> Tx \cup {NoTx}]
      /\ chain \in [Tx -> Outcome]
  <2>1. /\ phase = [t \in {Link} |-> "OPEN"]
        /\ settledBy = [t \in {Link} |-> NoTx]
        /\ chain = [x \in Tx |-> "none"]
    BY DEF Init
  <2>2. "OPEN" \in Server!Phase /\ "none" \in Outcome
    BY DEF Server!Phase, Outcome
  <2> QED
    BY <2>1, <2>2
<1>3. /\ connecting = FALSE
      /\ flow = "idle" /\ pending = NoTx /\ stored = NoTx /\ reloads = 0
  BY DEF Init
<1>4. connecting \in BOOLEAN
  BY <1>3, Zenon
<1>5. flow \in Flow /\ pending \in Tx \cup {NoTx} /\ stored \in Tx \cup {NoTx}
  BY <1>3 DEF Flow
<1>6. reloads \in 0 .. MaxReloads
  BY <1>3, CheckoutAssumption DEF CheckoutAssumption
<1>7. Shapes
  BY <1>1, <1>4, <1>5, <1>6 DEF Shapes
<1>2. SeenIsPaid /\ Sending /\ OwnPayment /\ Settled /\ NoForgery
  BY DEF Init, SeenIsPaid, Sending, OwnPayment, Settled, NoForgery
<1> QED
  BY <1>2, <1>7 DEF IInv

LEMMA StepGood == IInv /\ [Next]_vars => Good
<1> SUFFICES ASSUME IInv, [Next]_vars PROVE Good
  OBVIOUS
<1>1. CASE UNCHANGED vars
  BY <1>1, SameSight, LookingStep
  DEF vars, serverVars, statusVars, localVars, walletVars, sendVars, hashVars
<1>2. CASE Page
  BY <1>2, StatusGood, WalletGood, PayGood, SendFailsGood, SubmittedGood, ReportGood,
     ReloadGood
  DEF Page
<1>3. CASE Wallet
  BY <1>3, WalletGood, SendFailsGood, SignedGood DEF Wallet
<1>4. CASE World
  BY <1>4, ReportGood, MinedGood, MinedElsewhereGood DEF World
<1> QED
  BY <1>1, <1>2, <1>3, <1>4 DEF Next

(* The strengthening of what follows that every step of the page, the     *)
(* wallet, the chain and the server preserves.                             *)
THEOREM Inductive == Spec => []IInv
<1>1. Init => IInv
  BY InitIInv
<1>2. IInv /\ [Next]_vars => IInv'
  BY StepGood DEF Good
<1> QED
  BY <1>1, <1>2, PTL DEF Spec

(* A page says Paid only of a link that the server has recorded as paid.   *)
THEOREM CheckoutCompletedIsPaid == Spec => []CompletedIsPaid
<1>1. IInv => CompletedIsPaid
  BY DEF IInv, Shapes, Flow, SeenIsPaid, CompletedIsPaid, resolveCheckoutState,
     effectiveFlow, storedPaid, payerState, wallet
<1> QED
  BY <1>1, Inductive, PTL

(* A page that knows of a payment it made never has another one signed.    *)
THEOREM CheckoutNoSecondPayment == Spec => NoSecondPayment
<1>1. IInv /\ [Next]_vars =>
      [(\E x \in Tx : chain[x] = "none" /\ chain'[x] = "sent")
           => stored = NoTx /\ pending = NoTx]_vars
  BY StepGood DEF Good, SignsOnce
<1> QED
  BY <1>1, Inductive, PTL DEF Spec, NoSecondPayment

(* Only a transfer for the request pays its row, whoever reports what and  *)
(* in which order.                                                         *)
THEOREM CheckoutPaidIsTransferred == Spec => []PaidIsTransferred
<1>1. IInv => PaidIsTransferred
  BY DEF IInv, Settled, NoForgery, PaidIsTransferred
<1> QED
  BY <1>1, Inductive, PTL

(* Every payment that the page remembers is proven or was mined late.      *)
THEOREM CheckoutOwnPaymentIsProven == Spec => []OwnPaymentIsProven
<1>1. IInv => OwnPaymentIsProven
  BY OwnCallSettles DEF IInv, OwnPayment, OwnPaymentIsProven
<1> QED
  BY <1>1, Inductive, PTL

=============================================================================
