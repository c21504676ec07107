------------------------- MODULE AgentIntentsProofs --------------------------
(***************************************************************************)
(* Theorems about AgentIntents, for any ids, keys, policies and number of  *)
(* handlers: types, that only verified intents consume reservations, and   *)
(* that neither verifications, nor answers, nor reservations are lost.     *)
(***************************************************************************)
EXTENDS AgentIntents, TotalsProofs

IsVerified(i) == intents[i].status = "VERIFIED"

(* What a handler's state says of the store, whoever writes meanwhile.     *)
Knows(l) ==
    /\ l.step \in {"decide", "reserve", "commit"} =>
           \A i \in Id : l.facts[i].status = "VERIFIED" => IsVerified(i)
    /\ l.step \in {"reserve", "commit"} =>
           l.facts[l.id].status = "NONE" /\ l.at <= now
    /\ l.step \in {"release", "remember"} /\ l.says = "VERIFIED" => IsVerified(l.id)
    /\ l.step = "release" /\ l.says # "NOTHING" => l.key \in Key
    /\ l.step = "persist" /\ l.row.status = "VERIFIED" =>
           l.row.tx = l.tx /\ Pays[l.tx] = l.id
    /\ l.step = "settle" /\ l.row.status = "VERIFIED" => IsVerified(l.id)

AnswersHaveIds == \A k \in Key : answers[k].says # "NOTHING" => answers[k].id \in Id

(* A transaction verifies the one intent it pays, so no submission that    *)
(* judged its row verified finds the transaction taken.                    *)
VerifiedIsPaid == \A i \in Id : IsVerified(i) => Pays[intents[i].tx] = i

(* The inductive invariant.                                                *)
IInv ==
    /\ TypeOK
    /\ VerifiedIsPaid
    /\ \A c \in Call : Knows(calls[c])
    /\ AnswersHaveIds
    /\ ConsumedIsVerified
    /\ VerifiedAnswersHold

(* What no step takes back.                                                *)
StaysVerified == \A i \in Id : IsVerified(i) => IsVerified(i)'
Stands == \A k \in Key : answers[k] # NoAnswer => answers'[k] = answers[k]
Keeps ==
    \A i \in Id :
        /\ ledger[i].status = "RESERVED" =>
              /\ ledger'[i].status # "NONE"
              /\ ledger'[i].amount = ledger[i].amount \/ PastGrace(i, now)
        /\ ledger[i].status = "CONSUMED" => ledger'[i] = ledger[i]

(* Clocks, requests and the chain play no part.                            *)
ClocksOK ==
    /\ now' \in 0 .. MaxNow /\ now' >= now
    /\ mined' \in [Tx -> Time]
    /\ records' \in [Id -> Nat]

-----------------------------------------------------------------------------
(* The ledger.                                                             *)

LEMMA IdsAreFinite == IsFiniteSet(Id)
  BY AgentAssumption DEF AgentAssumption, PolicyAssumption

LEMMA Transitions ==
    ASSUME NEW row \in Reservation, NEW t \in Time
    PROVE  /\ Consume(row, t) \in Reservation /\ Release(row) \in Reservation
           /\ Consume(row, t).amount = row.amount /\ Release(row).amount = row.amount
           /\ row.status = "RESERVED" =>
                  Consume(row, t).status = "CONSUMED" /\ Release(row).status = "RELEASED"
           /\ row.status # "RESERVED" => Consume(row, t) = row /\ Release(row) = row
  BY DEF Consume, Release, Reservation, Time, Never

(* A ledger that is brought up to date keeps what was consumed, consumes   *)
(* what the reader saw verified and releases the rest after its grace.     *)
LEMMA Recovery ==
    ASSUME NEW doc \in [Id -> Reservation], NEW facts \in [Id -> Intent],
           NEW t \in Nat, NEW i \in Id
    PROVE  LET row == RecoverReservations(doc, facts, t)[i] IN
           /\ row \in Reservation
           /\ row.amount = doc[i].amount
           /\ doc[i].status # "RESERVED" => row = doc[i]
           /\ row.status = "CONSUMED" =>
                  doc[i].status = "CONSUMED" \/ facts[i].status = "VERIFIED"
           /\ doc[i].status = "RESERVED" =>
                  /\ row.status \in {"RESERVED", "CONSUMED", "RELEASED"}
                  /\ row.status = "RELEASED" /\ facts[i].status = "NONE" =>
                         PastGrace(i, t)
<1> DEFINE row == RecoverReservations(doc, facts, t)[i]
           seen == facts[i].verifiedAt
<1>1. doc[i] \in Reservation /\ seen \in Time
  BY DEF Intent
<1>2. /\ facts[i].status = "VERIFIED" => row = Consume(doc[i], seen)
      /\ facts[i].status = "FAILED" => row = Release(doc[i])
      /\ facts[i].status = "SUBMITTED" => row = doc[i]
      /\ facts[i].status \notin {"VERIFIED", "FAILED", "SUBMITTED"} =>
             row = IF PastGrace(i, t) THEN Release(doc[i]) ELSE doc[i]
  BY DEF RecoverReservations
<1>3. doc[i].status \in {"NONE", "RESERVED", "CONSUMED", "RELEASED"}
  BY <1>1 DEF Reservation
<1> HIDE DEF row, seen
<1>4. \/ row = Consume(doc[i], seen) /\ facts[i].status = "VERIFIED"
      \/ row = Release(doc[i]) /\ (facts[i].status = "NONE" => PastGrace(i, t))
      \/ row = doc[i]
  BY <1>2
<1>5. /\ row \in Reservation
      /\ row.amount = doc[i].amount
      /\ doc[i].status # "RESERVED" => row = doc[i]
      /\ row.status = "CONSUMED" =>
             doc[i].status = "CONSUMED" \/ facts[i].status = "VERIFIED"
      /\ doc[i].status = "RESERVED" =>
             /\ row.status \in {"RESERVED", "CONSUMED", "RELEASED"}
             /\ row.status = "RELEASED" /\ facts[i].status = "NONE" =>
                    PastGrace(i, t)
  BY <1>1, <1>3, <1>4, Transitions
<1> QED
  BY <1>5 DEF row

-----------------------------------------------------------------------------
(* The states of the handlers.                                             *)

LEMMA Shapes ==
    ASSUME TypeOK, NEW c \in Call
    PROVE  LET l == calls[c] IN
           /\ l.step # "idle" => l.id \in Id
           /\ l.step \in {"decide", "reserve", "commit"} =>
                  l.key \in Key /\ l.amount \in Nat /\ l.facts \in [Id -> Intent]
           /\ l.step \in {"reserve", "commit"} =>
                  l.at \in Nat /\ l.tries \in 1 .. MaxAttempts
           /\ l.step = "commit" => l.read \in [Id -> Reservation]
           /\ l.step = "request" =>
                  l.key \in Key /\ l.amount \in Nat /\ l.held \in BOOLEAN
           /\ l.step \in {"store", "remember"} => l.key \in Key
           /\ l.step \in {"release", "remember"} => l.says \in Says
           /\ l.step = "release" => l.key \in Key \cup {NoKey}
           /\ l.step \in {"verify", "persist"} =>
                  l.key \in Key /\ l.tx \in Tx /\ l.row \in Intent
           /\ l.step = "settle" => l.row \in Intent
<1> DEFINE l == calls[c]
<1>1. l \in CallState
  BY DEF TypeOK
<1>2. CASE l \in {Idle} \cup ReplyState
  BY <1>2 DEF Idle, ReplyState
<1>3. CASE l \in CreateState
  BY <1>3 DEF CreateState
<1>4. CASE l \in SubmitState
  BY <1>4 DEF SubmitState
<1> QED
  BY <1>1, <1>2, <1>3, <1>4 DEF CallState

LEMMA KnowsCarries ==
    ASSUME NEW l \in CallState, Knows(l), StaysVerified, now \in Nat, ClocksOK
    PROVE  Knows(l)'
<1>1. now' \in Nat /\ now' >= now
  BY DEF ClocksOK
<1>2. l.step # "idle" => l.id \in Id
  BY DEF CallState, Idle, CreateState, SubmitState, ReplyState
<1>3. l.step \in {"reserve", "commit"} => l.at \in Nat
  BY DEF CallState, Idle, CreateState, SubmitState, ReplyState
<1> QED
  BY <1>1, <1>2, <1>3 DEF Knows, StaysVerified

(* A step of one handler.                                                  *)
LEMMA CallStep ==
    ASSUME IInv, StaysVerified, ClocksOK, NEW c \in Call, NEW l \in CallState,
           Knows(l)', calls' = [calls EXCEPT ![c] = l]
    PROVE  calls' \in [Call -> CallState] /\ \A d \in Call : Knows(calls[d])'
<1>1. calls \in [Call -> CallState] /\ now \in Nat
  BY DEF IInv, TypeOK
<1>2. ASSUME NEW d \in Call PROVE Knows(calls[d])'
  <2>1. CASE d = c
    <3>1. calls'[d] = l
      BY <2>1, <1>1
    <3> QED
      BY <3>1 DEF Knows, IsVerified
  <2>2. CASE d # c
    <3>1. calls'[d] = calls[d] /\ calls[d] \in CallState /\ Knows(calls[d])
      BY <2>2, <1>1 DEF IInv
    <3>2. PICK m \in CallState : m = calls[d]
      BY <3>1
    <3>3. Knows(m) /\ calls'[d] = m
      BY <3>1, <3>2
    <3>4. Knows(m)'
      BY <1>1, <3>3, KnowsCarries
    <3> QED
      BY <3>3, <3>4 DEF Knows, IsVerified
  <2> QED
    BY <2>1, <2>2
<1> QED
  BY <1>1, <1>2

LEMMA IdleKnows == Idle \in CallState /\ Knows(Idle)'
  BY DEF CallState, Knows, Idle

(* Steps that leave intents and answers alone, and those that leave the    *)
(* ledger alone.                                                           *)
LEMMA StoreStep ==
    ASSUME IInv, ClocksOK, calls' \in [Call -> CallState],
           \A c \in Call : Knows(calls[c])',
           intents' \in [Id -> Intent], StaysVerified, VerifiedIsPaid',
           answers' \in [Key -> Answer], AnswersHaveIds', VerifiedAnswersHold',
           UNCHANGED ledger
    PROVE  IInv' /\ Keeps
<1>1. TypeOK'
  BY DEF IInv, TypeOK, ClocksOK
<1>2. ConsumedIsVerified'
  BY DEF IInv, ConsumedIsVerified, StaysVerified, IsVerified
<1>3. Keeps
  BY DEF Keeps, IInv, TypeOK, Reservation
<1> QED
  BY <1>1, <1>2, <1>3 DEF IInv

LEMMA LedgerStep ==
    ASSUME IInv, ClocksOK, calls' \in [Call -> CallState],
           \A c \in Call : Knows(calls[c])',
           ledger' \in [Id -> Reservation], ConsumedIsVerified',
           UNCHANGED <<intents, answers>>
    PROVE  IInv' /\ StaysVerified /\ Stands
<1>1. TypeOK'
  BY DEF IInv, TypeOK, ClocksOK
<1>2. AnswersHaveIds' /\ VerifiedAnswersHold' /\ VerifiedIsPaid'
  BY DEF IInv, AnswersHaveIds, VerifiedAnswersHold, VerifiedIsPaid, IsVerified
<1>3. StaysVerified /\ Stands
  BY DEF StaysVerified, IsVerified, Stands
<1> QED
  BY <1>1, <1>2, <1>3 DEF IInv

Good == IInv' /\ StaysVerified /\ Stands /\ Keeps

(* A step of a handler that only decides.                                  *)
LEMMA LocalStep ==
    ASSUME IInv, ClocksOK, UNCHANGED <<intents, answers, ledger>>,
           NEW c \in Call, NEW l \in CallState, Knows(l),
           calls' = [calls EXCEPT ![c] = l]
    PROVE  Good
<1>1. StaysVerified /\ now \in Nat
  BY DEF StaysVerified, IsVerified, IInv, TypeOK
<1>2. Knows(l)'
  BY <1>1, KnowsCarries
<1>3. calls' \in [Call -> CallState] /\ \A d \in Call : Knows(calls[d])'
  BY <1>1, <1>2, CallStep
<1>4. ledger' \in [Id -> Reservation] /\ ConsumedIsVerified'
  BY DEF IInv, TypeOK, ConsumedIsVerified
<1>5. Keeps
  BY DEF Keeps, IInv, TypeOK, Reservation
<1> QED
  BY <1>3, <1>4, <1>5, LedgerStep DEF Good

(* An answer is remembered once.                                           *)
LEMMA Remembering ==
    ASSUME IInv, NEW k \in Key, NEW i \in Id, NEW says \in Says,
           says = "VERIFIED" => IsVerified(i)',
           answers' = RememberAnswer(k, i, says), StaysVerified
    PROVE  /\ answers' \in [Key -> Answer] /\ AnswersHaveIds'
           /\ VerifiedAnswersHold' /\ Stands
<1>1. answers \in [Key -> Answer]
  BY DEF IInv, TypeOK
<1>2. CASE answers' = answers
  BY <1>1, <1>2 DEF IInv, AnswersHaveIds, VerifiedAnswersHold, Stands,
     StaysVerified, IsVerified, Says
<1>3. CASE Unanswered(k) /\ says # "NOTHING"
  <2> DEFINE answer == [id |-> i, says |-> says]
  <2>1. answer \in Answer /\ answer.id = i /\ answer.says = says
    BY DEF Answer
  <2>2. answers' = [answers EXCEPT ![k] = answer]
    BY <1>3 DEF RememberAnswer
  <2> HIDE DEF answer
  <2>3. answers' \in [Key -> Answer] /\ answers'[k] = answer
        /\ \A j \in Key \ {k} : answers'[j] = answers[j]
    BY <1>1, <2>1, <2>2
  <2>4. AnswersHaveIds' /\ Stands
    BY <2>1, <2>3, <1>3 DEF IInv, AnswersHaveIds, Stands, Unanswered
  <2>5. VerifiedAnswersHold'
    <3> SUFFICES ASSUME NEW j \in Key, answers'[j].says = "VERIFIED"
                 PROVE  intents'[answers'[j].id].status = "VERIFIED"
      BY DEF VerifiedAnswersHold
    <3>1. CASE j = k
      BY <3>1, <2>1, <2>3 DEF IsVerified
    <3>2. CASE j # k
      <4>1. answers'[j] = answers[j] /\ answers[j].id \in Id
            /\ intents[answers[j].id].status = "VERIFIED"
        BY <3>2, <2>3 DEF IInv, AnswersHaveIds, VerifiedAnswersHold
      <4> QED
        BY <4>1 DEF StaysVerified, IsVerified
    <3> QED
      BY <3>1, <3>2
  <2> QED
    BY <2>3, <2>4, <2>5
<1> QED
  BY <1>2, <1>3 DEF RememberAnswer

(* Replying to a request keeps what the answer says.                       *)
LEMMA ReplyState_OK ==
    ASSUME NEW i \in Id, NEW k \in Key \cup {NoKey}, NEW says \in Says,
           says # "NOTHING" => k \in Key, says = "VERIFIED" => IsVerified(i)
    PROVE  LET l == IF says # "NOTHING"
                    THEN [step |-> "remember", id |-> i, key |-> k, says |-> says]
                    ELSE Idle
           IN  l \in CallState /\ Knows(l)
  BY DEF CallState, ReplyState, Knows, Idle

-----------------------------------------------------------------------------
(* Creating.                                                               *)

LEMMA InitIInv == Init => IInv
<1> SUFFICES ASSUME Init PROVE IInv
  OBVIOUS
<1> USE AgentAssumption DEF AgentAssumption
<1>1. /\ NoIntent \in Intent /\ NoReservation \in Reservation /\ NoAnswer \in Answer
      /\ Idle \in CallState /\ Never \in Time
  BY DEF NoIntent, Intent, NoReservation, Reservation, NoAnswer, Answer, CallState,
     Time, Never, Says
<1>2. TypeOK
  BY <1>1 DEF Init, TypeOK
<1>3. \A c \in Call : Knows(calls[c])
  BY DEF Init, Knows, Idle
<1>4. /\ AnswersHaveIds /\ ConsumedIsVerified /\ VerifiedAnswersHold
      /\ VerifiedIsPaid
  BY DEF Init, VerifiedIsPaid, IsVerified, NoIntent, AnswersHaveIds, ConsumedIsVerified, VerifiedAnswersHold, NoAnswer,
     NoReservation
<1> QED
  BY <1>2, <1>3, <1>4 DEF IInv

LEMMA SameClocks ==
    ASSUME IInv, UNCHANGED <<now, mined, records>>
    PROVE  ClocksOK
  BY AgentAssumption DEF AgentAssumption, IInv, TypeOK, ClocksOK

LEMMA BeginGood ==
    ASSUME IInv, NEW c \in Call, NEW l \in CallState, Knows(l), Begin(c, l),
           UNCHANGED <<now, mined, records, intents, answers, ledger>>
    PROVE  Good
<1>1. ClocksOK
  BY SameClocks
<1> QED
  BY <1>1, LocalStep DEF Begin

LEMMA EndGood ==
    ASSUME IInv, ClocksOK, NEW c \in Call, End(c),
           UNCHANGED <<intents, answers, ledger>>
    PROVE  Good
<1>1. Idle \in CallState /\ Knows(Idle)
  BY DEF CallState, Knows, Idle
<1> QED
  BY <1>1, LocalStep DEF End

LEMMA ReplyGood ==
    ASSUME IInv, ClocksOK, NEW c \in Call, NEW says \in Says, Reply(c, says),
           calls[c].id \in Id, calls[c].key \in Key \cup {NoKey},
           says # "NOTHING" => calls[c].key \in Key,
           says = "VERIFIED" => IsVerified(calls[c].id),
           UNCHANGED <<intents, answers, ledger>>
    PROVE  Good
<1> DEFINE i == calls[c].id
           k == calls[c].key
           l == IF says # "NOTHING"
                THEN [step |-> "remember", id |-> i, key |-> k, says |-> says]
                ELSE Idle
<1>1. calls' = [calls EXCEPT ![c] = l]
  BY DEF Reply
<1>2. l \in CallState /\ Knows(l)
  BY ReplyState_OK
<1> HIDE DEF l
<1> QED
  BY <1>1, <1>2, LocalStep

LEMMA CreateReadGood ==
    ASSUME IInv, NEW c \in Call, NEW k \in Key, NEW new \in Creates[k],
           CreateRead(c, new.id, new.amount, k)
    PROVE  Good
<1> DEFINE l == [step |-> "decide", id |-> new.id, key |-> k,
                 amount |-> new.amount, facts |-> intents]
<1>1. new.id \in Id /\ new.amount \in Nat
  BY AgentAssumption DEF AgentAssumption
<1>2. l \in CallState
  BY <1>1 DEF CallState, CreateState, IInv, TypeOK
<1>3. Knows(l)
  BY DEF Knows, IsVerified
<1>4. Begin(c, l) /\ UNCHANGED <<now, mined, records, intents, answers, ledger>>
  BY DEF CreateRead
<1> HIDE DEF l
<1> QED
  BY <1>2, <1>3, <1>4, BeginGood

(* The next attempt to reserve knows what the call knew.                   *)
LEMMA AttemptGood ==
    ASSUME IInv, ClocksOK, NEW c \in Call, NEW at \in Nat,
           NEW tries \in 1 .. MaxAttempts, Attempt(c, at, tries), at <= now,
           calls[c].step \in {"decide", "commit"},
           calls[c].facts[calls[c].id].status = "NONE",
           UNCHANGED <<intents, answers, ledger>>
    PROVE  Good
<1> DEFINE l == [step |-> "reserve", id |-> calls[c].id, key |-> calls[c].key,
                 amount |-> calls[c].amount, facts |-> calls[c].facts, at |-> at,
                 tries |-> tries]
<1>1. calls[c].id \in Id /\ calls[c].key \in Key /\ calls[c].amount \in Nat
      /\ calls[c].facts \in [Id -> Intent]
  BY Shapes DEF IInv
<1>2. l \in CallState
  BY <1>1 DEF CallState, CreateState
<1>3. Knows(calls[c])
  BY DEF IInv
<1>4. Knows(l)
  BY <1>3 DEF Knows
<1>5. calls' = [calls EXCEPT ![c] = l]
  BY DEF Attempt
<1> HIDE DEF l
<1> QED
  BY <1>2, <1>4, <1>5, LocalStep

LEMMA DecideGood ==
    ASSUME IInv, NEW c \in Call, Decide(c)
    PROVE  Good
<1> DEFINE l == calls[c]
           known == l.facts[l.id]
<1>1. /\ l.step = "decide" /\ l.id \in Id /\ l.key \in Key
      /\ known.status \in {"NONE", "AWAITING_PAYMENT", "SUBMITTED", "VERIFIED", "FAILED"}
  BY Shapes DEF Decide, At, IInv, Intent
<1>2. known.status = "VERIFIED" => IsVerified(l.id)
  BY <1>1 DEF IInv, Knows
<1>3. ClocksOK /\ UNCHANGED <<intents, answers, ledger>>
  BY SameClocks DEF Decide
<1>4. CASE Reply(c, Showing(known.status))
  <2>1. Showing(known.status) \in Says
        /\ (Showing(known.status) = "VERIFIED" => IsVerified(l.id))
    BY <1>1, <1>2 DEF Showing, Says
  <2> QED
    BY <2>1, <1>1, <1>3, <1>4, ReplyGood
<1>5. CASE End(c)
  BY <1>3, <1>5, EndGood
<1>6. CASE Reply(c, "REFUSED")
  <2>1. "REFUSED" \in Says
    BY DEF Says
  <2> QED
    BY <2>1, <1>1, <1>3, <1>6, ReplyGood
<1>7. CASE Attempt(c, now, 1) /\ known.status = "NONE"
  <2>1. now \in Nat /\ 1 \in 1 .. MaxAttempts
    BY AgentAssumption DEF AgentAssumption, IInv, TypeOK
  <2> QED
    BY <2>1, <1>1, <1>3, <1>7, AttemptGood
<1> QED
  BY <1>4, <1>5, <1>6, <1>7 DEF Decide

LEMMA ProceedGood ==
    ASSUME IInv, NEW c \in Call, NEW added \in BOOLEAN, Proceed(c, added),
           calls[c].step \in {"reserve", "commit"}, StaysVerified, ClocksOK
    PROVE  calls' \in [Call -> CallState] /\ \A d \in Call : Knows(calls[d])'
<1> DEFINE l == [step |-> "request", id |-> calls[c].id, key |-> calls[c].key,
                 amount |-> calls[c].amount, held |-> added]
<1>1. calls[c].id \in Id /\ calls[c].key \in Key /\ calls[c].amount \in Nat
  BY Shapes DEF IInv
<1>2. l \in CallState /\ l.step = "request"
  BY <1>1 DEF CallState, CreateState
<1>3. calls' = [calls EXCEPT ![c] = l]
  BY DEF Proceed
<1> HIDE DEF l
<1>4. PICK next \in CallState : next = l
  BY <1>2
<1>5. Knows(next)'
  BY <1>2, <1>4 DEF Knows
<1> QED
  BY <1>3, <1>4, <1>5, CallStep

LEMMA ReserveReadGood ==
    ASSUME IInv, NEW c \in Call, ReserveRead(c)
    PROVE  Good
<1> DEFINE l == calls[c]
           m == [step |-> "commit", id |-> l.id, key |-> l.key,
                 amount |-> l.amount, facts |-> l.facts, at |-> l.at,
                 tries |-> l.tries, read |-> ledger]
<1>1. /\ l.step = "reserve" /\ l.id \in Id /\ l.key \in Key /\ l.amount \in Nat
      /\ l.facts \in [Id -> Intent] /\ l.at \in Nat /\ l.tries \in 1 .. MaxAttempts
      /\ Knows(l)
  BY Shapes DEF ReserveRead, At, IInv
<1>2. ClocksOK /\ UNCHANGED <<intents, answers, ledger>>
  BY SameClocks DEF ReserveRead
<1>3. CASE End(c)
  BY <1>2, <1>3, EndGood
<1>4. CASE Proceed(c, FALSE)
  <2>1. StaysVerified
    BY <1>2 DEF StaysVerified, IsVerified
  <2>2. calls' \in [Call -> CallState] /\ \A d \in Call : Knows(calls[d])'
    BY <1>1, <1>2, <1>4, <2>1, ProceedGood
  <2>3. ledger' \in [Id -> Reservation] /\ ConsumedIsVerified' /\ Keeps
    BY <1>2 DEF IInv, TypeOK, ConsumedIsVerified, Keeps, Reservation
  <2> QED
    BY <1>2, <2>2, <2>3, LedgerStep DEF Good
<1>5. CASE Reply(c, "REFUSED")
  <2>1. "REFUSED" \in Says
    BY DEF Says
  <2> QED
    BY <2>1, <1>1, <1>2, <1>5, ReplyGood
<1>6. CASE calls' = [calls EXCEPT ![c] = m]
  <2>1. ledger \in [Id -> Reservation]
    BY DEF IInv, TypeOK
  <2>2. m \in CallState
    BY <1>1, <2>1 DEF CallState, CreateState
  <2>3. Knows(m)
    BY <1>1 DEF Knows
  <2> HIDE DEF m
  <2> QED
    BY <1>2, <1>6, <2>2, <2>3, LocalStep
<1> QED
  BY <1>3, <1>4, <1>5, <1>6 DEF ReserveRead

(* The write of a reservation keeps those of others, and releases and      *)
(* gives anew only what is past its grace.                                 *)
LEMMA ReserveCommitGood ==
    ASSUME IInv, NEW c \in Call, ReserveCommit(c)
    PROVE  Good
<1> DEFINE l == calls[c]
           doc == Recovered(l, ledger)
           live == IsLive(doc[l.id])
           next == IF live THEN doc
                   ELSE [doc EXCEPT ![l.id] = NewReservation(l.amount)]
<1>1. /\ l.step = "commit" /\ l.id \in Id /\ l.key \in Key /\ l.amount \in Nat
      /\ l.facts \in [Id -> Intent] /\ l.at \in Nat /\ l.tries \in 1 .. MaxAttempts
      /\ Knows(l)
  BY Shapes DEF ReserveCommit, At, IInv
<1>2. ClocksOK /\ UNCHANGED <<intents, answers>>
  BY SameClocks DEF ReserveCommit
<1>3. StaysVerified
  BY <1>2 DEF StaysVerified, IsVerified
<1>4. \/ ledger' = next /\ Proceed(c, ~live)
      \/ Attempt(c, l.at, l.tries + 1) /\ l.tries < MaxAttempts /\ UNCHANGED ledger
      \/ End(c) /\ UNCHANGED ledger
  BY DEF ReserveCommit, Commit
<1>5. CASE ledger' = next /\ Proceed(c, ~live)
  <2>1. live \in BOOLEAN
    BY DEF IsLive
  <2>2. calls' \in [Call -> CallState] /\ \A d \in Call : Knows(calls[d])'
    <3> HIDE DEF live
    <3> QED
      BY <1>1, <1>2, <1>3, <1>5, <2>1, ProceedGood
  <2>3. ledger \in [Id -> Reservation]
    BY DEF IInv, TypeOK
  <2>4. \A i \in Id :
          /\ doc[i] \in Reservation
          /\ doc[i].amount = ledger[i].amount
          /\ ledger[i].status # "RESERVED" => doc[i] = ledger[i]
          /\ doc[i].status = "CONSUMED" =>
                 ledger[i].status = "CONSUMED" \/ l.facts[i].status = "VERIFIED"
          /\ ledger[i].status = "RESERVED" =>
                 /\ doc[i].status \in {"RESERVED", "CONSUMED", "RELEASED"}
                 /\ doc[i].status = "RELEASED" /\ l.facts[i].status = "NONE" =>
                        PastGrace(i, l.at)
    BY <1>1, <2>3, Recovery DEF Recovered
  <2>5. doc \in [Id -> Reservation]
    BY <2>4 DEF Recovered, RecoverReservations
  <2>6. NewReservation(l.amount) \in Reservation
        /\ NewReservation(l.amount).status = "RESERVED"
    BY <1>1 DEF NewReservation, Reservation, Time
  <2>7. \A i \in Id : ledger'[i] = IF i = l.id /\ ~live THEN NewReservation(l.amount)
                                   ELSE doc[i]
    <3> HIDE DEF doc, live
    <3> QED
      BY <1>5, <2>5
  <2>8. ledger' \in [Id -> Reservation]
    <3> HIDE DEF doc, live
    <3> QED
      BY <1>5, <2>5, <2>6
  <2>9. ConsumedIsVerified'
    <3> SUFFICES ASSUME NEW i \in Id, ledger'[i].status = "CONSUMED"
                 PROVE  intents[i].status = "VERIFIED"
      BY <1>2 DEF ConsumedIsVerified
    <3>1. doc[i].status = "CONSUMED"
      BY <2>6, <2>7
    <3>2. ledger[i].status = "CONSUMED" \/ l.facts[i].status = "VERIFIED"
      BY <2>4, <3>1
    <3> QED
      BY <3>2, <1>1 DEF Knows, IsVerified, IInv, ConsumedIsVerified
  <2>10. Keeps
    <3> SUFFICES ASSUME NEW i \in Id
                 PROVE  /\ ledger[i].status = "RESERVED" =>
                              /\ ledger'[i].status # "NONE"
                              /\ \/ ledger'[i].amount = ledger[i].amount
                                 \/ PastGrace(i, now)
                        /\ ledger[i].status = "CONSUMED" => ledger'[i] = ledger[i]
      BY DEF Keeps
    <3>1. CASE i = l.id /\ ~live
      <4>1. doc[i].status \notin {"RESERVED", "CONSUMED"}
        BY <3>1 DEF IsLive
      <4>2. ledger[i].status # "CONSUMED"
        BY <4>1, <2>4
      <4>3. ledger[i].status = "RESERVED" => PastGrace(i, l.at)
        BY <4>1, <2>4, <3>1, <1>1 DEF Knows
      <4>4. Expiry[i] \in Nat /\ Grace \in Nat /\ now \in Nat /\ l.at <= now
        BY <1>1, AgentAssumption DEF AgentAssumption, PolicyAssumption, Knows, IInv, TypeOK
      <4>5. PastGrace(i, l.at) => PastGrace(i, now)
        BY <4>4, <1>1 DEF PastGrace
      <4>6. ledger'[i].status = "RESERVED"
        BY <2>6, <2>7, <3>1
      <4> QED
        BY <4>2, <4>3, <4>5, <4>6
    <3>2. CASE ~(i = l.id /\ ~live)
      <4>1. ledger'[i] = doc[i]
        BY <2>7, <3>2
      <4> HIDE DEF doc
      <4> QED
        BY <4>1, <2>4
    <3> QED
      BY <3>1, <3>2
  <2> QED
    BY <1>2, <2>2, <2>8, <2>9, <2>10, LedgerStep DEF Good
<1>6. CASE Attempt(c, l.at, l.tries + 1) /\ l.tries < MaxAttempts /\ UNCHANGED ledger
  <2>1. l.tries + 1 \in 1 .. MaxAttempts
    BY <1>1, <1>6, AgentAssumption DEF AgentAssumption
  <2>2. l.at <= now /\ l.facts[l.id].status = "NONE"
    BY <1>1 DEF Knows
  <2> QED
    BY <2>1, <2>2, <1>1, <1>2, <1>6, AttemptGood
<1>7. CASE End(c) /\ UNCHANGED ledger
  BY <1>2, <1>7, EndGood
<1> QED
  BY <1>4, <1>5, <1>6, <1>7

LEMMA CreateRequestGood ==
    ASSUME IInv, NEW c \in Call, CreateRequest(c)
    PROVE  Good
<1> DEFINE l == calls[c]
<1>1. l.step = "request" /\ l.id \in Id /\ l.key \in Key /\ l.amount \in Nat
  BY Shapes DEF CreateRequest, At, IInv
<1>2. UNCHANGED <<now, mined, intents, answers, ledger>>
  BY DEF CreateRequest
<1>3. records' \in {records, [records EXCEPT ![l.id] = l.amount]}
  BY DEF CreateRequest
<1>4. ClocksOK
  BY <1>1, <1>2, <1>3, AgentAssumption
  DEF AgentAssumption, IInv, TypeOK, ClocksOK
<1>5. CASE \E says \in {"REFUSED", "NOTHING"} : GiveUp(c, says)
  <2>1. PICK says \in {"REFUSED", "NOTHING"} : GiveUp(c, says)
    BY <1>5
  <2>2. says \in Says
    BY DEF Says
  <2>3. CASE Reply(c, says)
    BY <2>2, <2>3, <1>1, <1>2, <1>4, ReplyGood
  <2>4. CASE ~Reply(c, says)
    <3> DEFINE m == [step |-> "release", id |-> l.id, key |-> l.key, says |-> says]
    <3>1. calls' = [calls EXCEPT ![c] = m]
      BY <2>1, <2>4 DEF GiveUp
    <3>2. m \in CallState
      BY <1>1, <2>2 DEF CallState, ReplyState
    <3>3. Knows(m)
      BY <1>1, <2>1 DEF Knows
    <3> HIDE DEF m
    <3> QED
      BY <3>1, <3>2, <3>3, <1>2, <1>4, LocalStep
  <2> QED
    BY <2>3, <2>4
<1>6. CASE calls' = [calls EXCEPT ![c] = [step |-> "store", id |-> l.id, key |-> l.key]]
  <2> DEFINE m == [step |-> "store", id |-> l.id, key |-> l.key]
  <2>1. m \in CallState
    BY <1>1 DEF CallState, CreateState
  <2>2. Knows(m)
    BY DEF Knows
  <2>3. calls' = [calls EXCEPT ![c] = m]
    BY <1>6
  <2> HIDE DEF m
  <2> QED
    BY <2>1, <2>2, <2>3, <1>2, <1>4, LocalStep
<1> QED
  BY <1>5, <1>6 DEF CreateRequest

(* A merge of rows never takes a verification back.                        *)
LEMMA Merging ==
    ASSUME IInv, NEW i \in Id, NEW row \in Intent,
           row.status = "VERIFIED" => Pays[row.tx] = i,
           intents' = [intents EXCEPT ![i] = MergeAgentIntent(@, row)]
    PROVE  /\ intents' \in [Id -> Intent] /\ StaysVerified /\ VerifiedIsPaid'
           /\ row.status = "VERIFIED" => IsVerified(i)'
<1>1. intents \in [Id -> Intent]
  BY DEF IInv, TypeOK
<1>2. MergeAgentIntent(intents[i], row) \in Intent
  BY <1>1 DEF MergeAgentIntent
<1>3. \A j \in Id : intents'[j] = IF j = i THEN MergeAgentIntent(intents[i], row)
                                  ELSE intents[j]
  BY <1>1
<1> QED
  BY <1>1, <1>2, <1>3
  DEF MergeAgentIntent, StaysVerified, IsVerified, IInv, VerifiedIsPaid

LEMMA StoreIntentGood ==
    ASSUME IInv, NEW c \in Call, StoreIntent(c)
    PROVE  Good
<1> DEFINE l == calls[c]
<1>1. l.id \in Id /\ l.key \in Key
  BY Shapes DEF StoreIntent, At, IInv
<1>2. NewIntent \in Intent /\ NewIntent.status # "VERIFIED" /\ "SHOWN" \in Says
  BY DEF NewIntent, Intent, Time, Says
<1>3. /\ intents' = [intents EXCEPT ![l.id] = MergeAgentIntent(@, NewIntent)]
      /\ answers' = RememberAnswer(l.key, l.id, "SHOWN")
      /\ End(c) /\ UNCHANGED ledger
  BY DEF StoreIntent
<1>4. intents' \in [Id -> Intent] /\ StaysVerified /\ VerifiedIsPaid'
  BY <1>1, <1>2, <1>3, Merging
<1>5. answers' \in [Key -> Answer] /\ AnswersHaveIds' /\ VerifiedAnswersHold' /\ Stands
  BY <1>1, <1>2, <1>3, <1>4, Remembering
<1>6. ClocksOK
  BY SameClocks DEF StoreIntent
<1>7. calls' \in [Call -> CallState] /\ \A d \in Call : Knows(calls[d])'
  BY <1>3, <1>4, <1>6, IdleKnows, CallStep DEF End
<1> QED
  BY <1>3, <1>4, <1>5, <1>6, <1>7, StoreStep DEF Good

LEMMA RememberGood ==
    ASSUME IInv, NEW c \in Call, Remember(c)
    PROVE  Good
<1> DEFINE l == calls[c]
<1>1. /\ l.step = "remember" /\ l.id \in Id /\ l.key \in Key /\ l.says \in Says
      /\ Knows(l)
  BY Shapes DEF Remember, At, IInv
<1>2. /\ answers' = RememberAnswer(l.key, l.id, l.says)
      /\ End(c) /\ UNCHANGED <<intents, ledger>>
  BY DEF Remember
<1>3. StaysVerified /\ intents' \in [Id -> Intent] /\ VerifiedIsPaid'
  BY <1>2 DEF StaysVerified, IsVerified, IInv, TypeOK, VerifiedIsPaid
<1>4. l.says = "VERIFIED" => intents'[l.id].status = "VERIFIED"
  BY <1>1, <1>3 DEF Knows, StaysVerified, IsVerified
<1>5. answers' \in [Key -> Answer] /\ AnswersHaveIds' /\ VerifiedAnswersHold' /\ Stands
  BY <1>1, <1>2, <1>3, <1>4, Remembering DEF IsVerified
<1>6. ClocksOK
  BY SameClocks DEF Remember
<1>7. calls' \in [Call -> CallState] /\ \A d \in Call : Knows(calls[d])'
  BY <1>2, <1>3, <1>6, IdleKnows, CallStep DEF End
<1> QED
  BY <1>2, <1>3, <1>5, <1>6, <1>7, StoreStep DEF Good

(* A release touches nothing that is consumed.                             *)
LEMMA ReleaseKeeps ==
    ASSUME IInv, NEW i \in Id,
           ledger' = ledger \/ ledger' = [ledger EXCEPT ![i] = Release(@)],
           UNCHANGED intents
    PROVE  ledger' \in [Id -> Reservation] /\ ConsumedIsVerified' /\ Keeps
<1>1. ledger \in [Id -> Reservation] /\ ConsumedIsVerified
  BY DEF IInv, TypeOK
<1>2. Never \in Time
  BY DEF Time
<1>3. \A j \in Id : /\ ledger'[j] = ledger[j] \/ (j = i /\ ledger'[j] = Release(ledger[j]))
                    /\ ledger[j] \in Reservation
  BY <1>1
<1>4. \A j \in Id : /\ ledger'[j] \in Reservation
                    /\ ledger'[j].amount = ledger[j].amount
                    /\ ledger[j].status = "RESERVED" =>
                           ledger'[j].status \in {"RESERVED", "RELEASED"}
                    /\ ledger[j].status # "RESERVED" => ledger'[j] = ledger[j]
  BY <1>2, <1>3, Transitions
<1>5. ledger' \in [Id -> Reservation]
  BY <1>1, <1>4
<1> QED
  BY <1>1, <1>4, <1>5 DEF ConsumedIsVerified, Keeps

LEMMA ReleaseHoldGood ==
    ASSUME IInv, NEW c \in Call, ReleaseHold(c)
    PROVE  Good
<1> DEFINE l == calls[c]
           m == IF l.says # "NOTHING"
                THEN [step |-> "remember", id |-> l.id, key |-> l.key, says |-> l.says]
                ELSE Idle
<1>1. /\ l.step = "release" /\ l.id \in Id /\ l.key \in Key \cup {NoKey}
      /\ l.says \in Says /\ Knows(l)
  BY Shapes DEF ReleaseHold, At, IInv
<1>2. /\ ledger' = ledger \/ ledger' = [ledger EXCEPT ![l.id] = Release(@)]
      /\ UNCHANGED <<intents, answers>>
      /\ calls' = [calls EXCEPT ![c] = m]
  BY DEF ReleaseHold, Reply
<1>3. ClocksOK /\ StaysVerified /\ now \in Nat
  BY <1>2, SameClocks DEF ReleaseHold, StaysVerified, IsVerified, IInv, TypeOK
<1>4. m \in CallState /\ Knows(m)
  <2>1. /\ l.says # "NOTHING" => l.key \in Key
        /\ l.says = "VERIFIED" => IsVerified(l.id)
    BY <1>1 DEF Knows
  <2> QED
    BY <1>1, <2>1, ReplyState_OK
<1> HIDE DEF m
<1>5. PICK next \in CallState : next = m
  BY <1>4
<1>6. calls' \in [Call -> CallState] /\ \A d \in Call : Knows(calls[d])'
  <2>1. Knows(next)
    BY <1>4, <1>5
  <2>2. Knows(next)'
    BY <2>1, <1>3, KnowsCarries
  <2> QED
    BY <2>2, <1>2, <1>3, <1>5, CallStep
<1>7. ledger' \in [Id -> Reservation] /\ ConsumedIsVerified' /\ Keeps
  BY <1>1, <1>2, ReleaseKeeps
<1> QED
  BY <1>2, <1>3, <1>6, <1>7, LedgerStep DEF Good

-----------------------------------------------------------------------------
(* Reading and submitting.                                                 *)

LEMMA GetReadGood ==
    ASSUME IInv, NEW c \in Call, NEW i \in Id, GetRead(c, i)
    PROVE  Good
<1> DEFINE l == [step |-> "release", id |-> i, key |-> NoKey, says |-> "NOTHING"]
<1>1. l \in CallState
  BY DEF CallState, ReplyState, Says
<1>2. Knows(l)
  BY DEF Knows
<1>3. Begin(c, l) /\ UNCHANGED <<now, mined, records, intents, answers, ledger>>
  BY DEF GetRead
<1> HIDE DEF l
<1> QED
  BY <1>1, <1>2, <1>3, BeginGood

LEMMA SubmitReadGood ==
    ASSUME IInv, NEW c \in Call, NEW k \in Key, NEW paid \in Submits[k],
           SubmitRead(c, paid.id, paid.tx, k)
    PROVE  Good
<1> DEFINE i == paid.id
           t == paid.tx
           l == [step |-> "remember", id |-> i, key |-> k, says |-> "VERIFIED"]
           m == [step |-> "verify", id |-> i, key |-> k, tx |-> t, row |-> intents[i]]
<1>1. i \in Id /\ t \in Tx /\ intents[i] \in Intent
  BY AgentAssumption DEF AgentAssumption, IInv, TypeOK
<1>2. /\ \/ Begin(c, l) /\ IsVerified(i)
         \/ Begin(c, m)
      /\ UNCHANGED <<now, mined, records, intents, answers, ledger>>
  BY DEF SubmitRead, IsVerified
<1>3. CASE Begin(c, l) /\ IsVerified(i)
  <2>1. l \in CallState
    BY <1>1 DEF CallState, ReplyState, Says
  <2>2. Knows(l)
    BY <1>3 DEF Knows
  <2> HIDE DEF l
  <2> QED
    BY <1>2, <1>3, <2>1, <2>2, BeginGood
<1>4. CASE Begin(c, m)
  <2>1. m \in CallState
    BY <1>1 DEF CallState, SubmitState
  <2>2. Knows(m)
    BY DEF Knows
  <2> HIDE DEF m
  <2> QED
    BY <1>2, <1>4, <2>1, <2>2, BeginGood
<1> QED
  BY <1>2, <1>3, <1>4

LEMMA VerifyGood ==
    ASSUME IInv, NEW c \in Call, Verify(c)
    PROVE  Good
<1> DEFINE l == calls[c]
           m(status) == [step |-> "persist", id |-> l.id, key |-> l.key, tx |-> l.tx,
                         row |-> Judged(l.row, l.tx, status)]
<1>1. l.id \in Id /\ l.key \in Key /\ l.tx \in Tx /\ l.row \in Intent
  BY Shapes DEF Verify, At, IInv
<1>2. PICK status \in {"SUBMITTED", "VERIFIED", "FAILED"} :
          /\ calls' = [calls EXCEPT ![c] = m(status)]
          /\ status = "VERIFIED" => Pays[l.tx] = l.id
  BY DEF Verify, Binds
<1>3. Judged(l.row, l.tx, status) \in Intent
      /\ Judged(l.row, l.tx, status).status = status
      /\ Judged(l.row, l.tx, status).tx = l.tx
  BY <1>1 DEF Judged, Intent, Time, IInv, TypeOK
<1>4. m(status) \in CallState
  BY <1>1, <1>3 DEF CallState, SubmitState
<1>5. Knows(m(status))
  BY <1>2, <1>3 DEF Knows
<1>6. ClocksOK /\ UNCHANGED <<intents, answers, ledger>>
  BY SameClocks DEF Verify
<1> HIDE DEF m
<1> QED
  BY <1>2, <1>4, <1>5, <1>6, LocalStep

LEMMA PersistGood ==
    ASSUME IInv, NEW c \in Call, Persist(c)
    PROVE  Good
<1> DEFINE l == calls[c]
           taken == l.row.status = "VERIFIED" /\ HashUsedByOther(l.tx, l.id)
           m == [step |-> "settle", id |-> l.id, row |-> l.row]
           says == Showing(l.row.status)
<1>1. /\ l.step = "persist" /\ l.id \in Id /\ l.key \in Key /\ l.row \in Intent
      /\ Knows(l)
  BY Shapes DEF Persist, At, IInv
<1>2. /\ intents' = IF taken THEN intents
                    ELSE [intents EXCEPT ![l.id] = MergeAgentIntent(@, l.row)]
      /\ answers' = RememberAnswer(l.key, l.id, says)
      /\ End(c) \/ calls' = [calls EXCEPT ![c] = m]
      /\ UNCHANGED ledger
  BY DEF Persist
<1>3. ClocksOK
  BY SameClocks DEF Persist
<1>4. l.row.status = "VERIFIED" => l.row.tx = l.tx /\ Pays[l.tx] = l.id
  BY <1>1 DEF Knows
<1>5. ~taken
  BY <1>4 DEF HashUsedByOther, IInv, VerifiedIsPaid, IsVerified
<1>6. intents' = [intents EXCEPT ![l.id] = MergeAgentIntent(@, l.row)]
  BY <1>2, <1>5
<1>7. /\ intents' \in [Id -> Intent] /\ StaysVerified /\ VerifiedIsPaid'
      /\ l.row.status = "VERIFIED" => intents'[l.id].status = "VERIFIED"
  BY <1>1, <1>4, <1>6, Merging DEF IsVerified
<1>8. says \in Says /\ (says = "VERIFIED" => l.row.status = "VERIFIED")
  BY DEF Showing, Says
<1>9. answers' \in [Key -> Answer] /\ AnswersHaveIds' /\ VerifiedAnswersHold' /\ Stands
  <2> HIDE DEF says
  <2> QED
    BY <1>1, <1>2, <1>7, <1>8, Remembering DEF IsVerified
<1>10. calls' \in [Call -> CallState] /\ \A d \in Call : Knows(calls[d])'
  <2>1. CASE End(c)
    BY <2>1, <1>3, <1>7, IdleKnows, CallStep DEF End
  <2>2. CASE calls' = [calls EXCEPT ![c] = m]
    <3>1. m \in SubmitState
      BY <1>1 DEF SubmitState
    <3>2. m \in CallState
      BY <3>1 DEF CallState
    <3>3. /\ m.step = "settle" /\ m.id = l.id
          /\ m.row.status = "VERIFIED" => intents'[m.id].status = "VERIFIED"
      BY <1>7
    <3> HIDE DEF m
    <3>4. PICK next \in CallState : next = m
      BY <3>2
    <3>5. Knows(next)'
      BY <3>3, <3>4 DEF Knows, IsVerified
    <3> QED
      BY <2>2, <3>4, <3>5, <1>3, <1>7, CallStep
  <2> QED
    BY <1>2, <2>1, <2>2
<1> QED
  BY <1>2, <1>3, <1>7, <1>9, <1>10, StoreStep DEF Good
(* Consuming a reservation: only for an intent that is verified.           *)
LEMMA SettleGood ==
    ASSUME IInv, NEW c \in Call, Settle(c)
    PROVE  Good
<1> DEFINE l == calls[c]
           consumed == Consume(ledger[l.id], l.row.verifiedAt)
<1>1. l.step = "settle" /\ l.id \in Id /\ l.row \in Intent /\ Knows(l)
  BY Shapes DEF Settle, At, IInv
<1>2. End(c) /\ UNCHANGED <<intents, answers>>
  BY DEF Settle
<1>3. ClocksOK /\ StaysVerified
  BY SameClocks DEF Settle, StaysVerified, IsVerified
<1>4. calls' \in [Call -> CallState] /\ \A d \in Call : Knows(calls[d])'
  BY <1>2, <1>3, IdleKnows, CallStep DEF End
<1>5. \/ ledger' = ledger \/ ledger' = [ledger EXCEPT ![l.id] = Release(@)]
      \/ l.row.status = "VERIFIED" /\ ledger' = [ledger EXCEPT ![l.id] = consumed]
  BY DEF Settle
<1>6. CASE ledger' = ledger \/ ledger' = [ledger EXCEPT ![l.id] = Release(@)]
  <2>1. ledger' \in [Id -> Reservation] /\ ConsumedIsVerified' /\ Keeps
    BY <1>1, <1>2, <1>6, ReleaseKeeps
  <2> QED
    BY <1>2, <1>3, <1>4, <2>1, LedgerStep DEF Good
<1>7. CASE l.row.status = "VERIFIED" /\ ledger' = [ledger EXCEPT ![l.id] = consumed]
  <2>1. ledger \in [Id -> Reservation] /\ ConsumedIsVerified
    BY DEF IInv, TypeOK
  <2>2. l.row.verifiedAt \in Time
    BY <1>1 DEF Intent
  <2>3. intents[l.id].status = "VERIFIED"
    BY <1>1, <1>7 DEF Knows, IsVerified
  <2>4. /\ consumed \in Reservation /\ consumed.amount = ledger[l.id].amount
        /\ ledger[l.id].status = "RESERVED" => consumed.status = "CONSUMED"
        /\ ledger[l.id].status # "RESERVED" => consumed = ledger[l.id]
    BY <1>1, <2>1, <2>2, Transitions
  <2> HIDE DEF consumed
  <2>5. ledger' \in [Id -> Reservation]
    BY <1>7, <2>1, <2>4
  <2>6. \A i \in Id : ledger'[i] = IF i = l.id THEN consumed ELSE ledger[i]
    BY <1>7, <2>1
  <2>7. ConsumedIsVerified'
    BY <1>2, <2>1, <2>3, <2>6 DEF ConsumedIsVerified
  <2>8. Keeps
    BY <2>4, <2>6 DEF Keeps
  <2> QED
    BY <1>2, <1>3, <1>4, <2>5, <2>7, <2>8, LedgerStep DEF Good
<1> QED
  BY <1>5, <1>6, <1>7

-----------------------------------------------------------------------------
(* The rest of the world.                                                  *)

LEMMA IdleStep ==
    ASSUME IInv, ClocksOK, UNCHANGED <<intents, answers, ledger, calls>>
    PROVE  Good
<1>1. StaysVerified /\ now \in Nat
  BY DEF StaysVerified, IsVerified, IInv, TypeOK
<1>2. calls \in [Call -> CallState] /\ \A c \in Call : Knows(calls[c])
  BY DEF IInv, TypeOK
<1>3. ASSUME NEW c \in Call PROVE Knows(calls[c])'
  <2>1. PICK l \in CallState : l = calls[c]
    BY <1>2
  <2>2. Knows(l)
    BY <1>2, <2>1
  <2>3. Knows(l)'
    BY <2>2, <1>1, KnowsCarries
  <2> QED
    BY <2>1, <2>3 DEF Knows, IsVerified
<1>4. ledger' \in [Id -> Reservation] /\ ConsumedIsVerified' /\ Keeps
  BY DEF IInv, TypeOK, ConsumedIsVerified, Keeps, Reservation
<1> QED
  BY <1>2, <1>3, <1>4, LedgerStep DEF Good

LEMMA MineGood ==
    ASSUME IInv, NEW t \in Tx, Mine(t)
    PROVE  Good
<1>1. ClocksOK
  <2>1. PICK b \in 0 .. now : mined' = [mined EXCEPT ![t] = b]
    BY DEF Mine
  <2> QED
    BY <2>1, AgentAssumption DEF Mine, AgentAssumption, IInv, TypeOK, ClocksOK, Time
<1> QED
  BY <1>1, IdleStep DEF Mine

LEMMA TickGood ==
    ASSUME IInv, Tick
    PROVE  Good
<1>1. ClocksOK
  BY AgentAssumption DEF Tick, AgentAssumption, IInv, TypeOK, ClocksOK
<1> QED
  BY <1>1, IdleStep DEF Tick

LEMMA StepGood == IInv /\ [Next]_vars => Good
<1> SUFFICES ASSUME IInv, [Next]_vars PROVE Good
  OBVIOUS
<1>1. CASE UNCHANGED vars
  BY <1>1, SameClocks, IdleStep DEF vars
<1>2. ASSUME NEW t \in Tx, Mine(t) PROVE Good
  BY <1>2, MineGood
<1>3. CASE Tick
  BY <1>3, TickGood
<1>4. ASSUME NEW c \in Call, NEW k \in Key, NEW new \in Creates[k],
             CreateRead(c, new.id, new.amount, k)
      PROVE  Good
  BY <1>4, CreateReadGood
<1>5. ASSUME NEW c \in Call, NEW k \in Key, NEW paid \in Submits[k],
             SubmitRead(c, paid.id, paid.tx, k)
      PROVE  Good
  BY <1>5, SubmitReadGood
<1>6. ASSUME NEW c \in Call, NEW i \in Id, GetRead(c, i) PROVE Good
  BY <1>6, GetReadGood
<1>7. ASSUME NEW c \in Call, Create(c) PROVE Good
  BY <1>7, DecideGood, ReserveReadGood, ReserveCommitGood, CreateRequestGood,
     StoreIntentGood, ReleaseHoldGood, RememberGood DEF Create
<1>8. ASSUME NEW c \in Call, Submit(c) PROVE Good
  BY <1>8, VerifyGood, PersistGood, SettleGood DEF Submit
<1>9. ASSUME NEW c \in Call, Abandon(c) PROVE Good
  BY <1>9, SameClocks, EndGood DEF Abandon
<1> QED
  BY <1>1, <1>2, <1>3, <1>4, <1>5, <1>6, <1>7, <1>8, <1>9 DEF Next

-----------------------------------------------------------------------------
(* What is held fits under the caps.  An attempt that has decided to       *)
(* reserve knows that its amount fits beside what the ledger it read       *)
(* holds, whatever the store says since: its compare-and-set is against    *)
(* that ledger.                                                            *)

HeldIn(doc) == {i \in Id : doc[i].status = "RESERVED"}

Holds(doc) == Total(Reserved(doc), HeldIn(doc))

CommitFits(l) ==
    l.step = "commit" =>
        LET doc == Recovered(l, l.read) IN
        ~IsLive(doc[l.id]) => \A p \in Policy : Holds(doc) + l.amount <= p.cap

FitsInv == HeldFits /\ \A c \in Call : CommitFits(calls[c])

LEMMA HeldFitsIs == HeldFits <=> \A p \in Policy : Holds(ledger) <= p.cap
  BY DEF HeldFits, Holds, HeldIn

LEMMA HeldFitsIsPrimed == HeldFits' <=> \A p \in Policy : Holds(ledger') <= p.cap
  BY DEF HeldFits, Holds, HeldIn, Reserved

(* A ledger that holds less, for the same amounts, has the smaller total.  *)
LEMMA HoldsLess ==
    ASSUME NEW doc \in [Id -> Reservation], NEW old \in [Id -> Reservation],
           \A i \in Id : doc[i].status = "RESERVED" =>
               old[i].status = "RESERVED" /\ doc[i].amount = old[i].amount
    PROVE  Holds(doc) \in Nat /\ Holds(old) \in Nat /\ Holds(doc) <= Holds(old)
<1> DEFINE R == HeldIn(doc)
           S == HeldIn(old)
           f == Reserved(doc)
           g == Reserved(old)
<1>1. IsFiniteSet(R) /\ IsFiniteSet(S)
  BY IdsAreFinite, FS_Subset DEF HeldIn
<1>2. R \in SUBSET S
  BY DEF HeldIn
<1>3. (\A e \in R : f[e] \in Nat /\ f[e] <= g[e]) /\ \A e \in S : g[e] \in Nat
  BY DEF HeldIn, Reserved, Reservation
<1> HIDE DEF R, S, f, g
<1>4. Total(f, R) <= Total(g, S)
  BY <1>1, <1>2, <1>3, TotalGrows
<1>5. Total(f, R) \in Nat /\ Total(g, S) \in Nat
  BY <1>1, <1>3, TotalNat
<1> QED
  BY <1>4, <1>5 DEF R, S, f, g, Holds

(* One more reservation adds its amount.                                   *)
LEMMA HoldsMore ==
    ASSUME NEW doc \in [Id -> Reservation], NEW i \in Id, NEW a \in Nat,
           doc[i].status # "RESERVED"
    PROVE  Holds([doc EXCEPT ![i] = NewReservation(a)]) = Holds(doc) + a
<1> DEFINE new == [doc EXCEPT ![i] = NewReservation(a)]
           S == HeldIn(doc)
           f == Reserved(doc)
           g == Reserved(new)
<1>1. IsFiniteSet(S) /\ i \notin S
  BY IdsAreFinite, FS_Subset DEF HeldIn
<1>2. NewReservation(a).status = "RESERVED" /\ NewReservation(a).amount = a
  BY DEF NewReservation
<1>3. HeldIn(new) = S \cup {i}
  BY <1>2 DEF HeldIn
<1>4. g[i] = a
  BY <1>2 DEF Reserved
<1>5. \A e \in S : f[e] \in Nat /\ f[e] = g[e]
  BY <1>1 DEF HeldIn, Reserved, Reservation
<1>6. \A e \in S : g[e] \in Nat
  BY <1>5
<1>7. Holds(new) = Total(g, HeldIn(new)) /\ Holds(doc) = Total(f, S)
  BY DEF Holds
<1> HIDE DEF S, f, g, new
<1>8. Total(g, S \cup {i}) = g[i] + Total(g, S)
  BY <1>1, <1>4, <1>6, TotalPutsIn
<1>9. Total(f, S) = Total(g, S)
  BY <1>1, <1>5, TotalSame
<1>10. Total(g, S) \in Nat
  BY <1>1, <1>6, TotalNat
<1>11. Total(g, HeldIn(new)) = Total(g, S \cup {i})
  BY <1>3, Zenon
<1>12. Holds(new) = Holds(doc) + a
  BY <1>4, <1>7, <1>8, <1>9, <1>10, <1>11
<1> QED
  BY <1>12 DEF new

(* Bringing a ledger up to date holds nothing new, and nothing for what    *)
(* the reader saw verified.                                                *)
LEMMA RecoveredHolds ==
    ASSUME NEW doc \in [Id -> Reservation], NEW facts \in [Id -> Intent], NEW t \in Nat
    PROVE  LET new == RecoverReservations(doc, facts, t) IN
           /\ new \in [Id -> Reservation]
           /\ \A i \in Id : new[i].status = "RESERVED" =>
                  /\ doc[i].status = "RESERVED" /\ new[i].amount = doc[i].amount
                  /\ facts[i].status # "VERIFIED"
<1> DEFINE new == RecoverReservations(doc, facts, t)
<1>1. \A i \in Id : /\ new[i] \in Reservation /\ new[i].amount = doc[i].amount
                    /\ doc[i].status # "RESERVED" => new[i] = doc[i]
  BY Recovery
<1>2. new \in [Id -> Reservation]
  BY <1>1 DEF RecoverReservations
<1>3. ASSUME NEW i \in Id, facts[i].status = "VERIFIED"
      PROVE  new[i].status # "RESERVED"
  <2>1. new[i] = Consume(doc[i], facts[i].verifiedAt)
    BY <1>3 DEF RecoverReservations
  <2>2. facts[i].verifiedAt \in Time /\ doc[i] \in Reservation
    BY DEF Intent
  <2> DEFINE row == doc[i]
             at == facts[i].verifiedAt
  <2>4. row \in Reservation /\ at \in Time
    BY <2>2
  <2> HIDE DEF row, at
  <2>5. /\ row.status = "RESERVED" => Consume(row, at).status = "CONSUMED"
        /\ row.status # "RESERVED" => Consume(row, at) = row
    BY <2>4, Transitions
  <2>6. Consume(row, at).status # "RESERVED"
    BY <2>5
  <2>3. Consume(doc[i], facts[i].verifiedAt).status # "RESERVED"
    BY <2>6, Zenon DEF row, at
  <2> QED
    BY <2>1, <2>3
<1> QED
  <2> HIDE DEF new
  <2>1. QED BY <1>1, <1>2, <1>3 DEF new

(* What is committed of a cap covers what is held.                         *)
LEMMA CommittedCovers ==
    ASSUME NEW doc \in [Id -> Reservation], NEW facts \in [Id -> Intent],
           NEW t \in Nat, NEW window \in Nat, records \in [Id -> Nat],
           \A i \in Id : doc[i].status = "RESERVED" => facts[i].status # "VERIFIED"
    PROVE  /\ CommittedForCap(doc, facts, records, t, window) \in Nat
           /\ Holds(doc) <= CommittedForCap(doc, facts, records, t, window)
<1> DEFINE Spent == {i \in VerifiedSpend(facts) : InWindow(facts[i].verifiedAt, t, window)}
           Other == Id \ VerifiedSpend(facts)
           Held == {i \in Other :
                       \/ doc[i].status = "RESERVED"
                       \/ /\ doc[i].status = "CONSUMED"
                          /\ InWindow(doc[i].consumedAt, t, window)}
           f == Reserved(doc)
           R == HeldIn(doc)
<1>1. IsFiniteSet(Spent) /\ IsFiniteSet(Held) /\ Held \in SUBSET Id
      /\ R \in SUBSET Held
  BY IdsAreFinite, FS_Subset DEF HeldIn, VerifiedSpend
<1>2. \A e \in Held : f[e] \in Nat
  BY DEF Reserved, Reservation
<1>3. \A e \in R : f[e] \in Nat /\ f[e] <= f[e]
  BY DEF HeldIn, Reserved, Reservation
<1>4. \A e \in Spent : records[e] \in Nat
  BY DEF VerifiedSpend
<1>5. CommittedForCap(doc, facts, records, t, window)
        = Total(records, Spent) + Total(f, Held)
  BY DEF CommittedForCap, SpendInWindow
<1> HIDE DEF Spent, Held, f, R
<1>6. Total(records, Spent) \in Nat /\ Total(f, Held) \in Nat
  BY <1>1, <1>2, <1>4, TotalNat
<1>7. Total(f, R) <= Total(f, Held)
  BY <1>1, <1>2, <1>3, TotalGrows
<1>8. IsFiniteSet(R)
  BY <1>1, FS_Subset
<1>9. Total(f, R) \in Nat
  BY <1>3, <1>8, TotalNat
<1>10. Holds(doc) = Total(f, R)
  BY DEF Holds, f, R
<1> QED
  BY <1>5, <1>6, <1>7, <1>9, <1>10

LEMMA InitFits == Init => FitsInv
<1> SUFFICES ASSUME Init PROVE FitsInv
  OBVIOUS
<1>1. HeldIn(ledger) = {}
  BY DEF Init, HeldIn, NoReservation
<1>2. Total(Reserved(ledger), HeldIn(ledger)) = Total(Reserved(ledger), {})
  BY <1>1, Zenon
<1>3. Total(Reserved(ledger), {}) = 0
  BY TotalOfNone
<1>4. \A p \in Policy : 0 <= p.cap
  BY AgentAssumption DEF AgentAssumption, PolicyAssumption
<1>5. HeldFits
  BY <1>2, <1>3, <1>4, HeldFitsIs DEF Holds
<1>6. \A c \in Call : CommitFits(calls[c])
  BY DEF Init, Idle, CommitFits
<1> QED
  BY <1>5, <1>6 DEF FitsInv

LEMMA CommitFitsPrimes == \A d \in Call : CommitFits(calls[d])' <=> CommitFits(calls'[d])
  BY DEF CommitFits, Recovered, Holds, HeldIn, Reserved, RecoverReservations,
     IsLive, Consume, Release, PastGrace

(* The states that do not commit know nothing of the caps, and what a      *)
(* handler knows of them no other one changes.                             *)
LEMMA FitsStays ==
    ASSUME FitsInv, TypeOK, NEW c \in Call, NEW l, CommitFits(l),
           calls' = [calls EXCEPT ![c] = l]
    PROVE  \A d \in Call : CommitFits(calls[d])'
<1>1. calls \in [Call -> CallState]
  BY DEF TypeOK
<1>2. ASSUME NEW d \in Call PROVE CommitFits(calls'[d])
  <2>1. calls'[d] = l \/ calls'[d] = calls[d]
    BY <1>1
  <2>2. CommitFits(calls[d])
    BY DEF FitsInv
  <2> QED
    BY <2>1, <2>2, Zenon
<1>3. \A d \in Call : CommitFits(calls[d])' <=> CommitFits(calls'[d])
  BY CommitFitsPrimes
<1> QED
  BY <1>2, <1>3

(* A step that leaves the ledger, or takes from what it holds, and does    *)
(* not decide to reserve.                                                  *)
Moves(c) == \E l : l.step # "commit" /\ calls' = [calls EXCEPT ![c] = l]

Takes ==
    \A i \in Id : ledger'[i].status = "RESERVED" =>
        ledger[i].status = "RESERVED" /\ ledger'[i].amount = ledger[i].amount

LEMMA LedgerFits ==
    ASSUME FitsInv, TypeOK, ledger' \in [Id -> Reservation], Takes
    PROVE  HeldFits'
<1>1. PICK next \in [Id -> Reservation] : next = ledger'
  OBVIOUS
<1>2. ledger \in [Id -> Reservation]
  BY DEF TypeOK
<1>3. \A i \in Id : next[i].status = "RESERVED" =>
          ledger[i].status = "RESERVED" /\ next[i].amount = ledger[i].amount
  BY <1>1 DEF Takes
<1>4. Holds(next) \in Nat /\ Holds(ledger) \in Nat /\ Holds(next) <= Holds(ledger)
  BY <1>2, <1>3, HoldsLess
<1>5. \A p \in Policy : Holds(ledger) <= p.cap /\ p.cap \in Nat
  BY HeldFitsIs, AgentAssumption DEF FitsInv, AgentAssumption, PolicyAssumption
<1>6. \A p \in Policy : Holds(next) <= p.cap
  BY <1>4, <1>5
<1>7. \A p \in Policy : Holds(ledger') <= p.cap
  BY <1>1, <1>6
<1> QED
  BY <1>7, HeldFitsIsPrimed

LEMMA MoveFits ==
    ASSUME FitsInv, TypeOK, NEW c \in Call, Moves(c),
           ledger' \in [Id -> Reservation], Takes
    PROVE  FitsInv'
<1>1. PICK l : l.step # "commit" /\ calls' = [calls EXCEPT ![c] = l]
  BY DEF Moves
<1>2. CommitFits(l)
  BY <1>1 DEF CommitFits
<1>3. \A d \in Call : CommitFits(calls[d])'
  BY <1>1, <1>2, FitsStays
<1> QED
  BY <1>3, LedgerFits DEF FitsInv

LEMMA Replies ==
    ASSUME NEW c \in Call, NEW says, Reply(c, says)
    PROVE  Moves(c)
<1> DEFINE l == [step |-> "remember", id |-> calls[c].id, key |-> calls[c].key,
                 says |-> says]
<1>1. l.step # "commit" /\ Idle.step # "commit"
  BY DEF Idle
<1>2. calls' = [calls EXCEPT ![c] = l] \/ calls' = [calls EXCEPT ![c] = Idle]
  BY DEF Reply
<1> HIDE DEF l
<1> QED
  BY <1>1, <1>2, Zenon DEF Moves

LEMMA Ends == ASSUME NEW c \in Call, End(c) PROVE Moves(c)
  BY DEF End, Moves, Idle

LEMMA SameTakes == UNCHANGED ledger => Takes
  BY DEF Takes

(* The actions that move: all but those of one attempt to reserve.         *)
LEMMA ActionMoves ==
    ASSUME NEW c \in Call,
           \/ \E k \in Key : \E new \in Creates[k] : CreateRead(c, new.id, new.amount, k)
           \/ \E k \in Key : \E paid \in Submits[k] : SubmitRead(c, paid.id, paid.tx, k)
           \/ \E i \in Id : GetRead(c, i)
           \/ Decide(c) \/ CreateRequest(c) \/ StoreIntent(c) \/ Remember(c)
           \/ Submit(c) \/ Abandon(c) \/ ReleaseHold(c)
    PROVE  Moves(c)
<1>1. ASSUME NEW k, NEW i, NEW a, CreateRead(c, i, a, k) PROVE Moves(c)
  BY <1>1 DEF CreateRead, Begin, Moves
<1>2. ASSUME NEW k, NEW i, NEW t, SubmitRead(c, i, t, k) PROVE Moves(c)
  <2>1. CASE Begin(c, [step |-> "remember", id |-> i, key |-> k, says |-> "VERIFIED"])
    BY <2>1 DEF Begin, Moves
  <2>2. CASE Begin(c, [step |-> "verify", id |-> i, key |-> k, tx |-> t,
                       row |-> intents[i]])
    BY <2>2 DEF Begin, Moves
  <2> QED
    BY <1>2, <2>1, <2>2 DEF SubmitRead
<1>3. ASSUME NEW i, GetRead(c, i) PROVE Moves(c)
  BY <1>3 DEF GetRead, Begin, Moves
<1>4. ASSUME Decide(c) PROVE Moves(c)
  <2>1. CASE Attempt(c, now, 1)
    BY <2>1 DEF Attempt, Moves
  <2> QED
    BY <1>4, <2>1, Replies, Ends DEF Decide
<1>5. ASSUME CreateRequest(c) PROVE Moves(c)
  <2>1. CASE \E says : GiveUp(c, says)
    <3>1. PICK says : GiveUp(c, says)
      BY <2>1
    <3>2. CASE Reply(c, says)
      BY <3>2, Replies
    <3>3. CASE calls' = [calls EXCEPT ![c] =
                 [step |-> "release", id |-> calls[c].id, key |-> calls[c].key,
                  says |-> says]]
      BY <3>3 DEF Moves
    <3> QED
      BY <3>1, <3>2, <3>3 DEF GiveUp
  <2>2. CASE calls' = [calls EXCEPT ![c] =
                 [step |-> "store", id |-> calls[c].id, key |-> calls[c].key]]
    BY <2>2 DEF Moves
  <2> QED
    BY <1>5, <2>1, <2>2 DEF CreateRequest
<1>6. ASSUME StoreIntent(c) \/ Remember(c) \/ Abandon(c) \/ Settle(c) PROVE Moves(c)
  BY <1>6, Ends DEF StoreIntent, Remember, Abandon, Settle
<1>7. ASSUME ReleaseHold(c) PROVE Moves(c)
  BY <1>7, Replies DEF ReleaseHold
<1>8. ASSUME Verify(c) PROVE Moves(c)
  <2>1. PICK status : calls' = [calls EXCEPT ![c] =
               [step |-> "persist", id |-> calls[c].id, key |-> calls[c].key,
                tx |-> calls[c].tx, row |-> Judged(calls[c].row, calls[c].tx, status)]]
    BY <1>8 DEF Verify
  <2> QED
    BY <2>1 DEF Moves
<1>9. ASSUME Persist(c) PROVE Moves(c)
  <2>1. CASE calls' = [calls EXCEPT ![c] =
                 [step |-> "settle", id |-> calls[c].id, row |-> calls[c].row]]
    BY <2>1 DEF Moves
  <2> QED
    BY <1>9, <2>1, Ends DEF Persist
<1> QED
  BY <1>1, <1>2, <1>3, <1>4, <1>5, <1>6, <1>7, <1>8, <1>9 DEF Submit

(* What each of them does to the ledger.                                   *)
LEMMA ActionTakes ==
    ASSUME IInv, NEW c \in Call,
           \/ \E k \in Key : \E new \in Creates[k] : CreateRead(c, new.id, new.amount, k)
           \/ \E k \in Key : \E paid \in Submits[k] : SubmitRead(c, paid.id, paid.tx, k)
           \/ \E i \in Id : GetRead(c, i)
           \/ Decide(c) \/ CreateRequest(c) \/ StoreIntent(c) \/ Remember(c)
           \/ Submit(c) \/ Abandon(c) \/ ReleaseHold(c)
    PROVE  Takes
<1>1. ledger \in [Id -> Reservation]
  BY DEF IInv, TypeOK
<1>2. ASSUME ReleaseHold(c) PROVE Takes
  <2>1. calls[c].id \in Id
    BY <1>2, Shapes DEF ReleaseHold, At, IInv
  <2>2. Release(ledger[calls[c].id]).status # "RESERVED"
    BY <1>1, <2>1, Transitions DEF Release
  <2>3. CASE ledger' = [ledger EXCEPT ![calls[c].id] = Release(@)]
    BY <1>1, <2>1, <2>2, <2>3 DEF Takes
  <2> QED
    BY <1>2, <2>3, SameTakes DEF ReleaseHold
<1>3. ASSUME Settle(c) PROVE Takes
  <2> DEFINE i == calls[c].id
             new == IF calls[c].row.status = "VERIFIED"
                    THEN Consume(ledger[i], calls[c].row.verifiedAt)
                    ELSE Release(ledger[i])
  <2>1. i \in Id
    BY <1>3, Shapes DEF Settle, At, IInv
  <2>2. new.status # "RESERVED"
    BY DEF Release, Consume
  <2>3. ledger' = ledger \/ ledger' = [ledger EXCEPT ![i] = new]
    BY <1>3 DEF Settle
  <2>4. CASE ledger' = [ledger EXCEPT ![i] = new]
    <3> HIDE DEF new
    <3> QED
      BY <1>1, <2>1, <2>2, <2>4 DEF Takes
  <2> QED
    BY <2>3, <2>4, SameTakes
<1>4. ASSUME \/ \E k \in Key : \E new \in Creates[k] : CreateRead(c, new.id, new.amount, k)
             \/ \E k \in Key : \E paid \in Submits[k] : SubmitRead(c, paid.id, paid.tx, k)
             \/ \E i \in Id : GetRead(c, i)
      PROVE  Takes
  BY <1>4, SameTakes DEF CreateRead, SubmitRead, GetRead
<1>5. ASSUME Decide(c) \/ CreateRequest(c) \/ StoreIntent(c) \/ Remember(c)
             \/ Verify(c) \/ Persist(c) \/ Abandon(c)
      PROVE  Takes
  BY <1>5, SameTakes DEF Decide, CreateRequest, StoreIntent, Remember, Verify,
     Persist, Abandon
<1> QED
  BY <1>2, <1>3, <1>4, <1>5 DEF Submit

(* An attempt decides from the ledger it reads.                            *)
LEMMA ReserveReadFits ==
    ASSUME IInv, FitsInv, NEW c \in Call, ReserveRead(c)
    PROVE  FitsInv'
<1> DEFINE l == calls[c]
           doc == Recovered(l, ledger)
           m == [step |-> "commit", id |-> l.id, key |-> l.key,
                 amount |-> l.amount, facts |-> l.facts, at |-> l.at,
                 tries |-> l.tries, read |-> ledger]
<1>1. /\ l.step = "reserve" /\ l.id \in Id /\ l.amount \in Nat
      /\ l.facts \in [Id -> Intent] /\ l.at \in Nat
  BY Shapes DEF ReserveRead, At, IInv
<1>2. ledger \in [Id -> Reservation] /\ records \in [Id -> Nat] /\ TypeOK
  BY DEF IInv, TypeOK
<1>3. ledger' = ledger /\ Takes
  BY SameTakes DEF ReserveRead
<1>4. CASE End(c) \/ Proceed(c, FALSE) \/ Reply(c, "REFUSED")
  <2>1. Proceed(c, FALSE) => Moves(c)
    BY DEF Proceed, Moves
  <2>2. Moves(c)
    BY <1>4, <2>1, Ends, Replies
  <2> QED
    BY <1>2, <1>3, <2>2, MoveFits
<1>5. CASE /\ IF IsLive(doc[l.id]) THEN TRUE
              ELSE ~LedgerDenies(doc, l.facts, records, l.at, l.amount)
           /\ calls' = [calls EXCEPT ![c] = m]
  <2>1. doc = RecoverReservations(ledger, l.facts, l.at)
    BY DEF Recovered
  <2> HIDE DEF doc
  <2>2. /\ doc \in [Id -> Reservation]
        /\ \A i \in Id : doc[i].status = "RESERVED" => l.facts[i].status # "VERIFIED"
    <3> DEFINE facts == l.facts
               at == l.at
    <3>1. ledger \in [Id -> Reservation] /\ facts \in [Id -> Intent] /\ at \in Nat
      BY <1>1, <1>2
    <3>2. doc = RecoverReservations(ledger, facts, at)
      BY <2>1
    <3> HIDE DEF facts, at
    <3>3. /\ doc \in [Id -> Reservation]
          /\ \A i \in Id : doc[i].status = "RESERVED" => facts[i].status # "VERIFIED"
      BY <3>1, <3>2, RecoveredHolds
    <3> QED
      BY <3>3 DEF facts
  <2>3. ASSUME NEW p \in Policy, ~IsLive(doc[l.id])
        PROVE  Holds(doc) + l.amount <= p.cap
    <3> DEFINE committed == CommittedForCap(doc, l.facts, records, l.at, p.window)
    <3>1. p.window \in Nat /\ p.cap \in Nat
      BY AgentAssumption DEF AgentAssumption, PolicyAssumption
    <3>2. committed \in Nat /\ Holds(doc) <= committed
      BY <1>1, <1>2, <2>2, <3>1, CommittedCovers
    <3>3. ~(committed + l.amount > p.cap)
      BY <1>5, <2>3 DEF LedgerDenies
    <3>4. Holds(doc) \in Nat
      BY <2>2, HoldsLess
    <3> HIDE DEF committed
    <3> QED
      BY <1>1, <3>1, <3>2, <3>3, <3>4
  <2>4. Recovered(m, m.read) = doc /\ m.id = l.id /\ m.amount = l.amount
    BY <2>1 DEF Recovered
  <2>5. CommitFits(m)
    <3> HIDE DEF m
    <3> QED
      BY <2>3, <2>4 DEF CommitFits
  <2>6. calls' = [calls EXCEPT ![c] = m]
    BY <1>5
  <2> HIDE DEF m
  <2>7. \A d \in Call : CommitFits(calls[d])'
    BY <1>2, <2>5, <2>6, FitsStays
  <2>8. HeldFits'
    BY <1>2, <1>3, LedgerFits
  <2> QED
    BY <2>7, <2>8 DEF FitsInv
<1> QED
  BY <1>4, <1>5 DEF ReserveRead

(* Its write adds its amount to what it knows to be held.                  *)
LEMMA ReserveCommitFits ==
    ASSUME IInv, FitsInv, NEW c \in Call, ReserveCommit(c)
    PROVE  FitsInv'
<1> DEFINE l == calls[c]
           doc == Recovered(l, ledger)
           live == IsLive(doc[l.id])
           next == IF live THEN doc
                   ELSE [doc EXCEPT ![l.id] = NewReservation(l.amount)]
<1>1. /\ l.step = "commit" /\ l.id \in Id /\ l.amount \in Nat
      /\ l.facts \in [Id -> Intent] /\ l.at \in Nat
  BY Shapes DEF ReserveCommit, At, IInv
<1>2. ledger \in [Id -> Reservation] /\ TypeOK
  BY DEF IInv, TypeOK
<1>3. \/ ledger = l.read /\ ledger' = next /\ Proceed(c, ~live)
      \/ Attempt(c, l.at, l.tries + 1) /\ UNCHANGED ledger
      \/ End(c) /\ UNCHANGED ledger
  BY DEF ReserveCommit, Commit
<1>4. Moves(c)
  <2>1. Proceed(c, ~live) => Moves(c)
    BY DEF Proceed, Moves
  <2>2. Attempt(c, l.at, l.tries + 1) => Moves(c)
    BY DEF Attempt, Moves
  <2> QED
    BY <1>3, <2>1, <2>2, Ends
<1>5. CASE UNCHANGED ledger
  BY <1>2, <1>4, <1>5, SameTakes, MoveFits
<1>6. CASE ledger = l.read /\ ledger' = next
  <2>1. doc = RecoverReservations(ledger, l.facts, l.at)
    BY DEF Recovered
  <2>2. CommitFits(l)
    BY DEF FitsInv
  <2>3. ~live => \A p \in Policy : Holds(doc) + l.amount <= p.cap
    BY <1>1, <1>6, <2>2 DEF CommitFits
  <2> HIDE DEF doc
  <2>4. /\ doc \in [Id -> Reservation]
        /\ \A i \in Id : doc[i].status = "RESERVED" =>
               ledger[i].status = "RESERVED" /\ doc[i].amount = ledger[i].amount
    BY <1>1, <1>2, <2>1, RecoveredHolds
  <2>5. CASE live
    <3>1. ledger' = doc
      BY <1>6, <2>5
    <3>2. Takes /\ ledger' \in [Id -> Reservation]
      BY <2>4, <3>1 DEF Takes
    <3> QED
      BY <1>2, <1>4, <3>2, MoveFits
  <2>6. CASE ~live
    <3> DEFINE new == [doc EXCEPT ![l.id] = NewReservation(l.amount)]
    <3>1. ledger' = new
      BY <1>6, <2>6
    <3>2. doc[l.id].status # "RESERVED"
      BY <2>6 DEF IsLive
    <3>3. Holds(new) = Holds(doc) + l.amount
      BY <1>1, <2>4, <3>2, HoldsMore
    <3> HIDE DEF new, live
    <3>4. \A p \in Policy : Holds(new) <= p.cap
      BY <2>3, <2>6, <3>3
    <3>5. HeldFits'
      <4>1. \A p \in Policy : Holds(ledger') <= p.cap
        BY <3>1, <3>4
      <4> QED
        BY <4>1, HeldFitsIsPrimed
    <3>6. PICK m : m.step # "commit" /\ calls' = [calls EXCEPT ![c] = m]
      BY <1>4 DEF Moves
    <3>7. CommitFits(m)
      BY <3>6 DEF CommitFits
    <3>8. \A d \in Call : CommitFits(calls[d])'
      BY <1>2, <3>6, <3>7, FitsStays
    <3> QED
      BY <3>5, <3>8 DEF FitsInv
  <2> QED
    BY <2>5, <2>6
<1> QED
  BY <1>3, <1>5, <1>6

LEMMA StepFits == IInv /\ FitsInv /\ [Next]_vars => FitsInv'
<1> SUFFICES ASSUME IInv, FitsInv, [Next]_vars PROVE FitsInv'
  OBVIOUS
<1>1. TypeOK /\ IInv' /\ ledger' \in [Id -> Reservation]
  BY StepGood DEF Good, IInv, TypeOK
<1>2. CASE UNCHANGED <<ledger, calls>>
  <2>1. HeldFits'
    BY <1>1, <1>2, SameTakes, LedgerFits
  <2>2. \A d \in Call : CommitFits(calls[d])'
    <3>1. \A d \in Call : CommitFits(calls[d])' <=> CommitFits(calls'[d])
      BY CommitFitsPrimes
    <3>2. \A d \in Call : CommitFits(calls[d]) /\ calls' = calls
      BY <1>2 DEF FitsInv
    <3> QED
      BY <3>1, <3>2, Zenon
  <2> QED
    BY <2>1, <2>2 DEF FitsInv
<1>3. ASSUME NEW c \in Call, Moves(c), Takes PROVE FitsInv'
  BY <1>1, <1>3, MoveFits
<1>4. ASSUME NEW c \in Call, ReserveRead(c) PROVE FitsInv'
  BY <1>4, ReserveReadFits
<1>5. ASSUME NEW c \in Call, ReserveCommit(c) PROVE FitsInv'
  BY <1>5, ReserveCommitFits
<1>6. ASSUME NEW c \in Call,
             \/ \E k \in Key : \E new \in Creates[k] : CreateRead(c, new.id, new.amount, k)
             \/ \E k \in Key : \E paid \in Submits[k] : SubmitRead(c, paid.id, paid.tx, k)
             \/ \E i \in Id : GetRead(c, i)
             \/ Create(c) \/ Submit(c) \/ Abandon(c)
      PROVE  FitsInv'
  BY <1>3, <1>4, <1>5, <1>6, ActionMoves, ActionTakes DEF Create
<1>7. ASSUME (\E t \in Tx : Mine(t)) \/ Tick \/ UNCHANGED vars PROVE FitsInv'
  BY <1>2, <1>7 DEF Mine, Tick, vars
<1> QED
  BY <1>6, <1>7 DEF Next

-----------------------------------------------------------------------------
(* Theorems.                                                               *)

(* What every step of every handler preserves, crashes included.           *)
THEOREM Inductive == Spec => []IInv
<1>1. Init => IInv
  BY InitIInv
<1>2. IInv /\ [Next]_vars => IInv'
  BY StepGood DEF Good
<1> QED
  BY <1>1, <1>2, PTL DEF Spec

(* Every call keeps to the states of its handler and no reservation is     *)
(* tried more often than MAX_RESERVATION_ATTEMPTS.                         *)
THEOREM IntentsTypeOK == Spec => []TypeOK
<1>1. IInv => TypeOK
  BY DEF IInv
<1> QED
  BY <1>1, Inductive, PTL

(* Concurrent creates never hold more than a cap between them: a write of  *)
(* the ledger adds its amount to exactly what its decision counted.        *)
THEOREM IntentsHeldFits == Spec => []HeldFits
<1>1. Init => FitsInv
  BY InitFits
<1>2. IInv /\ FitsInv /\ [Next]_vars => FitsInv'
  BY StepFits
<1>3. FitsInv => HeldFits
  BY DEF FitsInv
<1> QED
  BY <1>1, <1>2, <1>3, Inductive, PTL DEF Spec

(* What an agent spent is verified: no reservation is consumed for an      *)
(* intent that is not, though ledger and intents are stored apart.         *)
THEOREM IntentsConsumedIsVerified == Spec => []ConsumedIsVerified
<1>1. IInv => ConsumedIsVerified
  BY DEF IInv
<1> QED
  BY <1>1, Inductive, PTL

(* No writer belies an answer that showed an intent verified.              *)
THEOREM IntentsVerifiedAnswersHold == Spec => []VerifiedAnswersHold
<1>1. IInv => VerifiedAnswersHold
  BY DEF IInv
<1> QED
  BY <1>1, Inductive, PTL

(* A late create or submission does not undo a verification.               *)
THEOREM IntentsVerifiedForGood == Spec => VerifiedForGood
<1>1. IInv /\ [Next]_vars =>
      [\A i \in Id : intents[i].status = "VERIFIED" => intents'[i].status = "VERIFIED"]_vars
  BY StepGood DEF Good, StaysVerified, IsVerified
<1> QED
  BY <1>1, Inductive, PTL DEF Spec, VerifiedForGood

(* Every repetition of a request gets the first answer under its key.      *)
THEOREM IntentsAnswersStand == Spec => AnswersStand
<1>1. IInv /\ [Next]_vars =>
      [\A k \in Key : answers[k] # NoAnswer => answers'[k] = answers[k]]_vars
  BY StepGood DEF Good, Stands
<1> QED
  BY <1>1, Inductive, PTL DEF Spec, AnswersStand

(* No reservation is lost to another writer of the ledger, and none is     *)
(* given anew before its grace is over.                                    *)
THEOREM IntentsReservationsAreKept == Spec => ReservationsAreKept
<1>1. IInv /\ [Next]_vars =>
      [\A i \in Id :
          /\ ledger[i].status = "RESERVED" =>
                /\ ledger'[i].status # "NONE"
                /\ ledger'[i].amount = ledger[i].amount \/ PastGrace(i, now)
          /\ ledger[i].status = "CONSUMED" => ledger'[i] = ledger[i]]_vars
  BY StepGood DEF Good, Keeps
<1> QED
  BY <1>1, Inductive, PTL DEF Spec, ReservationsAreKept

=============================================================================
