---------------------------- MODULE SignInProofs -----------------------------
(***************************************************************************)
(* Theorems about SignIn.  Of the server, for any wallets, handlers and    *)
(* lifetimes: a signature opens one thing, and sessions end for a reason.  *)
(* Of the client, for any number of loads, sign-ins and switches: data     *)
(* reach their wallet, and signing out lasts.                              *)
(***************************************************************************)
EXTENDS SignIn, FiniteSetTheorems, TLAPS

(* Messages and session ids are handed out in order.                       *)
SignedMessages == {m \in Message : message[m] # None}
UsedSessions == {s \in Session : sessions[s] # None} \cup ended

InOrder ==
    /\ \E k \in Nat : SignedMessages = 1 .. k
    /\ \E k \in Nat : UsedSessions = 1 .. k
    /\ cookie # None => cookie \in UsedSessions

(* A wallet's clock is at most MaxAhead before the servers'.               *)
SignedInTime ==
    \A m \in Message :
        message[m] # None => message[m].time <= now + MaxAhead

(* What a handler knows of its message, and how late it can be.            *)
Attends(h) ==
    LET l == handler[h] IN
    /\ message[l.message] # None
    /\ l.at <= now /\ now <= l.at + MaxDuration
    /\ message[l.message].time <= l.at + MaxAhead
    /\ InWindow(l.message, l.at)

HandlersAttend == \A h \in Handler : handler[h].pc # "idle" => Attends(h)

(* A message is burned from the step that stores its nonce.                *)
Creates(h, m) == handler[h].pc = "create" /\ handler[h].message = m
Burned(m) == uses[m] # 0 \/ \E h \in Handler : Creates(h, m)

OneUse ==
    \A m \in Message :
        /\ uses[m] <= 1
        /\ uses[m] # 0 => message[m] # None
        /\ \A h \in Handler :
               Creates(h, m) => uses[m] = 0 /\ message[m].kind = "login"
        /\ \A h, g \in Handler : Creates(h, m) /\ Creates(g, m) => h = g

(* Its nonce outlives its window, or that is over for every handler.       *)
Guarded(m) ==
    LET over == message[m].time + Tolerance + MaxDuration
    IN  IF nonces[m] = None THEN now > over ELSE nonces[m] > over

BurnedIsGuarded == \A m \in Message : Burned(m) => Guarded(m)

(* The inductive invariant; the last part needs the slack.                 *)
IInv == TypeOK /\ InOrder /\ SignedInTime /\ HandlersAttend
Once == OneUse /\ BurnedIsGuarded

Roomy == MaxAhead + MaxDuration < Slack

-----------------------------------------------------------------------------

LEMMA Constants ==
    /\ Tolerance \in Nat /\ Slack \in Nat /\ ChallengeTTL \in Nat
    /\ SessionTTL \in Nat /\ MaxSessions \in Nat /\ MaxAhead \in Nat
    /\ MaxDuration \in Nat /\ MaxMessages \in Nat /\ MaxCreated \in Nat
    /\ MaxTime \in Nat /\ ChallengeTTL <= Tolerance
    /\ None \notin Signed /\ None \notin SessionRecord /\ None \notin Nat
  BY AccessAssumption DEF AccessAssumption

(* The next of what is handed out in order is new.                         *)
LEMMA NextIsNew ==
    ASSUME NEW S, NEW k \in Nat, S = 1 .. k, NEW m, m = 1 + Cardinality(S)
    PROVE  m \notin S /\ S \cup {m} = 1 .. (k + 1)
<1>1. Cardinality(S) = k
  BY FS_Interval
<1> QED
  BY <1>1

LEMMA HandlerFields ==
    ASSUME TypeOK, NEW h \in Handler, handler[h].pc # "idle"
    PROVE  /\ handler[h] \in Local
           /\ handler[h].message \in Message /\ handler[h].at \in Nat
           /\ handler[h].previous \in Session \cup {None}
  BY DEF TypeOK, Local, Idle

LEMMA InitIInv == Init => IInv /\ Once
<1> SUFFICES ASSUME Init PROVE IInv /\ Once
  OBVIOUS
<1>1. TypeOK
  BY DEF Init, TypeOK
<1>2. InOrder
  <2>1. SignedMessages = 1 .. 0 /\ UsedSessions = 1 .. 0
    BY DEF Init, SignedMessages, UsedSessions
  <2> QED
    BY <2>1 DEF Init, InOrder
<1>3. SignedInTime /\ HandlersAttend
  BY DEF Init, SignedInTime, HandlersAttend, Idle
<1>4. Once
  BY DEF Init, Once, OneUse, BurnedIsGuarded, Burned, Creates, Idle
<1> QED
  BY <1>1, <1>2, <1>3 , <1>4 DEF IInv

-----------------------------------------------------------------------------
(* The wallet.  A new message keeps what is known of the others.           *)

LEMMA MessageStep ==
    ASSUME IInv, NEW m \in Message, Unsigned(m), NEW signed \in Signed,
           signed.time <= now + MaxAhead,
           message' = [message EXCEPT ![m] = signed],
           UNCHANGED <<now, nonces, sessions, cookie, handler, uses, ended>>
    PROVE  IInv' /\ (Once => Once')
<1> USE Constants DEF IInv
<1>1. message[m] = None /\ SignedMessages' = SignedMessages \cup {m}
      /\ \E k \in Nat : SignedMessages' = 1 .. k
  <2>1. PICK k \in Nat : SignedMessages = 1 .. k
    BY DEF InOrder
  <2>2. m = 1 + Cardinality(SignedMessages)
    BY DEF Unsigned, SignedMessages
  <2> DEFINE S == SignedMessages
  <2>x. S = 1 .. k /\ m = 1 + Cardinality(S)
    BY <2>1, <2>2
  <2> HIDE DEF S
  <2>z. \A n : n = 1 + Cardinality(S) => n \notin S /\ S \cup {n} = 1 .. (k + 1)
    BY ONLY <2>x, k \in Nat, NextIsNew
  <2>y. m \notin S /\ S \cup {m} = 1 .. (k + 1)
    BY <2>x, <2>z, Zenon
  <2>3. m \notin SignedMessages /\ SignedMessages \cup {m} = 1 .. (k + 1)
    BY <2>y DEF S
  <2>4. SignedMessages' = SignedMessages \cup {m}
    BY DEF SignedMessages, TypeOK
  <2> QED
    BY <2>3, <2>4 DEF SignedMessages
<1>2. TypeOK'
  BY DEF TypeOK
<1>3. InOrder'
  BY <1>1 DEF InOrder, UsedSessions
<1>4. SignedInTime'
  BY DEF SignedInTime, TypeOK
<1>5. \A n \in Message : message[n] # None => message'[n] = message[n]
  BY <1>1 DEF TypeOK
<1>6. HandlersAttend'
  <2> SUFFICES ASSUME NEW h \in Handler, handler[h].pc # "idle"
               PROVE  Attends(h)'
    BY DEF HandlersAttend
  <2>1. Attends(h) /\ handler[h].message \in Message
    BY HandlerFields DEF HandlersAttend
  <2>2. message'[handler[h].message] = message[handler[h].message]
    BY <2>1, <1>5 DEF Attends
  <2> QED
    BY <2>1, <2>2 DEF Attends, InWindow, Timely, Unsealed
<1>7. ASSUME Once PROVE Once'
  <2>1. \A n \in Message : Burned(n) => message[n] # None
    BY <1>7, HandlerFields DEF Once, OneUse, Burned, Creates, HandlersAttend, Attends
  <2>2. OneUse'
    <3> SUFFICES ASSUME NEW n \in Message
                 PROVE  /\ (uses[n] <= 1)'
                        /\ (uses[n] # 0 => message[n] # None)'
                        /\ \A h \in Handler :
                             (Creates(h, n) => uses[n] = 0 /\ message[n].kind = "login")'
                        /\ \A h, g \in Handler :
                             (Creates(h, n) /\ Creates(g, n) => h = g)'
      BY DEF OneUse
    <3>1. Burned(n) => message'[n] = message[n]
      BY <2>1, <1>5
    <3> QED
      BY <3>1, <1>7 DEF Once, OneUse, Burned, Creates
  <2>3. BurnedIsGuarded'
    <3> SUFFICES ASSUME NEW n \in Message, Burned(n)' PROVE Guarded(n)'
      BY DEF BurnedIsGuarded
    <3>1. Burned(n)
      BY DEF Burned, Creates
    <3>2. Guarded(n) /\ message'[n] = message[n]
      BY <3>1, <2>1, <1>5, <1>7 DEF Once, BurnedIsGuarded
    <3> QED
      BY <3>2 DEF Guarded
  <2> QED
    BY <2>2, <2>3 DEF Once
<1> QED
  BY <1>2, <1>3, <1>4, <1>6, <1>7

LEMMA WalletKeeps ==
    ASSUME IInv, NEW m \in Message, NEW merchant \in Merchant,
           \/ \E time \in 0 .. MaxTime + MaxAhead : Sign(m, merchant, time)
           \/ Challenge(m, merchant)
    PROVE  IInv' /\ (Once => Once')
<1>1. CASE \E time \in 0 .. MaxTime + MaxAhead : Sign(m, merchant, time)
  <2>1. PICK time \in 0 .. MaxTime + MaxAhead : Sign(m, merchant, time)
    BY <1>1
  <2> DEFINE signed == [kind |-> "request", merchant |-> merchant, time |-> time]
  <2>2. signed \in Signed /\ signed.time <= now + MaxAhead
    BY <2>1, Constants DEF Sign, Signed
  <2> HIDE DEF signed
  <2>3. Unsigned(m) /\ message' = [message EXCEPT ![m] = signed]
        /\ UNCHANGED <<now, nonces, sessions, cookie, handler, uses, ended>>
    BY <2>1 DEF Sign, signed
  <2> QED
    BY <2>2, <2>3, MessageStep
<1>2. CASE Challenge(m, merchant)
  <2> DEFINE signed == [kind |-> "login", merchant |-> merchant, time |-> now]
  <2>2. signed \in Signed /\ signed.time <= now + MaxAhead
    BY Constants DEF Signed, IInv, TypeOK
  <2> HIDE DEF signed
  <2>3. Unsigned(m) /\ message' = [message EXCEPT ![m] = signed]
        /\ UNCHANGED <<now, nonces, sessions, cookie, handler, uses, ended>>
    BY <1>2 DEF Challenge, signed
  <2> QED
    BY <2>2, <2>3, MessageStep
<1> QED
  BY <1>1, <1>2

-----------------------------------------------------------------------------
(* Handlers.                                                               *)

LEMMA ArriveKeeps ==
    ASSUME IInv, NEW h \in Handler, NEW m \in Message, Arrive(h, m)
    PROVE  IInv' /\ (Once => Once')
<1> USE Constants DEF IInv
<1> DEFINE l == [pc |-> "consume", message |-> m, at |-> now, previous |-> cookie]
<1>1. /\ handler' = [handler EXCEPT ![h] = l]
      /\ handler[h].pc = "idle"
      /\ UNCHANGED <<now, message, nonces, sessions, cookie, uses, ended>>
  BY DEF Arrive, Put
<1>2. /\ l \in Local /\ l.pc = "consume" /\ l.message = m /\ l.at = now
  BY DEF Local, TypeOK
<1> HIDE DEF l
<1>3. TypeOK'
  BY <1>1, <1>2 DEF TypeOK
<1>4. InOrder' /\ SignedInTime'
  BY <1>1 DEF InOrder, SignedInTime, SignedMessages, UsedSessions
<1>5. \A g \in Handler : handler'[g] = IF g = h THEN l ELSE handler[g]
  BY <1>1 DEF TypeOK
<1>6. HandlersAttend'
  <2> SUFFICES ASSUME NEW g \in Handler, handler'[g].pc # "idle"
               PROVE  Attends(g)'
    BY DEF HandlersAttend
  <2>1. CASE g = h
    <3>1. handler'[g].message = m /\ handler'[g].at = now
      BY <2>1, <1>5, <1>2
    <3>2. InWindow(m, now) /\ now \in Nat
      BY DEF Arrive, TypeOK
    <3> QED
      BY <3>1, <3>2, <1>1 DEF Attends, InWindow, Timely, Unsealed, SignedInTime
  <2>2. CASE g # h
    <3>1. handler'[g] = handler[g] /\ Attends(g)
      BY <2>2, <1>5 DEF HandlersAttend
    <3> QED
      BY <3>1, <1>1 DEF Attends, InWindow, Timely, Unsealed
  <2> QED
    BY <2>1, <2>2
<1>7. \A g \in Handler, n \in Message : Creates(g, n)' <=> Creates(g, n)
  BY <1>1, <1>2, <1>5 DEF Creates
<1>8. ASSUME Once PROVE Once'
  <2>1. OneUse'
    BY <1>1, <1>7, <1>8 DEF Once, OneUse
  <2>2. BurnedIsGuarded'
    BY <1>1, <1>7, <1>8 DEF Once, BurnedIsGuarded, Burned, Guarded
  <2> QED
    BY <2>1, <2>2 DEF Once
<1> QED
  BY <1>3, <1>4, <1>6, <1>8

(* While its window may be open to a handler, the nonce of a burned        *)
(* message is not forgotten: it is never found fresh.                      *)
LEMMA BurnedIsNotFresh ==
    ASSUME IInv, BurnedIsGuarded, NEW h \in Handler, handler[h].pc = "consume",
           Burned(handler[h].message)
    PROVE  Kept(handler[h].at)[handler[h].message] # None
<1> USE Constants DEF IInv
<1> DEFINE m == handler[h].message
           at == handler[h].at
<1>1. /\ m \in Message /\ at \in Nat /\ Attends(h) /\ Guarded(m)
  BY HandlerFields DEF HandlersAttend, BurnedIsGuarded
<1>2. /\ message[m] \in Signed /\ message[m] # None /\ now \in Nat
      /\ nonces[m] \in Nat \cup {None}
  BY <1>1 DEF Attends, TypeOK
<1>3. /\ message[m].kind \in {"request", "login"} /\ message[m].time \in Int
  BY <1>2 DEF Signed
<1>4. InWindow(m, at) /\ now <= at + MaxDuration
  BY <1>1 DEF Attends
<1> HIDE DEF m, at
<1>5. at <= message[m].time + Tolerance
  BY <1>1, <1>3, <1>4 DEF InWindow, Timely, Unsealed
<1>6. nonces[m] # None /\ nonces[m] > at
  BY <1>1, <1>2, <1>3, <1>4, <1>5 DEF Guarded
<1>7. Kept(at)[m] = nonces[m]
  BY <1>1, <1>2, <1>6 DEF Kept
<1> QED
  BY <1>6, <1>7 DEF m, at

LEMMA ConsumeKeeps ==
    ASSUME IInv, NEW h \in Handler, ConsumeNonce(h)
    PROVE  IInv' /\ (Roomy /\ Once => Once')
<1> USE Constants DEF IInv
<1> DEFINE l == handler[h]
           m == l.message
           fresh == Kept(l.at)[m] = None
           k == IF fresh /\ message[m].kind = "login"
                THEN [l EXCEPT !.pc = "create"] ELSE Idle
<1>1. /\ l.pc = "consume" /\ l \in Local /\ m \in Message /\ l.at \in Nat
      /\ Attends(h)
  BY HandlerFields DEF ConsumeNonce, HandlersAttend
<1>2. /\ handler' = [handler EXCEPT ![h] = k]
      /\ nonces' = IF fresh THEN [Kept(l.at) EXCEPT ![m] = Expiry(l.at)]
                   ELSE Kept(l.at)
      /\ uses' = IF fresh /\ message[m].kind = "request"
                 THEN [uses EXCEPT ![m] = @ + 1] ELSE uses
      /\ UNCHANGED <<now, message, sessions, cookie, ended>>
  BY DEF ConsumeNonce, Put
<1>3. /\ k \in Local \cup {Idle}
      /\ k.pc \in {"idle", "create"}
      /\ k.pc = "create" => /\ fresh /\ message[m].kind = "login"
                            /\ k.message = m /\ k.at = l.at
  BY <1>1 DEF Local, Idle
<1>4. message[m] \in Signed /\ message[m] # None /\ now \in Nat
  BY <1>1 DEF Attends, TypeOK
<1>5. message[m].kind \in {"request", "login"} /\ message[m].time \in Int
  BY <1>4 DEF Signed
<1>6. Kept(l.at) \in [Message -> Nat \cup {None}]
  BY DEF Kept, TypeOK
<1>7. Expiry(l.at) \in Nat /\ Expiry(l.at) = l.at + Tolerance + Slack
  BY <1>1 DEF Expiry
<1>8. \A n \in Message : nonces'[n] = IF n = m /\ fresh THEN Expiry(l.at)
                                      ELSE Kept(l.at)[n]
  <2> HIDE DEF l, m, fresh
  <2> QED
    BY <1>2, <1>6
<1>9. \A n \in Message :
        uses'[n] = IF n = m /\ fresh /\ message[m].kind = "request"
                   THEN uses[n] + 1 ELSE uses[n]
  <2> HIDE DEF l, fresh, m
  <2> QED
    BY <1>2 DEF TypeOK
<1>10. \A g \in Handler : handler'[g] = IF g = h THEN k ELSE handler[g]
  <2> HIDE DEF k
  <2> QED
    BY <1>2 DEF TypeOK
<1> HIDE DEF k, fresh
<1>11. TypeOK'
  <2>1. handler' \in [Handler -> Local \cup {Idle}]
    BY <1>2, <1>3 DEF TypeOK
  <2>2. nonces' \in [Message -> Nat \cup {None}]
    <3> HIDE DEF l, m
    <3> QED
      BY <1>2, <1>6, <1>7
  <2>3. uses' \in [Message -> Nat]
    <3>1. m \in Message
      BY <1>1
    <3> HIDE DEF l, m
    <3> QED
      BY <3>1, <1>2 DEF TypeOK
  <2> QED
    BY <2>1, <2>2, <2>3, <1>2 DEF TypeOK
<1>12. InOrder' /\ SignedInTime'
  BY <1>2 DEF InOrder, SignedInTime, SignedMessages, UsedSessions
<1>13. HandlersAttend'
  <2> SUFFICES ASSUME NEW g \in Handler, handler'[g].pc # "idle"
               PROVE  Attends(g)'
    BY DEF HandlersAttend
  <2>1. CASE g = h
    <3>1. handler'[g].message = m /\ handler'[g].at = l.at
      BY <2>1, <1>10, <1>3
    <3> QED
      BY <3>1, <1>1, <1>2 DEF Attends, InWindow, Timely, Unsealed
  <2>2. CASE g # h
    <3>1. handler'[g] = handler[g] /\ Attends(g)
      BY <2>2, <1>10 DEF HandlersAttend
    <3> QED
      BY <3>1, <1>2 DEF Attends, InWindow, Timely, Unsealed
  <2> QED
    BY <2>1, <2>2
<1>14. ASSUME Roomy, Once PROVE Once'
  <2>1. fresh => ~Burned(m)
    BY <1>1, <1>14, BurnedIsNotFresh DEF Once, fresh
  <2>2. \A n \in Message, g \in Handler :
          Creates(g, n)' => Creates(g, n)
                            \/ (g = h /\ n = m /\ fresh /\ message[m].kind = "login")
    <3> SUFFICES ASSUME NEW n \in Message, NEW g \in Handler, Creates(g, n)'
                 PROVE  Creates(g, n)
                        \/ (g = h /\ n = m /\ fresh /\ message[m].kind = "login")
      OBVIOUS
    <3>1. CASE g = h
      <4>1. handler'[g] = k
        BY <3>1, <1>10
      <4>2. k.pc = "create" /\ k.message = n
        BY <4>1 DEF Creates
      <4> QED
        BY <3>1, <4>2, <1>3
    <3>2. CASE g # h
      BY <3>2, <1>10 DEF Creates
    <3> QED
      BY <3>1, <3>2
  <2>3. \A n \in Message : uses[n] \in Nat
    BY DEF TypeOK
  <2>4. OneUse'
    <3> SUFFICES ASSUME NEW n \in Message
                 PROVE  /\ (uses[n] <= 1)'
                        /\ (uses[n] # 0 => message[n] # None)'
                        /\ \A g \in Handler :
                             (Creates(g, n) => uses[n] = 0 /\ message[n].kind = "login")'
                        /\ \A g, f \in Handler :
                             (Creates(g, n) /\ Creates(f, n) => g = f)'
      BY DEF OneUse
    <3>0. message' = message
      BY <1>2
    <3>1. CASE n = m /\ fresh
      <4>1. uses[n] = 0 /\ \A g \in Handler : ~Creates(g, n)
        BY <3>1, <2>1 DEF Burned
      <4>2. uses'[n] = 1 \/ uses'[n] = 0
        BY <1>9, <3>1, <4>1
      <4>3. message[n] # None
        BY <3>1, <1>4
      <4>4. message[m].kind = "login" => uses'[n] = 0
        BY <1>9, <3>1, <4>1
      <4> HIDE DEF m, l
      <4> QED
        BY <3>0, <3>1, <2>2, <4>1, <4>2, <4>3, <4>4
    <3>2. CASE ~(n = m /\ fresh)
      <4>1. uses'[n] = uses[n]
        BY <1>9, <3>2
      <4>2. \A g \in Handler : Creates(g, n)' => Creates(g, n)
        BY <2>2, <3>2
      <4> QED
        BY <3>0, <4>1, <4>2, <1>14 DEF Once, OneUse
    <3> QED
      BY <3>1, <3>2
  <2>5. BurnedIsGuarded'
    <3> SUFFICES ASSUME NEW n \in Message, Burned(n)' PROVE Guarded(n)'
      BY DEF BurnedIsGuarded
    <3>1. CASE n = m /\ fresh
      <4>1. nonces'[m] = l.at + Tolerance + Slack
        BY <3>1, <1>7, <1>8
      <4>2. message[m].time <= l.at + MaxAhead
        BY <1>1 DEF Attends
      <4>3. nonces'[m] > message[m].time + Tolerance + MaxDuration
        <5> HIDE DEF m, l
        <5>1. l.at \in Nat
          BY <1>1
        <5> QED
          BY <4>1, <4>2, <5>1, <1>5, <1>14 DEF Roomy
      <4>4. nonces'[m] # None
        BY <4>1, <1>7
      <4> QED
        BY <3>1, <4>3, <4>4, <1>2 DEF Guarded
    <3>2. CASE ~(n = m /\ fresh)
      <4>1. Burned(n)
        BY <3>2, <2>2, <1>9 DEF Burned
      <4>2. Guarded(n)
        BY <4>1, <1>14 DEF Once, BurnedIsGuarded
      <4>3. nonces'[n] = IF nonces[n] # None /\ nonces[n] <= l.at THEN None
                         ELSE nonces[n]
        BY <3>2, <1>8 DEF Kept
      <4>4. /\ nonces[n] \in Nat \cup {None} /\ l.at <= now /\ now' = now
            /\ message'[n] = message[n] /\ l.at \in Nat
        BY <1>1, <1>2 DEF Attends, TypeOK
      <4>5. message[n].time \in Int
        BY <4>1, HandlerFields, <1>14
        DEF Burned, Creates, Once, OneUse, HandlersAttend, Attends, TypeOK, Signed
      <4> HIDE DEF l
      <4> QED
        BY <4>2, <4>3, <4>4, <4>5, <1>4 DEF Guarded
    <3> QED
      BY <3>1, <3>2
  <2> QED
    BY <2>4, <2>5 DEF Once
<1> QED
  BY <1>11, <1>12, <1>13, <1>14

LEMMA CreateKeeps ==
    ASSUME IInv, NEW h \in Handler, NEW s \in Session, NEW keep \in SUBSET Session,
           CreateSession(h, s, keep)
    PROVE  IInv' /\ (Once => Once') /\ sessions[s] = None
<1> USE Constants DEF IInv
<1> DEFINE l == handler[h]
           m == l.message
           row == [merchant |-> message[m].merchant, createdAt |-> l.at]
<1>1. /\ l.pc = "create" /\ l \in Local /\ m \in Message /\ l.at \in Nat
      /\ Attends(h)
  BY HandlerFields DEF CreateSession, HandlersAttend
<1>2. /\ s = 1 + Cardinality(UsedSessions)
      /\ keep \subseteq {t \in Session : Live(t, l.at)} \ {l.previous}
      /\ sessions' = [t \in Session |-> IF t = s THEN row
                         ELSE IF t \in keep THEN sessions[t] ELSE None]
      /\ uses' = [uses EXCEPT ![m] = @ + 1]
      /\ ended' = ended \cup ({t \in Session : sessions[t] # None} \ keep)
      /\ cookie' = s \/ cookie' = cookie
      /\ handler' = [handler EXCEPT ![h] = Idle]
      /\ UNCHANGED <<now, message, nonces>>
  BY DEF CreateSession, Put, AppliesCreate, UsedSessions
<1>3. row \in SessionRecord /\ row # None
  <2>1. message[m] \in Signed
    BY <1>1 DEF Attends, TypeOK
  <2> QED
    BY <2>1, <1>1 DEF Signed, SessionRecord
<1>4. \A t \in keep : sessions[t] # None
  BY <1>2 DEF Live
<1> HIDE DEF row
<1>5. /\ s \notin UsedSessions
      /\ UsedSessions' = UsedSessions \cup {s}
      /\ \E k \in Nat : UsedSessions' = 1 .. k
  <2>1. PICK k \in Nat : UsedSessions = 1 .. k
    BY DEF InOrder
  <2>2. s \notin UsedSessions /\ UsedSessions \cup {s} = 1 .. (k + 1)
    <3> DEFINE U == UsedSessions
    <3>1. U = 1 .. k /\ s = 1 + Cardinality(U)
      BY <2>1, <1>2
    <3> HIDE DEF U
    <3>2. \A n : n = 1 + Cardinality(U) => n \notin U /\ U \cup {n} = 1 .. (k + 1)
      BY <2>1, <3>1, NextIsNew
    <3> QED
      BY <3>1, <3>2, Zenon DEF U
  <2>3. {t \in Session : sessions'[t] # None} = keep \cup {s}
    BY <1>2, <1>3, <1>4
  <2>4. UsedSessions' = keep \cup {s} \cup ended'
    BY <2>3 DEF UsedSessions
  <2>5. UsedSessions' = UsedSessions \cup {s}
    BY <2>4, <1>2, <1>4 DEF UsedSessions
  <2> QED
    BY <2>2, <2>5
<1>6. TypeOK'
  <2>1. handler' \in [Handler -> Local \cup {Idle}]
    BY <1>2 DEF TypeOK
  <2>2. sessions' \in [Session -> SessionRecord \cup {None}]
    BY <1>2, <1>3 DEF TypeOK
  <2>3. uses' \in [Message -> Nat]
    <3>1. m \in Message
      BY <1>1
    <3> HIDE DEF m
    <3> QED
      BY <3>1, <1>2 DEF TypeOK
  <2>4. ended' \subseteq Session /\ cookie' \in Session \cup {None}
    BY <1>2 DEF TypeOK
  <2> QED
    BY <2>1, <2>2, <2>3, <2>4, <1>2 DEF TypeOK
<1>7. InOrder' /\ SignedInTime'
  <2>1. SignedInTime'
    BY <1>2 DEF SignedInTime
  <2>2. cookie' # None => cookie' \in UsedSessions'
    BY <1>2, <1>5 DEF InOrder
  <2>3. SignedMessages' = SignedMessages
    BY <1>2 DEF SignedMessages
  <2> QED
    BY <2>1, <2>2, <2>3, <1>5 DEF InOrder
<1>8. \A g \in Handler : handler'[g] = IF g = h THEN Idle ELSE handler[g]
  BY <1>2 DEF TypeOK
<1>9. HandlersAttend'
  <2> SUFFICES ASSUME NEW g \in Handler, handler'[g].pc # "idle"
               PROVE  Attends(g)'
    BY DEF HandlersAttend
  <2>1. handler'[g] = handler[g] /\ Attends(g)
    BY <1>8 DEF HandlersAttend, Idle
  <2> QED
    BY <2>1, <1>2 DEF Attends, InWindow, Timely, Unsealed
<1>10. ASSUME Once PROVE Once'
  <2>1. \A n \in Message, g \in Handler :
          Creates(g, n)' => Creates(g, n) /\ g # h
    BY <1>8 DEF Creates, Idle
  <2>2. \A n \in Message : uses[n] \in Nat /\ uses'[n] = IF n = m THEN uses[n] + 1 ELSE uses[n]
    <3> HIDE DEF m
    <3> QED
      BY <1>2 DEF TypeOK
  <2>3. Creates(h, m) /\ uses[m] = 0 /\ message[m] # None
    BY <1>1, <1>10 DEF Creates, Once, OneUse, Attends
  <2>4. OneUse'
    <3> SUFFICES ASSUME NEW n \in Message
                 PROVE  /\ (uses[n] <= 1)'
                        /\ (uses[n] # 0 => message[n] # None)'
                        /\ \A g \in Handler :
                             (Creates(g, n) => uses[n] = 0 /\ message[n].kind = "login")'
                        /\ \A g, f \in Handler :
                             (Creates(g, n) /\ Creates(f, n) => g = f)'
      BY DEF OneUse
    <3>0. message' = message
      BY <1>2
    <3>1. CASE n = m
      <4>1. \A g \in Handler : ~Creates(g, n)'
        BY <3>1, <2>1, <2>3, <1>10, <1>1 DEF Once, OneUse
      <4>2. uses'[n] = 1
        BY <3>1, <2>2, <2>3
      <4> QED
        BY <3>0, <3>1, <4>1, <4>2, <2>3
    <3>2. CASE n # m
      <4>1. uses'[n] = uses[n]
        BY <3>2, <2>2
      <4> QED
        BY <3>0, <4>1, <2>1, <1>10 DEF Once, OneUse
    <3> QED
      BY <3>1, <3>2
  <2>5. BurnedIsGuarded'
    <3> SUFFICES ASSUME NEW n \in Message, Burned(n)' PROVE Guarded(n)'
      BY DEF BurnedIsGuarded
    <3>1. Burned(n)
      BY <2>1, <2>2, <2>3 DEF Burned
    <3> QED
      BY <3>1, <1>2, <1>10 DEF Guarded, Once, BurnedIsGuarded
  <2> QED
    BY <2>4, <2>5 DEF Once
<1> QED
  BY <1>5, <1>6, <1>7, <1>9, <1>10 DEF UsedSessions

-----------------------------------------------------------------------------
(* The other steps.                                                        *)

LEMMA LogoutKeeps ==
    ASSUME IInv, Logout \/ Status
    PROVE  IInv' /\ (Once => Once')
<1> USE Constants DEF IInv
<1>0. UNCHANGED <<now, message, nonces, handler, uses>>
  BY DEF Logout, Status
<1>1. TypeOK' /\ InOrder'
  <2>1. CASE Logout
    <3>1. cookie \in Session /\ cookie \in UsedSessions
      BY <2>1 DEF Logout, TypeOK, InOrder
    <3>2. TypeOK'
      BY <2>1, <3>1 DEF Logout, TypeOK
    <3>3. UsedSessions' = UsedSessions
      BY <2>1, <3>1 DEF Logout, UsedSessions, TypeOK
    <3> QED
      BY <2>1, <3>2, <3>3 DEF Logout, InOrder, SignedMessages
  <2>2. CASE Status
    BY <2>2 DEF Status, TypeOK, InOrder, SignedMessages, UsedSessions
  <2> QED
    BY <2>1, <2>2
<1>2. SignedInTime'
  BY <1>0 DEF SignedInTime
<1>3. HandlersAttend'
  BY <1>0 DEF HandlersAttend, Attends, InWindow, Timely, Unsealed
<1>4. Once => Once'
  BY <1>0 DEF Once, OneUse, BurnedIsGuarded, Burned, Creates, Guarded
<1> QED
  BY <1>1, <1>2, <1>3, <1>4

LEMMA AbandonKeeps ==
    ASSUME IInv, NEW h \in Handler, Abandon(h)
    PROVE  IInv' /\ (Once => Once')
<1> USE Constants DEF IInv
<1>1. /\ \A g \in Handler : handler'[g] = IF g = h THEN Idle ELSE handler[g]
      /\ handler' \in [Handler -> Local \cup {Idle}]
      /\ UNCHANGED <<now, message, nonces, sessions, cookie, uses, ended>>
  BY DEF Abandon, Put, TypeOK
<1>2. TypeOK' /\ InOrder' /\ SignedInTime'
  BY <1>1 DEF TypeOK, InOrder, SignedMessages, UsedSessions, SignedInTime
<1>3. HandlersAttend'
  <2> SUFFICES ASSUME NEW g \in Handler, handler'[g].pc # "idle"
               PROVE  Attends(g)'
    BY DEF HandlersAttend
  <2>1. handler'[g] = handler[g] /\ Attends(g)
    BY <1>1 DEF HandlersAttend, Idle
  <2> QED
    BY <2>1, <1>1 DEF Attends, InWindow, Timely, Unsealed
<1>4. \A n \in Message, g \in Handler : Creates(g, n)' => Creates(g, n)
  BY <1>1 DEF Creates, Idle
<1>5. ASSUME Once PROVE Once'
  <2>1. OneUse'
    BY <1>1, <1>4, <1>5 DEF Once, OneUse
  <2>2. BurnedIsGuarded'
    BY <1>1, <1>4, <1>5 DEF Once, BurnedIsGuarded, Burned, Guarded
  <2> QED
    BY <2>1, <2>2 DEF Once
<1> QED
  BY <1>2, <1>3, <1>5

LEMMA TickKeeps ==
    ASSUME IInv, Tick
    PROVE  IInv' /\ (Once => Once')
<1> USE Constants DEF IInv
<1>1. /\ now \in Nat /\ now' = now + 1
      /\ UNCHANGED <<message, nonces, sessions, cookie, handler, uses, ended>>
  BY DEF Tick, TypeOK
<1>2. TypeOK' /\ InOrder'
  BY <1>1 DEF TypeOK, InOrder, SignedMessages, UsedSessions
<1>3. \A m \in Message : message[m] # None => message[m].time \in Int
  BY DEF TypeOK, Signed
<1>4. SignedInTime'
  BY <1>1, <1>3 DEF SignedInTime
<1>5. HandlersAttend'
  <2> SUFFICES ASSUME NEW g \in Handler, handler[g].pc # "idle"
               PROVE  Attends(g)'
    BY <1>1 DEF HandlersAttend
  <2>1. Attends(g) /\ handler[g].at \in Nat /\ now < handler[g].at + MaxDuration
    BY HandlerFields DEF Tick, HandlersAttend
  <2> QED
    BY <2>1, <1>1 DEF Attends, InWindow, Timely, Unsealed
<1>6. ASSUME Once PROVE Once'
  <2>1. OneUse'
    BY <1>1, <1>6 DEF Once, OneUse, Creates
  <2>2. BurnedIsGuarded'
    <3> SUFFICES ASSUME NEW n \in Message, Burned(n) PROVE Guarded(n)'
      BY <1>1 DEF BurnedIsGuarded, Burned, Creates
    <3>1. Guarded(n)
      BY <1>6 DEF Once, BurnedIsGuarded
    <3>2. message[n].time \in Int
      BY <1>3, <1>6, HandlerFields DEF Burned, Creates, Once, OneUse, HandlersAttend, Attends
    <3> QED
      BY <3>1, <3>2, <1>1 DEF Guarded
  <2> QED
    BY <2>1, <2>2 DEF Once
<1> QED
  BY <1>2, <1>4, <1>5, <1>6

LEMMA StutterKeeps ==
    ASSUME IInv, UNCHANGED vars
    PROVE  IInv' /\ (Once => Once')
<1> USE DEF vars, IInv
<1>1. TypeOK' /\ InOrder' /\ SignedInTime'
  BY DEF TypeOK, InOrder, SignedMessages, UsedSessions, SignedInTime
<1>2. HandlersAttend'
  BY DEF HandlersAttend, Attends, InWindow, Timely, Unsealed
<1>3. Once => Once'
  BY DEF Once, OneUse, BurnedIsGuarded, Burned, Creates, Guarded
<1> QED
  BY <1>1, <1>2, <1>3

LEMMA StepKeeps ==
    ASSUME IInv, [Next]_vars
    PROVE  IInv' /\ (Roomy /\ Once => Once')
<1>1. ASSUME NEW m \in Message, NEW merchant \in Merchant,
             \/ \E time \in 0 .. MaxTime + MaxAhead : Sign(m, merchant, time)
             \/ Challenge(m, merchant)
      PROVE  IInv' /\ (Roomy /\ Once => Once')
  BY <1>1, WalletKeeps
<1>2. ASSUME NEW h \in Handler, NEW m \in Message, Arrive(h, m)
      PROVE  IInv' /\ (Roomy /\ Once => Once')
  BY <1>2, ArriveKeeps
<1>3. ASSUME NEW h \in Handler, ConsumeNonce(h)
      PROVE  IInv' /\ (Roomy /\ Once => Once')
  BY <1>3, ConsumeKeeps
<1>4. ASSUME NEW h \in Handler, NEW s \in Session, NEW keep \in SUBSET Session,
             CreateSession(h, s, keep)
      PROVE  IInv' /\ (Roomy /\ Once => Once')
  BY <1>4, CreateKeeps
<1>5. ASSUME NEW h \in Handler, Abandon(h)
      PROVE  IInv' /\ (Roomy /\ Once => Once')
  BY <1>5, AbandonKeeps
<1>6. CASE Logout \/ Status
  BY <1>6, LogoutKeeps
<1>7. CASE Tick
  BY <1>7, TickKeeps
<1>8. CASE UNCHANGED vars
  BY <1>8, StutterKeeps
<1> QED
  BY <1>1, <1>2, <1>3, <1>4, <1>5, <1>6, <1>7, <1>8 DEF Next

-----------------------------------------------------------------------------
(* Theorems.                                                               *)

(* The types of the nonces, sessions and handlers.                         *)
THEOREM AccessTypeOK == Spec => []TypeOK
<1>1. Init => IInv
  BY InitIInv
<1>2. IInv /\ [Next]_vars => IInv'
  BY StepKeeps
<1>3. IInv => TypeOK
  BY DEF IInv
<1> QED
  BY <1>1, <1>2, <1>3, PTL DEF Spec

(* A signature opens one thing at most, whatever the requests that carry   *)
(* it, their delays, and the pruning of nonces by other handlers' clocks   *)
(* (consumeWalletNonce), if nonces outlive the tolerance by more than what *)
(* a wallet's clock may be ahead and a handler late.                       *)
THEOREM AccessSignatureWorksOnce == Spec => []SignatureWorksOnce
<1>1. CASE Roomy
  <2>1. Init => IInv /\ Once
    BY InitIInv
  <2>2. (IInv /\ Once) /\ [Next]_vars => (IInv /\ Once)'
    BY <1>1, StepKeeps
  <2>3. IInv /\ Once => SignatureWorksOnce
    BY DEF Once, OneUse, SignatureWorksOnce
  <2> QED
    BY <2>1, <2>2, <2>3, PTL DEF Spec
<1>2. CASE ~Roomy
  <2>1. SignatureWorksOnce
    BY <1>2 DEF Roomy, SignatureWorksOnce
  <2> QED
    BY <2>1, PTL
<1> QED
  BY <1>1, <1>2

(* A session is removed when it is over, when the browser that holds it    *)
(* signs out or in again, or when a sign-in of its merchant takes the last *)
(* place there is for that merchant and it was the oldest                  *)
(* (applySessionCreate): there are as many sessions as a merchant may have *)
(* then, of which all but the new one are no older.                        *)
THEOREM AccessEndsForAReason == Spec => EndsForAReason
<1>1. Init => IInv
  BY InitIInv
<1>2. IInv /\ [Next]_vars => IInv'
  BY StepKeeps
<1>3. IInv /\ [Next]_vars => [SessionsEndForAReason]_vars
  <2> SUFFICES ASSUME IInv, Next, NEW s \in Session,
                      sessions[s] # None, sessions'[s] = None
               PROVE  \/ ~Live(s, now)
                      \/ s = cookie /\ cookie' = None
                      \/ \E h \in Handler, new \in Session :
                             /\ SignsIn(h, new)
                             /\ handler[h].previous = s \/ CrowdedOut(s, new)
    BY DEF SessionsEndForAReason
  <2>1. CASE Logout
    BY <2>1, Constants DEF Logout, IInv, TypeOK
  <2>2. ASSUME NEW h \in Handler, NEW new \in Session,
               NEW keep \in SUBSET Session, CreateSession(h, new, keep)
        PROVE  \/ ~Live(s, now)
               \/ /\ SignsIn(h, new)
                  /\ handler[h].previous = s \/ CrowdedOut(s, new)
    <3> DEFINE l == handler[h]
               merchant == message[l.message].merchant
               others == {t \in Session : Live(t, l.at)} \ {l.previous}
               mine == Of(merchant, others)
               kept == mine \cap keep
               stay == {t \in Session :
                          /\ sessions'[t] # None
                          /\ sessions'[t].merchant = sessions[s].merchant}
    <3>1. sessions[new] = None
      BY <2>2, CreateKeeps
    <3>2. /\ l.pc = "create" /\ l.at \in Nat /\ l.at <= now /\ now \in Nat
          /\ message[l.message] \in Signed
      BY <2>2, HandlerFields
      DEF CreateSession, IInv, HandlersAttend, Attends, TypeOK
    <3>3. /\ others \ keep \subseteq mine
          /\ others \ keep # {} => Cardinality(kept) = MaxSessions - 1
          /\ \A x \in others \ keep, t \in kept :
                 sessions[x].createdAt <= sessions[t].createdAt
          /\ keep \subseteq others
          /\ sessions'[new] = [merchant |-> merchant, createdAt |-> l.at]
          /\ \A t \in Session : t # new =>
                 sessions'[t] = IF t \in keep THEN sessions[t] ELSE None
          /\ handler' = [handler EXCEPT ![h] = Idle]
      BY <2>2 DEF CreateSession, AppliesCreate, Put
    <3>4. SignsIn(h, new) /\ sessions'[new].merchant = merchant
      <4>1. [merchant |-> merchant, createdAt |-> l.at] \in SessionRecord
        BY <3>2 DEF Signed, SessionRecord
      <4>2. handler'[h] = Idle
        BY <3>3 DEF IInv, TypeOK
      <4> QED
        BY <4>1, <4>2, <3>1, <3>2, <3>3, Constants DEF SignsIn
    <3>5. s # new /\ s \notin keep
      BY <3>1, <3>3
    <3>6. sessions[s].createdAt \in Nat
      BY DEF IInv, TypeOK, SessionRecord
    <3>7. CASE ~Live(s, l.at)
      BY <3>7, <3>2, <3>6, Constants DEF Live
    <3>8. CASE l.previous = s
      BY <3>8, <3>4
    <3>9. CASE Live(s, l.at) /\ l.previous # s
      <4>1. s \in others \ keep /\ s \in mine
        BY <3>3, <3>5, <3>9
      <4>2. sessions[s].merchant = merchant
        BY <4>1 DEF Of
      <4>3. \A t \in keep : t # new /\ sessions[t] # None /\ sessions'[t] = sessions[t]
        BY <3>1, <3>3 DEF Live
      <4>4. stay = kept \cup {new} /\ new \notin kept
        BY <3>3, <3>4, <4>2, <4>3, Constants DEF Of, SignsIn
      <4>5. Cardinality(kept) = MaxSessions - 1
        BY <3>3, <4>1
      <4>6. Cardinality(stay) = MaxSessions
        <5>1. IsFiniteSet(kept)
          <6>1. IsFiniteSet(Session)
            BY FS_Interval, Constants DEF Session
          <6>2. kept \subseteq Session
            BY <4>3, <3>3, Zenon
          <6> QED
            BY <6>1, <6>2, FS_Subset, Zenon
        <5>2. MaxSessions \in Nat
          BY Constants
        <5> HIDE DEF kept, stay
        <5>3. Cardinality(kept \cup {new}) = Cardinality(kept) + 1
          BY <5>1, <4>4, FS_AddElement
        <5> QED
          BY <5>2, <5>3, <4>4, <4>5
      <4>7. \A t \in stay \ {new} : sessions[s].createdAt <= sessions[t].createdAt
        BY <3>3, <4>1, <4>4
      <4> HIDE DEF kept, others, mine
      <4>8. CrowdedOut(s, new)
        BY <4>4, <4>6, <4>7 DEF CrowdedOut
      <4> QED
        BY <4>8, <3>4
    <3> QED
      BY <3>7, <3>8, <3>9
  <2>3. CASE UNCHANGED sessions
    BY <2>3
  <2> QED
    BY <2>1, <2>2, <2>3 DEF Next, Sign, Challenge, Arrive, ConsumeNonce, Abandon,
       Status, Tick
<1> QED
  BY <1>1, <1>2, <1>3, PTL DEF Spec, EndsForAReason
-----------------------------------------------------------------------------
(* The client.                                                             *)

(* No sign-in began in a generation to come, and an answer opens what the  *)
(* load asked for or nothing.                                              *)
FlightsBegan == \A f \in Page!Flight : flight[f].gen <= generation

Asks(c) ==
    /\ c.got \in {None, c.merchant}
    /\ c.pc \in {"wait", "sent", "served"} => c.merchant \in Merchant

AnswersOwn == \A l \in Handler : Asks(load[l])

(* Once signed out: no sign-in is shared, the account is not asked again,  *)
(* and every sign-in that is under way belongs to an earlier generation.   *)
Over == {"unused", "done", "failed"}
StaysOut ==
    out /\ ~staleNo =>
        /\ session = Page!NoSession
        /\ wallet # None /\ declined = wallet
        /\ inflight = None
        /\ \A f \in Page!Flight : flight[f].pc \notin Over => flight[f].gen < generation

PageInv == Page!TypeOK /\ FlightsBegan /\ AnswersOwn /\ StaysOut

LEMMA PageConstants ==
    /\ MaxFlights \in Nat /\ MaxGeneration \in Nat
    /\ None \notin Merchant /\ None \notin Nat
    /\ Page!Flight \subseteq Nat /\ Page!Generation \subseteq Nat
    /\ None \notin Page!Flight
  BY PageAssumption DEF Page!ClientAssumption, Page!Flight, Page!Generation

LEMMA PageInit == Page!Init => PageInv
<1> SUFFICES ASSUME Page!Init PROVE PageInv
  OBVIOUS
<1>1. Page!Unused \in Page!FlightState /\ Page!NoLoad \in Page!LoadState
  BY PageConstants DEF Page!Unused, Page!FlightState, Page!NoLoad, Page!LoadState,
     Page!Generation, Page!Cookie
<1>2. Page!TypeOK
  BY <1>1, PageConstants DEF Page!Init, Page!TypeOK, Page!NoSession, Page!Cookie,
     Page!Generation
<1>3. FlightsBegan /\ AnswersOwn /\ StaysOut
  BY DEF Page!Init, FlightsBegan, AnswersOwn, Asks, StaysOut, Page!Unused, Page!NoLoad
<1> QED
  BY <1>2, <1>3 DEF PageInv

(* A flight that comes to another state, and one that is begun.            *)
LEMMA FlightFits ==
    ASSUME NEW own, own.merchant \in Merchant \cup {None}, own.gen \in Page!Generation,
           NEW pc \in {"probe", "probed", "challenge", "sign", "login", "loggedIn"},
           NEW sent \in Page!Cookie, NEW got \in Merchant \cup {None}
    PROVE  LET to == Page!FlightAt(own, pc, sent, got) IN
           to \in Page!FlightState /\ to.gen = own.gen /\ to.pc = pc
  BY DEF Page!FlightAt, Page!FlightState

LEMMA BegunFits ==
    ASSUME Page!TypeOK, NEW m \in Merchant
    PROVE  /\ Page!Begun(m) \in Page!FlightState
           /\ Page!Begun(m).gen = generation
           /\ Page!Begun(m).pc \notin Over
<1> DEFINE own == [merchant |-> m, gen |-> generation]
           first == [pc |-> "logout", merchant |-> m, gen |-> generation,
                     awaits |-> leaving, sent |-> None, got |-> None]
<1>1. generation \in Page!Generation /\ jar \in Page!Cookie /\ None \in Page!Cookie
      /\ leaving \in Page!Generation \cup {None}
  BY DEF Page!TypeOK, Page!Cookie
<1>2. own.merchant = m /\ own.gen = generation
  OBVIOUS
<1>3. Page!Begun(m) = IF leaving = None THEN Page!FlightAt(own, "probe", jar, None)
                      ELSE [Page!FlightAt(own, "logout", None, None) EXCEPT !.awaits = leaving]
  BY DEF Page!Begun
<1>4. [Page!FlightAt(own, "logout", None, None) EXCEPT !.awaits = leaving] = first
  BY DEF Page!FlightAt
<1>5. first \in Page!FlightState /\ first.gen = generation /\ first.pc = "logout"
  BY <1>1 DEF Page!FlightState
<1> HIDE DEF own, first
<1>6. LET to == Page!FlightAt(own, "probe", jar, None) IN
      to \in Page!FlightState /\ to.gen = own.gen /\ to.pc = "probe"
  BY <1>1, <1>2, FlightFits
<1> QED
  BY <1>2, <1>3, <1>4, <1>5, <1>6 DEF Over

-----------------------------------------------------------------------------
(* A step of one sign-in.  What it does to the page: it goes on, if that   *)
(* is of the generation it began in, or it is over.                        *)

LEMMA FlightStep ==
    ASSUME PageInv, NEW f \in Page!Flight, NEW to \in Page!FlightState,
           flight[f].pc \notin Over, Page!Step(f, to),
           to.gen <= generation,
           to.pc \notin Over => to.gen = flight[f].gen,
           UNCHANGED <<wallet, generation, leaving, load, out>>,
           staleNo => staleNo',
           declined' \in Merchant \cup {None},
           session' \in [merchant : Merchant \cup {None}, epoch : Page!Cookie],
           inflight' \in {None, inflight},
           jar' \in Page!Cookie,
           live' \in [Page!Flight -> Merchant \cup {None}],
           \/ UNCHANGED <<session, declined>>
           \/ Page!Current(flight[f])
           \/ staleNo' /\ UNCHANGED session
    PROVE  PageInv'
<1>1. /\ flight \in [Page!Flight -> Page!FlightState]
      /\ flight' \in [Page!Flight -> Page!FlightState]
      /\ flight'[f] = to
      /\ \A g \in Page!Flight \ {f} : flight'[g] = flight[g]
  BY DEF PageInv, Page!TypeOK, Page!Step
<1>2. Page!TypeOK'
  BY <1>1 DEF PageInv, Page!TypeOK, Page!Cookie
<1>3. FlightsBegan'
  BY <1>1 DEF PageInv, FlightsBegan
<1>4. AnswersOwn'
  BY DEF PageInv, AnswersOwn, Asks
<1>5. StaysOut'
  <2> SUFFICES ASSUME out, ~staleNo'
               PROVE  StaysOut'
    BY DEF StaysOut
  <2>1. /\ session = Page!NoSession /\ wallet # None /\ declined = wallet
        /\ inflight = None /\ flight[f].gen < generation
        /\ \A g \in Page!Flight : flight[g].pc \notin Over => flight[g].gen < generation
    BY DEF PageInv, StaysOut
  <2>2. generation \in Nat /\ flight[f].gen \in Nat
    BY <1>1, PageConstants DEF PageInv, Page!TypeOK, Page!FlightState
  <2>3. ~Page!Current(flight[f])
    BY <2>1, <2>2 DEF Page!Current
  <2>4. session' = session /\ declined' = declined
    BY <2>3
  <2>5. \A g \in Page!Flight : flight'[g].pc \notin Over => flight'[g].gen < generation
    BY <1>1, <2>1
  <2> QED
    BY <2>1, <2>4, <2>5 DEF StaysOut, Page!NoSession
<1> QED
  BY <1>2, <1>3, <1>4, <1>5 DEF PageInv

(* It is over.                                                             *)
LEMMA OverFits ==
    ASSUME NEW pc \in {"done", "failed"}
    PROVE  LET to == [Page!Unused EXCEPT !.pc = pc] IN
           to \in Page!FlightState /\ to.gen = 0 /\ to.pc \in Over
  BY PageConstants DEF Page!Unused, Page!FlightState, Page!Generation, Page!Cookie, Over

LEMMA FailFits ==
    ASSUME PageInv, NEW f \in Page!Flight, flight[f].pc \notin Over, Page!Fail(f),
           UNCHANGED <<wallet, generation, leaving, load, live, out, staleNo>>,
           jar' \in Page!Cookie
    PROVE  PageInv'
<1> DEFINE to == [Page!Unused EXCEPT !.pc = "failed"]
<1>1. to \in Page!FlightState /\ to.gen = 0 /\ to.pc \in Over
  BY OverFits
<1>2. /\ Page!Step(f, to)
      /\ inflight' \in {None, inflight} /\ UNCHANGED <<session, declined>>
  BY DEF Page!Fail, Page!Settle
<1>3. /\ 0 <= generation
      /\ declined' \in Merchant \cup {None}
      /\ session' \in [merchant : Merchant \cup {None}, epoch : Page!Cookie]
      /\ live' \in [Page!Flight -> Merchant \cup {None}]
  BY <1>2, PageConstants DEF PageInv, Page!TypeOK
<1> HIDE DEF to
<1> QED
  BY <1>1, <1>2, <1>3, FlightStep

(* It goes on, or fails because the wallet has changed.                    *)
LEMMA GoesOn ==
    ASSUME PageInv, NEW f \in Page!Flight, flight[f].pc \notin Over,
           NEW pc \in {"probe", "probed", "challenge", "sign", "login", "loggedIn"},
           NEW sent \in Page!Cookie, NEW got \in Merchant \cup {None},
           Page!Step(f, Page!FlightAt(flight[f], pc, sent, got)),
           UNCHANGED <<wallet, generation, leaving, load, out, staleNo,
                       session, inflight, declined>>,
           jar' \in Page!Cookie,
           live' \in [Page!Flight -> Merchant \cup {None}]
    PROVE  PageInv'
<1> DEFINE to == Page!FlightAt(flight[f], pc, sent, got)
<1>1. flight[f].merchant \in Merchant \cup {None} /\ flight[f].gen \in Page!Generation
  BY DEF PageInv, Page!TypeOK, Page!FlightState
<1>2. to \in Page!FlightState /\ to.gen = flight[f].gen /\ to.pc = pc
  BY <1>1, FlightFits
<1>3. /\ flight[f].gen <= generation
      /\ declined' \in Merchant \cup {None}
      /\ session' \in [merchant : Merchant \cup {None}, epoch : Page!Cookie]
  BY DEF PageInv, FlightsBegan, Page!TypeOK
<1> HIDE DEF to
<1>4. Page!Step(f, to)
  BY DEF to
<1> QED
  BY <1>2, <1>3, <1>4, FlightStep

LEMMA EstablishFits ==
    ASSUME PageInv, NEW f \in Page!Flight, Page!Establish(f)
    PROVE  PageInv'
<1> DEFINE own == flight[f]
<1>1. /\ own \in Page!FlightState /\ jar \in Page!Cookie /\ None \in Page!Cookie
      /\ live \in [Page!Flight -> Merchant \cup {None}]
      /\ session \in [merchant : Merchant \cup {None}, epoch : Page!Cookie]
      /\ declined \in Merchant \cup {None}
  BY DEF PageInv, Page!TypeOK, Page!Cookie
<1>2. own.sent \in Page!Cookie /\ own.merchant \in Merchant \cup {None}
  BY <1>1 DEF Page!FlightState
<1>3. own.pc \notin Over
  BY DEF Page!Establish, Page!AfterLogout, Page!Probe, Page!Probed, Page!Challenged,
     Page!Sign, Page!Decline, Page!Login, Page!LoggedIn, Page!Lost, Over
<1>4. CASE Page!AfterLogout(f)
  <2>1. CASE Page!Fail(f)
    BY <1>1, <1>3, <1>4, <2>1, FailFits DEF Page!AfterLogout, Page!server, Page!history
  <2>2. CASE Page!Step(f, Page!FlightAt(own, "probe", jar, None))
             /\ UNCHANGED <<session, inflight, declined>>
    BY <1>1, <1>3, <1>4, <2>2, GoesOn DEF Page!AfterLogout, Page!server, Page!history
  <2> QED
    BY <1>4, <2>1, <2>2 DEF Page!AfterLogout
<1>5. CASE Page!Probe(f)
  <2> DEFINE got == IF own.sent = None THEN None ELSE live[own.sent]
  <2>1. got \in Merchant \cup {None}
    BY <1>1, <1>2 DEF Page!Cookie
  <2>2. Page!Step(f, Page!FlightAt(own, "probed", own.sent, got))
    BY <1>5 DEF Page!Probe
  <2> HIDE DEF got
  <2> QED
    BY <1>1, <1>2, <1>3, <1>5, <2>1, <2>2, GoesOn
    DEF Page!Probe, Page!client, Page!server, Page!history
<1>6. CASE Page!Probed(f)
  <2>1. jar' \in Page!Cookie
    BY <1>1, <1>6 DEF Page!Probed
  <2>2. CASE Page!Fail(f)
    BY <1>3, <1>6, <2>1, <2>2, FailFits DEF Page!Probed, Page!history
  <2>3. CASE Page!Step(f, Page!FlightAt(own, "challenge", None, None))
             /\ UNCHANGED <<session, inflight, declined>>
    BY <1>1, <1>3, <1>6, <2>1, <2>3, GoesOn DEF Page!Probed, Page!history
  <2>4. CASE /\ Page!Current(own)
             /\ session' = [merchant |-> own.merchant, epoch |-> f]
             /\ Page!Settle(f, "done")
             /\ UNCHANGED declined
    <3> DEFINE to == [Page!Unused EXCEPT !.pc = "done"]
    <3>1. to \in Page!FlightState /\ to.gen = 0 /\ to.pc \in Over
      BY OverFits
    <3>2. Page!Step(f, to) /\ inflight' \in {None, inflight}
      BY <2>4 DEF Page!Settle
    <3>3. session' \in [merchant : Merchant \cup {None}, epoch : Page!Cookie]
      BY <1>2, <2>4 DEF Page!Cookie
    <3>4. 0 <= generation
      BY PageConstants DEF PageInv, Page!TypeOK
    <3>5. /\ UNCHANGED <<wallet, generation, leaving, load, live, out, staleNo>>
          /\ declined' \in Merchant \cup {None}
          /\ live' \in [Page!Flight -> Merchant \cup {None}]
      BY <1>1, <1>6, <2>4 DEF Page!Probed, Page!history
    <3> HIDE DEF to
    <3> QED
      BY <1>3, <2>1, <2>4, <3>1, <3>2, <3>3, <3>4, <3>5, FlightStep
  <2> QED
    BY <1>6, <2>2, <2>3, <2>4 DEF Page!Probed
<1>7. CASE Page!Challenged(f)
  <2>1. CASE Page!Fail(f)
    BY <1>1, <1>3, <1>7, <2>1, FailFits DEF Page!Challenged, Page!server, Page!history
  <2>2. CASE Page!Step(f, Page!FlightAt(own, "sign", None, None))
             /\ UNCHANGED <<session, inflight, declined>>
    BY <1>1, <1>3, <1>7, <2>2, GoesOn DEF Page!Challenged, Page!server, Page!history
  <2> QED
    BY <1>7, <2>1, <2>2 DEF Page!Challenged
<1>8. CASE Page!Sign(f)
  <2>1. CASE Page!Fail(f)
    BY <1>1, <1>3, <1>8, <2>1, FailFits DEF Page!Sign, Page!server, Page!history
  <2>2. CASE Page!Step(f, Page!FlightAt(own, "login", jar, None))
             /\ UNCHANGED <<session, inflight, declined>>
    BY <1>1, <1>3, <1>8, <2>2, GoesOn DEF Page!Sign, Page!server, Page!history
  <2> QED
    BY <1>8, <2>1, <2>2 DEF Page!Sign
<1>9. CASE Page!Decline(f)
  <2> DEFINE to == [Page!Unused EXCEPT !.pc = "failed"]
  <2>1. to \in Page!FlightState /\ to.gen = 0 /\ to.pc \in Over
    BY OverFits
  <2>2. Page!Step(f, to) /\ inflight' \in {None, inflight}
    BY <1>9 DEF Page!Decline, Page!Settle
  <2>3. /\ UNCHANGED <<wallet, generation, leaving, load, live, out, session>>
        /\ staleNo' = (staleNo \/ ~Page!Current(own)) /\ jar' = jar
        /\ declined' \in Merchant \cup {None}
    BY <1>2, <1>9 DEF Page!Decline, Page!server
  <2>4. 0 <= generation
    BY PageConstants DEF PageInv, Page!TypeOK
  <2>5. /\ jar' \in Page!Cookie
        /\ live' \in [Page!Flight -> Merchant \cup {None}]
        /\ session' \in [merchant : Merchant \cup {None}, epoch : Page!Cookie]
    BY <1>1, <2>3
  <2>6. staleNo => staleNo'
    BY <2>3
  <2>7. Page!Current(own) \/ (staleNo' /\ UNCHANGED session)
    BY <2>3
  <2> HIDE DEF to
  <2> QED
    BY <1>3, <2>1, <2>2, <2>3, <2>4, <2>5, <2>6, <2>7, FlightStep
<1>10. CASE Page!Login(f)
  <2>1. live' \in [Page!Flight -> Merchant \cup {None}]
    BY <1>1, <1>2, <1>10 DEF Page!Login
  <2>2. Page!Step(f, Page!FlightAt(own, "loggedIn", None, None))
    BY <1>10 DEF Page!Login
  <2> QED
    BY <1>1, <1>3, <1>10, <2>1, <2>2, GoesOn DEF Page!Login, Page!client, Page!history
<1>11. CASE Page!LoggedIn(f)
  <2>1. jar' \in Page!Cookie
    BY <1>11 DEF Page!LoggedIn, Page!Cookie
  <2>2. CASE Page!Fail(f)
    BY <1>3, <1>11, <2>1, <2>2, FailFits DEF Page!LoggedIn, Page!history
  <2>3. CASE /\ Page!Current(own)
             /\ session' = [merchant |-> own.merchant, epoch |-> f]
             /\ declined' = None
             /\ Page!Settle(f, "done")
    <3> DEFINE to == [Page!Unused EXCEPT !.pc = "done"]
    <3>1. to \in Page!FlightState /\ to.gen = 0 /\ to.pc \in Over
      BY OverFits
    <3>2. Page!Step(f, to) /\ inflight' \in {None, inflight}
      BY <2>3 DEF Page!Settle
    <3>3. session' \in [merchant : Merchant \cup {None}, epoch : Page!Cookie]
      BY <1>2, <2>3 DEF Page!Cookie
    <3>4. 0 <= generation
      BY PageConstants DEF PageInv, Page!TypeOK
    <3>5. /\ UNCHANGED <<wallet, generation, leaving, load, live, out, staleNo>>
          /\ declined' \in Merchant \cup {None}
          /\ live' \in [Page!Flight -> Merchant \cup {None}]
      BY <1>1, <1>11, <2>3 DEF Page!LoggedIn, Page!history
    <3> HIDE DEF to
    <3> QED
      BY <1>3, <2>1, <2>3, <3>1, <3>2, <3>3, <3>4, <3>5, FlightStep
  <2> QED
    BY <1>11, <2>2, <2>3 DEF Page!LoggedIn
<1>12. CASE Page!Lost(f)
  BY <1>1, <1>3, <1>12, FailFits DEF Page!Lost, Page!server, Page!history
<1> QED
  BY <1>4, <1>5, <1>6, <1>7, <1>8, <1>9, <1>10, <1>11, <1>12 DEF Page!Establish

-----------------------------------------------------------------------------
(* A step of one load.                                                     *)

LEMMA LoadFits ==
    ASSUME NEW c, c.merchant \in Merchant, c.gen \in Page!Generation,
           c.retried \in BOOLEAN,
           NEW pc \in {"wait", "sent", "served", "done", "thrown"},
           NEW waits \in Page!Flight \cup {None}, NEW epoch \in Page!Cookie,
           NEW sent \in Page!Cookie, NEW got \in {None, c.merchant}
    PROVE  LET to == Page!LoadAt(c, pc, waits, epoch, sent, got) IN
           to \in Page!LoadState /\ Asks(to)
  BY DEF Page!LoadAt, Page!LoadState, Asks

LEMMA ThrownFits ==
    LET to == Page!LoadAt(Page!NoLoad, "thrown", None, None, None, None) IN
    to \in Page!LoadState /\ Asks(to)
  BY PageConstants DEF Page!LoadAt, Page!NoLoad, Page!LoadState, Page!Generation,
     Page!Cookie, Asks

(* It leaves the sign-ins alone, and gives a session up at most.           *)
LEMMA LoadStep ==
    ASSUME PageInv, NEW l \in Handler, NEW to \in Page!LoadState,
           Asks(to), load' = [load EXCEPT ![l] = to],
           UNCHANGED <<wallet, generation, declined, leaving, inflight, flight, jar,
                       live, out, staleNo>>,
           session' \in {session, Page!NoSession}
    PROVE  PageInv'
<1>1. load' \in [Handler -> Page!LoadState]
  BY DEF PageInv, Page!TypeOK
<1>2. Page!NoSession \in [merchant : Merchant \cup {None}, epoch : Page!Cookie]
  BY DEF Page!NoSession, Page!Cookie
<1>3. Page!TypeOK'
  BY <1>1, <1>2 DEF PageInv, Page!TypeOK, Page!Cookie
<1>4. AnswersOwn'
  BY DEF PageInv, Page!TypeOK, AnswersOwn, Asks
<1>5. FlightsBegan' /\ StaysOut'
  BY DEF PageInv, FlightsBegan, StaysOut, Page!NoSession
<1> QED
  BY <1>3, <1>4, <1>5 DEF PageInv

(* It begins a sign-in, which it does not once signed out.                 *)
LEMMA BeginStep ==
    ASSUME PageInv, Page!NextFlight \in Page!Flight, wallet \in Merchant,
           Page!Step(Page!NextFlight, Page!Begun(wallet)),
           inflight' = Page!NextFlight,
           load' \in [Handler -> Page!LoadState], AnswersOwn',
           UNCHANGED <<wallet, generation, declined, leaving, jar, live, staleNo>>,
           session' \in {session, Page!NoSession},
           ~out' \/ (inflight = None /\ declined # wallet /\ UNCHANGED out)
    PROVE  PageInv'
<1> DEFINE to == Page!Begun(wallet)
           f == Page!NextFlight
<1>1. to \in Page!FlightState /\ to.gen = generation
  BY BegunFits DEF PageInv
<1>2. Page!NoSession \in [merchant : Merchant \cup {None}, epoch : Page!Cookie]
  BY DEF Page!NoSession, Page!Cookie
<1> HIDE DEF to, f
<1>3. /\ f \in Page!Flight /\ inflight' = f
      /\ flight' = [flight EXCEPT ![f] = to]
  BY DEF Page!Step, to, f
<1>4. /\ flight' \in [Page!Flight -> Page!FlightState] /\ flight'[f] = to
      /\ \A g \in Page!Flight \ {f} : flight'[g] = flight[g]
  BY <1>1, <1>3 DEF PageInv, Page!TypeOK
<1>5. Page!TypeOK'
  BY <1>2, <1>3, <1>4 DEF PageInv, Page!TypeOK, Page!Cookie
<1>6. FlightsBegan'
  <2>1. generation \in Nat
    BY PageConstants DEF PageInv, Page!TypeOK
  <2> QED
    BY <1>1, <1>4, <2>1 DEF PageInv, FlightsBegan
<1>7. ~(out' /\ ~staleNo')
  BY DEF PageInv, StaysOut
<1> QED
  BY <1>5, <1>6, <1>7 DEF PageInv, StaysOut

(* ensureSession, from a fetch or from a refused request.                  *)
LEMMA EnsureFits ==
    ASSUME PageInv, NEW l \in Handler, NEW c, Page!Ensure(l, c),
           c.merchant \in Merchant, wallet = c.merchant, c.gen \in Page!Generation,
           c.retried \in BOOLEAN,
           UNCHANGED <<wallet, generation, declined, leaving, jar, live, out, staleNo>>,
           session' \in {session, Page!NoSession}
    PROVE  PageInv'
<1>1. /\ load \in [Handler -> Page!LoadState] /\ jar \in Page!Cookie
      /\ None \in Page!Cookie /\ inflight \in Page!Cookie
      /\ session'.epoch \in Page!Cookie
      /\ session'.merchant \in Merchant \cup {None}
      /\ wallet \in Merchant \cup {None}
  BY DEF PageInv, Page!TypeOK, Page!Cookie, Page!NoSession
<1>2. CASE Page!Send(l, c) /\ UNCHANGED <<inflight, flight>>
  <2> DEFINE to == Page!LoadAt(c, "sent", None, session'.epoch, jar, None)
  <2>1. to \in Page!LoadState /\ Asks(to)
    BY <1>1, LoadFits
  <2>2. load' = [load EXCEPT ![l] = to]
    BY <1>2 DEF Page!Send
  <2> HIDE DEF to
  <2> QED
    BY <1>2, <2>1, <2>2, LoadStep
<1>3. CASE Page!Await(l, c, inflight) /\ inflight # None /\ UNCHANGED <<inflight, flight>>
  <2> DEFINE to == Page!LoadAt(c, "wait", inflight, None, None, None)
  <2>1. inflight \in Page!Flight \cup {None}
    BY <1>1 DEF Page!Cookie
  <2>2. to \in Page!LoadState /\ Asks(to)
    BY <1>1, <2>1, LoadFits
  <2>3. load' = [load EXCEPT ![l] = to]
    BY <1>3 DEF Page!Await
  <2> HIDE DEF to
  <2> QED
    BY <1>3, <2>2, <2>3, LoadStep
<1>4. CASE Page!Throw(l) /\ UNCHANGED <<inflight, flight>>
  <2> DEFINE to == Page!LoadAt(Page!NoLoad, "thrown", None, None, None, None)
  <2>1. to \in Page!LoadState /\ Asks(to)
    BY ThrownFits
  <2>2. load' = [load EXCEPT ![l] = to]
    BY <1>4 DEF Page!Throw
  <2> HIDE DEF to
  <2> QED
    BY <1>4, <2>1, <2>2, LoadStep
<1>5. CASE /\ session'.merchant # wallet /\ inflight = None /\ declined # wallet
           /\ Page!NextFlight \in Page!Flight
           /\ Page!Step(Page!NextFlight, Page!Begun(wallet))
           /\ inflight' = Page!NextFlight
           /\ Page!Await(l, c, Page!NextFlight)
  <2> DEFINE f == Page!NextFlight
             to == Page!LoadAt(c, "wait", f, None, None, None)
  <2>1. to \in Page!LoadState /\ Asks(to)
    BY <1>1, <1>5, LoadFits
  <2>2. load' = [load EXCEPT ![l] = to]
    BY <1>5 DEF Page!Await
  <2> HIDE DEF to
  <2>3. load' \in [Handler -> Page!LoadState] /\ AnswersOwn'
    BY <1>1, <2>1, <2>2 DEF PageInv, AnswersOwn, Asks
  <2> QED
    BY <1>5, <2>3, BeginStep
<1> QED
  BY <1>2, <1>3, <1>4, <1>5 DEF Page!Ensure

LEMMA ThrowFits ==
    ASSUME PageInv, NEW l \in Handler, Page!Throw(l),
           UNCHANGED <<wallet, generation, declined, leaving, inflight, flight, jar,
                       live, out, staleNo, session>>
    PROVE  PageInv'
<1> DEFINE to == Page!LoadAt(Page!NoLoad, "thrown", None, None, None, None)
<1>1. to \in Page!LoadState /\ Asks(to)
  BY ThrownFits
<1>2. load' = [load EXCEPT ![l] = to]
  BY DEF Page!Throw
<1> HIDE DEF to
<1> QED
  BY <1>1, <1>2, LoadStep

LEMMA FetchFits ==
    ASSUME PageInv, NEW l \in Handler, Page!Fetch(l)
    PROVE  PageInv'
<1> DEFINE c == [merchant |-> wallet, gen |-> generation, retried |-> FALSE]
<1>1. Page!Ensure(l, c)
  BY DEF Page!Fetch
<1>2. c.merchant \in Merchant /\ c.merchant = wallet /\ c.gen \in Page!Generation
      /\ c.retried \in BOOLEAN
  BY DEF Page!Fetch, PageInv, Page!TypeOK
<1>3. /\ UNCHANGED <<wallet, generation, declined, leaving, jar, live, out, staleNo>>
      /\ session' \in {session, Page!NoSession}
  BY DEF Page!Fetch, Page!server, Page!history
<1> HIDE DEF c
<1> QED
  BY <1>1, <1>2, <1>3, EnsureFits

LEMMA EnsuredFits ==
    ASSUME PageInv, NEW l \in Handler, Page!Ensured(l)
    PROVE  PageInv'
<1> DEFINE c == load[l]
           to == Page!LoadAt(c, "sent", None, session'.epoch, jar, None)
<1>1. /\ UNCHANGED <<wallet, generation, declined, leaving, inflight, flight, jar,
                     live, out, staleNo, session>>
      /\ c.pc = "wait"
      /\ Page!Send(l, c) \/ Page!Throw(l)
  BY DEF Page!Ensured, Page!server, Page!history
<1>2. CASE Page!Throw(l)
  BY <1>1, <1>2, ThrowFits
<1>3. CASE Page!Send(l, c)
  <2>1. c \in Page!LoadState /\ Asks(c)
    BY DEF PageInv, Page!TypeOK, AnswersOwn
  <2>2. c.merchant \in Merchant /\ c.gen \in Page!Generation /\ c.retried \in BOOLEAN
    BY <1>1, <2>1 DEF Asks, Page!LoadState
  <2>3. None \in Page!Cookie /\ jar \in Page!Cookie /\ session'.epoch \in Page!Cookie
    BY <1>1 DEF PageInv, Page!TypeOK, Page!Cookie
  <2> HIDE DEF c
  <2>4. to \in Page!LoadState /\ Asks(to)
    BY <2>2, <2>3, LoadFits
  <2>5. load' = [load EXCEPT ![l] = to]
    BY <1>3 DEF Page!Send
  <2> HIDE DEF to
  <2> QED
    BY <1>1, <2>4, <2>5, LoadStep
<1> QED
  BY <1>1, <1>2, <1>3

(* The answer is for the wallet that the request names, or refuses it.     *)
LEMMA ServeFits ==
    ASSUME PageInv, NEW l \in Handler, Page!Serve(l)
    PROVE  PageInv'
<1> DEFINE c == load[l]
           got == Page!Authenticated(c.sent, c.merchant)
           to == Page!LoadAt(c, "served", None, c.epoch, None, got)
<1>1. /\ UNCHANGED <<wallet, generation, declined, leaving, inflight, flight, jar,
                     live, out, staleNo, session>>
      /\ c.pc = "sent"
      /\ load' = [load EXCEPT ![l] = to]
  BY DEF Page!Serve, Page!client, Page!server, Page!history
<1>2. c \in Page!LoadState /\ Asks(c)
  BY DEF PageInv, Page!TypeOK, AnswersOwn
<1>3. c.merchant \in Merchant /\ c.gen \in Page!Generation /\ c.retried \in BOOLEAN
      /\ c.epoch \in Page!Cookie /\ None \in Page!Cookie
  BY <1>1, <1>2 DEF Asks, Page!LoadState, Page!Cookie
<1>4. got \in {None, c.merchant}
  BY DEF Page!Authenticated
<1> HIDE DEF c, got
<1>5. to \in Page!LoadState /\ Asks(to)
  BY <1>3, <1>4, LoadFits
<1> HIDE DEF to
<1> QED
  BY <1>1, <1>5, LoadStep

LEMMA AnsweredFits ==
    ASSUME PageInv, NEW l \in Handler, Page!Answered(l)
    PROVE  PageInv'
<1> DEFINE c == load[l]
           done == [c EXCEPT !.pc = "done"]
           again == [c EXCEPT !.retried = TRUE]
<1>1. /\ UNCHANGED <<wallet, generation, declined, leaving, jar, live, out, staleNo>>
      /\ c.pc = "served"
  BY DEF Page!Answered, Page!server, Page!history
<1>2. c \in Page!LoadState /\ Asks(c)
  BY DEF PageInv, Page!TypeOK, AnswersOwn
<1>3. c.merchant \in Merchant
  BY <1>1, <1>2 DEF Asks
<1>4. CASE Page!Throw(l) /\ UNCHANGED <<session, inflight, flight>>
  BY <1>1, <1>4, ThrowFits
<1>5. CASE load' = [load EXCEPT ![l] = done] /\ UNCHANGED <<session, inflight, flight>>
  <2>1. done \in Page!LoadState /\ Asks(done)
    BY <1>2 DEF Page!LoadState, Asks
  <2> HIDE DEF done
  <2> QED
    BY <1>1, <1>5, <2>1, LoadStep
<1>6. CASE /\ Page!Current(c)
           /\ session' = IF session.epoch = c.epoch THEN Page!NoSession ELSE session
           /\ Page!Ensure(l, again)
  <2>1. /\ again.merchant \in Merchant /\ wallet = again.merchant
        /\ again.gen \in Page!Generation /\ again.retried \in BOOLEAN
    BY <1>2, <1>3, <1>6 DEF Page!Current, Page!LoadState
  <2> HIDE DEF again
  <2> QED
    BY <1>1, <1>6, <2>1, EnsureFits
<1> QED
  BY <1>4, <1>5, <1>6 DEF Page!Answered

-----------------------------------------------------------------------------
(* The person at the page, and the server.                                 *)

LEMMA SwitchFits ==
    ASSUME PageInv, NEW w \in Merchant \cup {None}, Page!SwitchWallet(w)
    PROVE  PageInv'
<1>1. generation \in Nat /\ generation + 1 \in Page!Generation
      /\ \A f \in Page!Flight : flight[f].gen \in Nat
  BY PageConstants DEF Page!SwitchWallet, PageInv, Page!TypeOK, Page!Generation,
     Page!FlightState
<1>2. /\ wallet' = w /\ generation' = generation + 1 /\ session' = Page!NoSession
      /\ inflight' = None /\ declined' = None /\ out' = FALSE
      /\ leaving' \in {leaving, generation'}
      /\ UNCHANGED <<flight, load, jar, live>>
  BY DEF Page!SwitchWallet, Page!Revoke, Page!server
<1>3. Page!TypeOK'
  BY <1>1, <1>2 DEF PageInv, Page!TypeOK, Page!NoSession, Page!Cookie
<1>4. FlightsBegan' /\ AnswersOwn' /\ StaysOut'
  BY <1>1, <1>2 DEF PageInv, FlightsBegan, AnswersOwn, Asks, StaysOut
<1> QED
  BY <1>3, <1>4 DEF PageInv

(* Signing out leaves every sign-in in an earlier generation.              *)
LEMMA SignOutFits ==
    ASSUME PageInv, Page!SignOut
    PROVE  PageInv'
<1>1. generation \in Nat /\ generation + 1 \in Page!Generation
      /\ \A f \in Page!Flight : flight[f].gen \in Nat
  BY PageConstants DEF Page!SignOut, PageInv, Page!TypeOK, Page!Generation,
     Page!FlightState
<1>2. /\ wallet # None /\ generation' = generation + 1 /\ session' = Page!NoSession
      /\ inflight' = None /\ declined' = wallet
      /\ leaving' = generation'
      /\ UNCHANGED <<wallet, flight, load, jar, live>>
  BY DEF Page!SignOut, Page!Revoke, Page!server
<1>3. Page!TypeOK'
  BY <1>1, <1>2 DEF PageInv, Page!TypeOK, Page!NoSession, Page!Cookie
<1>4. \A f \in Page!Flight : flight[f].gen < generation'
  BY <1>1, <1>2 DEF PageInv, FlightsBegan
<1>5. FlightsBegan' /\ AnswersOwn' /\ StaysOut'
  BY <1>1, <1>2, <1>4
  DEF PageInv, FlightsBegan, AnswersOwn, Asks, StaysOut, Page!NoSession
<1> QED
  BY <1>3, <1>5 DEF PageInv

LEMMA SignInFits ==
    ASSUME PageInv, Page!SignIn
    PROVE  PageInv'
<1>1. wallet \in Merchant
  BY DEF Page!SignIn, PageInv, Page!TypeOK
<1>2. load' \in [Handler -> Page!LoadState] /\ AnswersOwn'
  BY DEF Page!SignIn, PageInv, Page!TypeOK, AnswersOwn, Asks
<1>3. /\ Page!NextFlight \in Page!Flight
      /\ Page!Step(Page!NextFlight, Page!Begun(wallet))
      /\ inflight' = Page!NextFlight
      /\ ~out' /\ session' \in {session, Page!NoSession}
      /\ UNCHANGED <<wallet, generation, declined, leaving, jar, live, staleNo>>
  BY DEF Page!SignIn, Page!server
<1>4. ~out' \/ (inflight = None /\ declined # wallet /\ UNCHANGED out)
  BY <1>3, Zenon
<1> QED
  BY <1>1, <1>2, <1>3, <1>4, BeginStep

(* Steps of the server's, that the client does not notice.                 *)
LEMMA ServerStep ==
    ASSUME PageInv,
           UNCHANGED <<wallet, generation, declined, inflight, flight, load, out,
                       staleNo>>,
           session' \in {session, Page!NoSession}, leaving' \in {leaving, None},
           jar' \in {jar, None}, live' \in [Page!Flight -> Merchant \cup {None}]
    PROVE  PageInv'
<1>1. Page!TypeOK'
  BY DEF PageInv, Page!TypeOK, Page!NoSession, Page!Cookie
<1>2. FlightsBegan' /\ AnswersOwn' /\ StaysOut'
  BY DEF PageInv, FlightsBegan, AnswersOwn, Asks, StaysOut, Page!NoSession
<1> QED
  BY <1>1, <1>2 DEF PageInv

LEMMA RestFits ==
    ASSUME PageInv,
           \/ \E g \in Page!Generation : Page!ServeLogout(g) \/ Page!LogoutDone(g)
           \/ \E f \in Page!Flight : Page!Expire(f)
           \/ UNCHANGED Page!vars
    PROVE  PageInv'
<1>1. live \in [Page!Flight -> Merchant \cup {None}]
  BY DEF PageInv, Page!TypeOK
<1>2. ASSUME NEW g \in Page!Generation, Page!ServeLogout(g) PROVE PageInv'
  <2>1. live' \in [Page!Flight -> Merchant \cup {None}]
    BY <1>1, <1>2 DEF Page!ServeLogout
  <2> QED
    BY <1>2, <2>1, ServerStep DEF Page!ServeLogout, Page!client, Page!history
<1>3. ASSUME NEW g \in Page!Generation, Page!LogoutDone(g) PROVE PageInv'
  <2>1. jar' \in {jar, None} /\ leaving' \in {leaving, None}
    BY <1>3 DEF Page!LogoutDone
  <2> QED
    BY <1>1, <1>3, <2>1, ServerStep DEF Page!LogoutDone, Page!history
<1>4. ASSUME NEW f \in Page!Flight, Page!Expire(f) PROVE PageInv'
  <2>1. live' \in [Page!Flight -> Merchant \cup {None}]
    BY <1>1, <1>4 DEF Page!Expire
  <2> QED
    BY <1>4, <2>1, ServerStep DEF Page!Expire, Page!history
<1>5. CASE UNCHANGED Page!vars
  BY <1>1, <1>5, ServerStep DEF Page!vars, Page!client, Page!server, Page!history
<1> QED
  BY <1>2, <1>3, <1>4, <1>5

LEMMA PageStep == PageInv /\ [Page!Next]_(Page!vars) => PageInv'
<1> SUFFICES ASSUME PageInv, [Page!Next]_(Page!vars) PROVE PageInv'
  OBVIOUS
<1>1. ASSUME NEW f \in Page!Flight, Page!Establish(f) \/ Page!Expire(f) PROVE PageInv'
  BY <1>1, EstablishFits, RestFits
<1>2. ASSUME NEW l \in Handler,
             Page!Fetch(l) \/ Page!Ensured(l) \/ Page!Serve(l) \/ Page!Answered(l)
      PROVE  PageInv'
  BY <1>2, FetchFits, EnsuredFits, ServeFits, AnsweredFits
<1>3. ASSUME NEW w \in Merchant \cup {None}, Page!SwitchWallet(w) PROVE PageInv'
  BY <1>3, SwitchFits
<1>4. CASE Page!SignOut \/ Page!SignIn
  BY <1>4, SignOutFits, SignInFits
<1>5. ASSUME NEW g \in Page!Generation, Page!ServeLogout(g) \/ Page!LogoutDone(g)
      PROVE  PageInv'
  BY <1>5, RestFits
<1>6. CASE UNCHANGED Page!vars
  BY <1>6, RestFits
<1> QED
  BY <1>1, <1>2, <1>3, <1>4, <1>5, <1>6 DEF Page!Next

(* Data are delivered in one action, which asks for the wallet first.      *)
LEMMA PageDelivers == PageInv /\ [Page!Next]_(Page!vars) => Page!DeliversOwn
<1> SUFFICES ASSUME PageInv, [Page!Next]_(Page!vars), NEW l \in Handler,
                    load[l].pc # "done", load'[l].pc = "done", load'[l].got # None
             PROVE  load'[l].got = wallet
  BY DEF Page!DeliversOwn
<1>1. load \in [Handler -> Page!LoadState] /\ Asks(load[l])
  BY DEF PageInv, Page!TypeOK, AnswersOwn
<1>2. ASSUME NEW k \in Handler, NEW to, load' = [load EXCEPT ![k] = to],
             to.pc # "done"
      PROVE  FALSE
  BY <1>1, <1>2
<1>3. ASSUME NEW k \in Handler, Page!Throw(k) PROVE FALSE
  <2>1. Page!LoadAt(Page!NoLoad, "thrown", None, None, None, None).pc # "done"
    BY DEF Page!LoadAt
  <2> QED
    BY <1>2, <1>3, <2>1, Zenon DEF Page!Throw
<1>4. ASSUME NEW k \in Handler, NEW c, Page!Send(k, c) \/ Page!Ensure(k, c)
      PROVE  FALSE
  <2>1. Page!LoadAt(c, "sent", None, session'.epoch, jar, None).pc # "done"
    BY DEF Page!LoadAt
  <2>2. Page!Send(k, c) => FALSE
    BY <1>2, <2>1, Zenon DEF Page!Send
  <2>3. ASSUME NEW f, Page!Await(k, c, f) PROVE FALSE
    <3>1. Page!LoadAt(c, "wait", f, None, None, None).pc # "done"
      BY DEF Page!LoadAt
    <3> QED
      BY <1>2, <2>3, <3>1, Zenon DEF Page!Await
  <2> QED
    BY <1>3, <1>4, <2>2, <2>3 DEF Page!Ensure
<1>5. ASSUME NEW k \in Handler, Page!Fetch(k) \/ Page!Ensured(k) PROVE FALSE
  BY <1>3, <1>4, <1>5 DEF Page!Fetch, Page!Ensured
<1>6. ASSUME NEW k \in Handler, Page!Serve(k) PROVE FALSE
  <2> DEFINE c == load[k]
             to == Page!LoadAt(c, "served", None, c.epoch, None,
                               Page!Authenticated(c.sent, c.merchant))
  <2>1. to.pc # "done"
    BY DEF Page!LoadAt
  <2>2. load' = [load EXCEPT ![k] = to]
    BY <1>6 DEF Page!Serve
  <2> HIDE DEF to
  <2> QED
    BY <1>2, <2>1, <2>2
<1>7. ASSUME NEW k \in Handler, Page!Answered(k)
      PROVE  load'[l].got = wallet
  <2>1. /\ Page!Current(load[k]) /\ load[k].pc = "served"
        /\ load' = [load EXCEPT ![k] = [load[k] EXCEPT !.pc = "done"]]
    BY <1>3, <1>4, <1>7 DEF Page!Answered
  <2>2. k = l
    BY <1>1, <2>1
  <2>3. load'[l].got = load[l].got
    BY <1>1, <2>1, <2>2 DEF Page!LoadState
  <2> QED
    BY <1>1, <2>1, <2>2, <2>3 DEF Asks, Page!Current
<1>8. CASE UNCHANGED load
  BY <1>8
<1>9. ASSUME NEW f \in Page!Flight, Page!Establish(f) PROVE UNCHANGED load
  BY <1>9 DEF Page!Establish, Page!AfterLogout, Page!Probe, Page!Probed,
     Page!Challenged, Page!Sign, Page!Decline, Page!Login, Page!LoggedIn, Page!Lost
<1>10. ASSUME \/ Page!SignOut \/ Page!SignIn \/ UNCHANGED Page!vars
              \/ \E w \in Merchant \cup {None} : Page!SwitchWallet(w)
              \/ \E f \in Page!Flight : Page!Expire(f)
              \/ \E g \in Page!Generation : Page!ServeLogout(g) \/ Page!LogoutDone(g)
       PROVE  UNCHANGED load
  BY <1>10 DEF Page!SignOut, Page!SignIn, Page!SwitchWallet, Page!ServeLogout,
     Page!LogoutDone, Page!Expire, Page!vars
<1> QED
  BY <1>5, <1>6, <1>7, <1>8, <1>9, <1>10 DEF Page!Next

-----------------------------------------------------------------------------
(* Theorems about both ends.                                               *)

(* Each end runs as if the other were not there.                           *)
LEMMA Ends == SignInSpec => Spec /\ Page!Spec
<1>1. SignInInit => Init /\ Page!Init
  BY DEF SignInInit
<1>2. [SignInNext]_SignInVars => [Next]_vars /\ [Page!Next]_(Page!vars)
  BY DEF SignInNext, SignInVars, vars, page, Page!vars, Page!client, Page!server,
     Page!history
<1> QED
  BY <1>1, <1>2, PTL DEF SignInSpec, Spec, Page!Spec

(* What every step of the client and of the server it talks to preserves.  *)
THEOREM PageInductive == Page!Spec => []PageInv
  BY PageInit, PageStep, PTL DEF Page!Spec

(* Once signed out, nothing that was under way signs the page in again     *)
(* (signOut of workspaceSessionClient.ts moves the generation on, so that  *)
(* requireCurrent stops every sign-in at its next await, and marks the     *)
(* account declined, so that no load begins another), whatever answers     *)
(* come late, unless a prompt that an earlier wallet left open is declined.*)
THEOREM PageSignedOutStaysOut == SignInSpec => []SignedOutStaysOut
<1>1. PageInv => SignedOutStaysOut
  BY DEF PageInv, StaysOut, SignedOutStaysOut, Page!SignedOutStaysOut
<1> QED
  BY <1>1, Ends, PageInductive, PTL

(* Data reach the page only for the wallet connected when they arrive, for *)
(* any number of wallets, loads, switches and sign-ins.                    *)
THEOREM PageDeliveredIsOwn == SignInSpec => DeliveredIsOwn
<1>1. PageInv /\ [Page!Next]_(Page!vars)
      => [part = "page" => Page!DeliversOwn]_<<part, page>>
  BY PageDelivers
<1> QED
  BY <1>1, Ends, PageInductive, PTL DEF Page!Spec, DeliveredIsOwn

=============================================================================
