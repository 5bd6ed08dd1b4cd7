------------------------- MODULE CurrencyRatesProofs -------------------------
(***************************************************************************)
(* Safety of CurrencyRates for any users, devices, rates, threshold and    *)
(* clock.                                                                  *)
(***************************************************************************)
EXTENDS CurrencyRates, TLAPS, SequenceTheorems

USE CurrencyRatesAssumption

-----------------------------------------------------------------------------
(* The inductive invariant. *)

\* x is the current one of the rates S.
IsCurrent(x, S) == x \in S /\ \A y \in S \ {x} : IsLater(x, y)

\* One of the recorded rates is the current one.
HasCurrent == Rates # {} => IsCurrent(CurrentOf(Rates), Rates)

\* A transaction has the rate it is to record; an operation, the rate of the device's oldest one.
Working(p) ==
  /\ tx[p].step \in {"started", "paired"} => tx[p].rate \in Rate
  /\ tx[p].by \in {"set", "save"} => p \in Users
  /\ tx[p].by = "operation" =>
       /\ p \in Devices /\ unsent[p] # <<>>
       /\ tx[p].rate \in Rate /\ tx[p].rate.id = Head(unsent[p]).rate.id

\* A transaction that has read the current rate and will record its own.
Checked(p) == tx[p].step = "paired" \/ (tx[p].step = "ready" /\ tx[p].rate # NoRate)

\* It holds the pair, so what it read is current still.
UnderPair(p) ==
  Checked(p) =>
    /\ tx[p].pair /\ tx[p].before = CurrentOf(Rates)
    /\ tx[p].by = "set" /\ NeedsConfirmation(CurrentOf(Rates), tx[p].rate.value)
         => tx[p].confirmed

Transactions ==
  /\ \A p \in Actors : Working(p) /\ UnderPair(p)
  /\ \A p, q \in Actors : tx[p].pair /\ tx[q].pair => p = q

\* An id is of one recorded rate, or of one operation to send, or of one request of a user.
OneRecorded == \A i, j \in DOMAIN recorded : recorded[i].rate.id = recorded[j].rate.id => i = j

OneUnsent ==
  /\ \A d \in Devices : \A i \in DOMAIN unsent[d] :
       /\ \A y \in Rates : unsent[d][i].rate.id # y.id
       /\ \E x \in local[d] : x.id = unsent[d][i].rate.id
  /\ \A d, e \in Devices : \A i \in DOMAIN unsent[d], j \in DOMAIN unsent[e] :
       unsent[d][i].rate.id = unsent[e][j].rate.id => d = e /\ i = j

OneRequest ==
  /\ \A u \in Users : tx[u].rate \in Rate =>
       /\ \A y \in Rates : y.id # tx[u].rate.id
       /\ \A d \in Devices : \A x \in local[d] : x.id # tx[u].rate.id
  /\ \A u, v \in Users :
       tx[u].rate \in Rate /\ tx[v].rate \in Rate /\ tx[u].rate.id = tx[v].rate.id => u = v

\* A device has what it pulled, and of its own what is recorded later or is still to send.
Holds ==
  \A d \in Devices :
    /\ pulled[d] <= Len(recorded)
    /\ \A j \in 1..pulled[d] : recorded[j].rate \in local[d]
    /\ \A x \in local[d] :
         \/ \E j \in 1..pulled[d] : x = recorded[j].rate
         \/ \E j \in (pulled[d] + 1)..Len(recorded) : x.id = recorded[j].rate.id
         \/ \E i \in DOMAIN unsent[d] : x.id = unsent[d][i].rate.id

IInv ==
  /\ TypeOK /\ HasCurrent /\ Transactions /\ OneRecorded /\ OneUnsent /\ OneRequest /\ Holds
  /\ AuditTellsCurrent

-----------------------------------------------------------------------------
(* The current rate. *)

\* At most one of two rates is later than the other, and of two with their own ids one is.
LEMMA LaterIs ==
  ASSUME NEW x \in Rate, NEW y \in Rate
  PROVE  /\ IsLater(x, y) => ~IsLater(y, x)
         /\ x.id # y.id => IsLater(x, y) \/ IsLater(y, x)
<1>1. x.at \in Nat /\ y.at \in Nat /\ x.id \in Nat /\ y.id \in Nat
  BY DEF Rate
<1> QED BY <1>1 DEF IsLater

LEMMA LaterMoves ==
  ASSUME NEW x \in Rate, NEW y \in Rate, NEW z \in Rate, IsLater(x, y), IsLater(y, z)
  PROVE  IsLater(x, z)
<1>1. /\ x.at \in Nat /\ y.at \in Nat /\ z.at \in Nat
      /\ x.id \in Nat /\ y.id \in Nat /\ z.id \in Nat
  BY DEF Rate
<1> QED BY <1>1 DEF IsLater

\* The current rate is the one that is.
LEMMA CurrentIs ==
  ASSUME NEW S \in SUBSET Rate, NEW x, IsCurrent(x, S)
  PROVE  CurrentOf(S) = x
<1> DEFINE z == CHOOSE y \in S : \A w \in S \ {y} : IsLater(y, w)
<1>1. x \in S /\ \A w \in S \ {x} : IsLater(x, w)
  BY DEF IsCurrent
<1>2. z \in S /\ \A w \in S \ {z} : IsLater(z, w)
  BY <1>1
<1>3. CurrentOf(S) = z
  BY <1>1 DEF CurrentOf
<1> HIDE DEF z
<1>4. z = x
  <2>1. CASE z # x
    <3>1. IsLater(z, x) /\ IsLater(x, z)
      BY <1>1, <1>2, <2>1
    <3> QED BY <1>1, <1>2, <3>1, LaterIs
  <2> QED BY <2>1
<1> QED BY <1>3, <1>4

\* There is none if and only if there are no rates.
LEMMA NoCurrentIs ==
  ASSUME NEW S \in SUBSET Rate, S # {} => IsCurrent(CurrentOf(S), S)
  PROVE  /\ CurrentOf(S) = NoRate <=> S = {}
         /\ CurrentOf(S) \in Rate \cup {NoRate}
<1>1. NoRate \notin Rate
  BY DEF NoRate, Rate
<1> QED BY <1>1 DEF CurrentOf, IsCurrent

\* A rate of a new id takes the place of the current one if it is later.
LEMMA GrowIs ==
  ASSUME NEW S \in SUBSET Rate, S # {} => IsCurrent(CurrentOf(S), S),
         NEW x \in Rate, \A y \in S : y.id # x.id
  PROVE  /\ IsCurrent(CurrentOf(S \cup {x}), S \cup {x})
         /\ CurrentOf(S \cup {x}) = x <=> CurrentOf(S) = NoRate \/ IsLater(x, CurrentOf(S))
<1> DEFINE T == S \cup {x}
           c == CurrentOf(S)
<1>1. T \in SUBSET Rate
  OBVIOUS
<1>2. CASE S = {}
  <2>1. IsCurrent(x, T)
    BY <1>2 DEF IsCurrent
  <2>2. CurrentOf(T) = x
    BY <1>1, <2>1, CurrentIs
  <2> QED BY <1>2, <2>1, <2>2 DEF CurrentOf
<1>3. CASE S # {}
  <2>1. c \in S /\ (\A y \in S \ {c} : IsLater(c, y)) /\ c # NoRate /\ c # x /\ c.id # x.id
    BY <1>3, NoCurrentIs DEF IsCurrent
  <2>2. \A y \in S : y \in Rate
    OBVIOUS
  <2> HIDE DEF c
  <2>3. CASE IsLater(x, c)
    <3>1. \A y \in T \ {x} : IsLater(x, y)
      BY <2>1, <2>2, <2>3, LaterMoves
    <3>2. IsCurrent(x, T)
      BY <3>1 DEF IsCurrent
    <3>3. CurrentOf(T) = x
      BY <1>1, <3>2, CurrentIs
    <3> QED BY <2>3, <3>2, <3>3 DEF c
  <2>4. CASE ~IsLater(x, c)
    <3>1. IsLater(c, x)
      BY <2>1, <2>2, <2>4, LaterIs
    <3>2. IsCurrent(c, T)
      BY <2>1, <3>1 DEF IsCurrent
    <3>3. CurrentOf(T) = c
      BY <1>1, <3>2, CurrentIs
    <3> QED BY <2>1, <2>4, <3>2, <3>3 DEF c
  <2> QED BY <2>3, <2>4
<1> QED BY <1>2, <1>3

-----------------------------------------------------------------------------
(* Steps of transactions. *)

\* What a transaction reads beside itself stays as it is.
RestSame == UNCHANGED <<recorded, local, offers, unsent, pulled>>

\* The transactions but one stay as they are.
OthersSame(p) == \A q \in Actors : q # p => tx'[q] = tx[q]

\* No transaction is none, without a rate.
LEMMA NoTransactionIs ==
  /\ NoTransaction.step = "none" /\ NoTransaction.by = "none" /\ NoTransaction.pair = FALSE
  /\ NoTransaction.counter = FALSE /\ NoTransaction.rate = NoRate /\ NoRate \notin Rate
  BY DEF NoTransaction, NoRate, Rate

\* What is recorded are rates.
LEMMA RatesAre ==
  ASSUME TypeOK
  PROVE  /\ Rates \in SUBSET Rate /\ Rates = RatesBefore(Len(recorded) + 1)
         /\ \A y : y \in Rates <=> \E i \in 1..Len(recorded) : y = recorded[i].rate
<1>1. recorded \in Seq(Entry) /\ DOMAIN recorded = 1..Len(recorded) /\ Len(recorded) \in Nat
  BY DEF TypeOK
<1>2. \A i \in 1..Len(recorded) : recorded[i] \in Entry /\ recorded[i].rate \in Rate
  <2>1. \A e \in Entry : e.rate \in Rate
    BY DEF Entry
  <2> QED BY <1>1, <2>1
<1>3. Len(recorded) + 1 - 1 = Len(recorded)
  BY <1>1
<1> QED BY <1>1, <1>2, <1>3 DEF Rates, RatesBefore

\* Nothing is recorded, made on a device or asked for at first.
LEMMA InitInv == Init => IInv
<1> SUFFICES ASSUME Init PROVE IInv
  OBVIOUS
<1>1. \A p \in Actors : tx[p] = NoTransaction
  BY DEF Init
<1>2. recorded = <<>> /\ DOMAIN recorded = {} /\ Len(recorded) = 0 /\ Rates = {}
  BY DEF Init, Rates
<1>3. /\ \A d \in Devices : local[d] = {} /\ unsent[d] = <<>> /\ pulled[d] = 0
      /\ \A d \in Devices : DOMAIN unsent[d] = {}
  BY DEF Init
<1>4. TypeOK
  <2>1. now \in Nat /\ enabled \in BOOLEAN /\ recorded \in Seq(Entry)
    BY DEF Init
  <2>2. /\ tx \in [Actors -> Transaction \cup {NoTransaction}]
        /\ local \in [Devices -> SUBSET Rate] /\ offers \in [Devices -> BOOLEAN]
        /\ pulled \in [Devices -> Nat]
    BY DEF Init
  <2>3. unsent \in [Devices -> Seq([rate : Rate, confirmed : BOOLEAN])]
    BY DEF Init
  <2> QED BY <2>1, <2>2, <2>3 DEF TypeOK
<1>5. HasCurrent /\ OneRecorded /\ AuditTellsCurrent
  BY <1>2 DEF HasCurrent, OneRecorded, AuditTellsCurrent
<1>6. Transactions
  BY <1>1, NoTransactionIs DEF Transactions, Working, UnderPair, Checked
<1>7. OneUnsent /\ Holds
  BY <1>2, <1>3 DEF OneUnsent, Holds
<1>8. OneRequest
  BY <1>1, NoTransactionIs DEF OneRequest, Actors
<1> QED BY <1>4, <1>5, <1>6, <1>7, <1>8 DEF IInv

\* The recorded rates, and what is held and sent, stay as they are.
LEMMA RestKept ==
  ASSUME RestSame, HasCurrent, OneRecorded, OneUnsent, Holds, AuditTellsCurrent
  PROVE  (HasCurrent /\ OneRecorded /\ OneUnsent /\ Holds /\ AuditTellsCurrent)'
<1>1. Rates' = Rates /\ \A i : RatesBefore(i)' = RatesBefore(i)
  BY DEF RestSame, Rates, RatesBefore
<1>2. HasCurrent' /\ OneRecorded'
  BY <1>1 DEF RestSame, HasCurrent, OneRecorded
<1>3. OneUnsent'
  BY <1>1 DEF RestSame, OneUnsent
<1>4. Holds'
  BY DEF RestSame, Holds
<1>5. AuditTellsCurrent'
  BY <1>1 DEF RestSame, AuditTellsCurrent
<1> QED BY <1>2, <1>3, <1>4, <1>5

\* One transaction moves; it keeps what was asked of it.
LEMMA OneMoves ==
  ASSUME IInv, RestSame, NEW p \in Actors, OthersSame(p),
         now' \in Nat, enabled' \in BOOLEAN,
         tx' \in [Actors -> Transaction \cup {NoTransaction}],
         Working(p)', UnderPair(p)',
         tx'[p].pair => \A q \in Actors \ {p} : ~tx[q].pair,
         p \in Users /\ tx'[p].rate \in Rate =>
           /\ \A y \in Rates : y.id # tx'[p].rate.id
           /\ \A d \in Devices : \A x \in local[d] : x.id # tx'[p].rate.id
           /\ \A v \in Users \ {p} : tx[v].rate \in Rate => tx[v].rate.id # tx'[p].rate.id
  PROVE  IInv'
<1>1. (HasCurrent /\ OneRecorded /\ OneUnsent /\ Holds /\ AuditTellsCurrent)'
  BY RestKept DEF IInv
<1>2. TypeOK'
  BY DEF IInv, TypeOK, RestSame
<1>3. Rates' = Rates
  BY DEF RestSame, Rates
<1>4. Transactions'
  <2>1. ASSUME NEW q \in Actors
        PROVE  Working(q)' /\ UnderPair(q)'
    <3>1. CASE q = p
      BY <3>1
    <3>2. CASE q # p
      <4>1. Working(q) /\ UnderPair(q) /\ tx'[q] = tx[q]
        BY <3>2 DEF IInv, Transactions, OthersSame
      <4>2. Working(q)'
        BY <4>1 DEF Working, RestSame
      <4>3. UnderPair(q)'
        BY <1>3, <4>1 DEF UnderPair, Checked
      <4> QED BY <4>2, <4>3
    <3> QED BY <3>1, <3>2
  <2>2. \A q, r \in Actors : tx[q].pair /\ tx[r].pair => q = r
    BY DEF IInv, Transactions
  <2>3. \A q \in Actors : q # p => tx'[q] = tx[q]
    BY DEF OthersSame
  <2>4. \A q, r \in Actors : tx'[q].pair /\ tx'[r].pair => q = r
    BY <2>2, <2>3
  <2> QED BY <2>1, <2>4 DEF Transactions
<1>5. OneRequest'
  <2>1. \A u \in Users : u \in Actors
    BY DEF Actors
  <2>2. OneRequest /\ \A u \in Users : u # p => tx'[u] = tx[u]
    BY <2>1 DEF IInv, OthersSame
  <2>3. ASSUME NEW u \in Users, tx'[u].rate \in Rate
        PROVE  /\ \A y \in Rates : y.id # tx'[u].rate.id
               /\ \A d \in Devices : \A x \in local[d] : x.id # tx'[u].rate.id
    BY <2>2, <2>3 DEF OneRequest
  <2>4. ASSUME NEW u \in Users, NEW v \in Users, tx'[u].rate \in Rate, tx'[v].rate \in Rate,
               tx'[u].rate.id = tx'[v].rate.id, u # v
        PROVE  FALSE
    BY <2>2, <2>4 DEF OneRequest
  <2> QED BY <1>3, <2>3, <2>4 DEF OneRequest, RestSame
<1> QED BY <1>1, <1>2, <1>4, <1>5 DEF IInv

\* A transaction ends, and nothing is recorded.
LEMMA EndStep ==
  ASSUME IInv, NEW p \in Actors, Ended(p), UNCHANGED <<now, enabled, recorded, deviceVars>>
  PROVE  IInv'
<1>1. tx \in [Actors -> Transaction \cup {NoTransaction}] /\ now \in Nat /\ enabled \in BOOLEAN
  BY DEF IInv, TypeOK
<1>2. tx'[p] = NoTransaction /\ OthersSame(p) /\ tx' \in [Actors -> Transaction \cup {NoTransaction}]
  BY <1>1 DEF Ended, OthersSame
<1>3. Working(p)' /\ UnderPair(p)'
  BY <1>2, NoTransactionIs DEF Working, UnderPair, Checked
<1>4. RestSame /\ now' \in Nat /\ enabled' \in BOOLEAN
  BY <1>1 DEF RestSame, deviceVars
<1> QED BY <1>2, <1>3, <1>4, OneMoves, NoTransactionIs

-----------------------------------------------------------------------------
(* Requests begin. *)

\* An id that is not taken is of no rate, no transaction and no device.
LEMMA NewId ==
  ASSUME NEW id \in (1..MaxRates) \ Taken
  PROVE  /\ \A y \in Rates : y.id # id
         /\ \A p \in Actors : tx[p].rate.id # id
         /\ \A d \in Devices : \A x \in local[d] : x.id # id
<1>1. id \notin {x.id : x \in Rates} /\ id \notin {tx[p].rate.id : p \in Actors}
      /\ id \notin UNION {{x.id : x \in local[d]} : d \in Devices}
  BY DEF Taken
<1> QED BY <1>1

\* What begins is the transaction.
LEMMA BeginIs ==
  ASSUME TypeOK, NEW p \in Actors, NEW t \in Transaction, Begin(p, t)
  PROVE  /\ tx'[p] = t /\ OthersSame(p) /\ tx' \in [Actors -> Transaction \cup {NoTransaction}]
  BY DEF Begin, TypeOK, OthersSame

\* A rate is asked for online.
LEMMA SetStep ==
  ASSUME IInv, NEW u \in Users, NEW id \in (1..MaxRates) \ Taken, NEW value \in Values,
         NEW confirmed \in BOOLEAN, StartSet(u, id, value, confirmed)
  PROVE  IInv'
<1> DEFINE r == [id |-> id, value |-> value, at |-> now]
           t == [NoTransaction EXCEPT !.by = "set", !.step = "started", !.confirmed = confirmed,
                   !.rate = r]
<1>1. u \in Actors /\ now \in Nat /\ enabled \in BOOLEAN /\ TypeOK
  BY DEF Actors, IInv, TypeOK
<1>2. r \in Rate /\ r.id = id
  BY <1>1 DEF Rate
<1> HIDE DEF r
<1>3. /\ t \in Transaction /\ t.rate = r /\ t.by = "set" /\ t.step = "started" /\ t.pair = FALSE
  BY <1>2 DEF NoTransaction, Transaction
<1>4. Begin(u, t) /\ UNCHANGED <<now, enabled, recorded, deviceVars>>
  BY DEF StartSet, r
<1> HIDE DEF t
<1>5. tx'[u] = t /\ OthersSame(u) /\ tx' \in [Actors -> Transaction \cup {NoTransaction}]
  BY <1>1, <1>3, <1>4, BeginIs
<1>6. Working(u)' /\ UnderPair(u)'
  BY <1>2, <1>3, <1>5 DEF Working, UnderPair, Checked
<1>7. RestSame /\ now' \in Nat /\ enabled' \in BOOLEAN
  BY <1>1, <1>4 DEF RestSame, deviceVars
<1>8. /\ \A y \in Rates : y.id # r.id
      /\ \A d \in Devices : \A x \in local[d] : x.id # r.id
      /\ \A v \in Users : tx[v].rate.id # r.id
  BY <1>2, NewId DEF Actors
<1> QED BY <1>1, <1>3, <1>5, <1>6, <1>7, <1>8, OneMoves

\* The settings are saved, with a first rate or without.
LEMMA SaveStep ==
  ASSUME IInv, NEW u \in Users, NEW enable \in BOOLEAN, NEW other \in BOOLEAN,
         NEW first \in FirstRates \cup {NoRate}, StartSave(u, enable, first, other)
  PROVE  IInv'
<1> DEFINE t == [NoTransaction EXCEPT !.by = "save", !.rate = first, !.enable = enable,
                   !.step = IF enable # enabled \/ other THEN "publishing" ELSE "started"]
<1>1. u \in Actors /\ now \in Nat /\ enabled \in BOOLEAN /\ TypeOK
  BY DEF Actors, IInv, TypeOK
<1>2. first \in FirstRates => \E id \in (1..MaxRates) \ Taken : first \in Rate /\ first.id = id
  BY <1>1 DEF FirstRates, Rate
<1>3. first \in Rate \cup {NoRate}
  BY <1>2
<1>4. /\ t \in Transaction /\ t.rate = first /\ t.by = "save" /\ t.pair = FALSE
      /\ t.step = IF enable # enabled \/ other THEN "publishing" ELSE "started"
  BY <1>3 DEF NoTransaction, Transaction
<1>5. /\ Begin(u, t) /\ UNCHANGED <<now, enabled, recorded, deviceVars>>
      /\ enable # enabled \/ first # NoRate \/ other
  BY DEF StartSave
<1> HIDE DEF t
<1>6. tx'[u] = t /\ OthersSame(u) /\ tx' \in [Actors -> Transaction \cup {NoTransaction}]
  BY <1>1, <1>4, <1>5, BeginIs
<1>7. Working(u)' /\ UnderPair(u)'
  BY <1>3, <1>4, <1>5, <1>6 DEF Working, UnderPair, Checked
<1>8. RestSame /\ now' \in Nat /\ enabled' \in BOOLEAN
  BY <1>1, <1>5 DEF RestSame, deviceVars
<1>9. first \in Rate =>
        /\ \A y \in Rates : y.id # first.id
        /\ \A d \in Devices : \A x \in local[d] : x.id # first.id
        /\ \A v \in Users : tx[v].rate.id # first.id
  BY <1>2, NewId, NoTransactionIs DEF Actors
<1> QED BY <1>1, <1>4, <1>6, <1>7, <1>8, <1>9, OneMoves

\* The oldest operation of a device is taken up.
LEMMA OperationStep ==
  ASSUME IInv, NEW d \in Devices, StartOperation(d)
  PROVE  IInv'
<1> DEFINE o == Head(unsent[d])
           r == [o.rate EXCEPT !.at = ReceivedTime(o.rate)]
           t == [NoTransaction EXCEPT !.by = "operation", !.step = "started",
                   !.confirmed = o.confirmed, !.rate = r]
<1>1. d \in Actors /\ d \notin Users /\ now \in Nat /\ enabled \in BOOLEAN /\ TypeOK
  BY DEF Actors, IInv, TypeOK
<1>2. unsent[d] # <<>> /\ o \in [rate : Rate, confirmed : BOOLEAN]
  <2>1. unsent[d] \in Seq([rate : Rate, confirmed : BOOLEAN]) /\ unsent[d] # <<>>
    BY <1>1 DEF StartOperation, TypeOK
  <2> QED BY <2>1, HeadTailProperties
<1>3. Begin(d, t) /\ UNCHANGED <<now, enabled, recorded, deviceVars>>
  BY DEF StartOperation
<1> HIDE DEF o
<1>4. r \in Rate /\ r.id = o.rate.id
  <2>1. ReceivedTime(o.rate) \in Nat
    BY <1>1, <1>2 DEF ReceivedTime, Earlier, Rate
  <2> QED BY <1>2, <2>1 DEF Rate
<1> HIDE DEF r
<1>5. /\ t \in Transaction /\ t.rate = r /\ t.by = "operation" /\ t.step = "started"
      /\ t.pair = FALSE
  BY <1>2, <1>4 DEF NoTransaction, Transaction
<1> HIDE DEF t
<1>6. tx'[d] = t /\ OthersSame(d) /\ tx' \in [Actors -> Transaction \cup {NoTransaction}]
  BY <1>1, <1>3, <1>5, BeginIs
<1>7. RestSame /\ now' \in Nat /\ enabled' \in BOOLEAN
  BY <1>1, <1>3 DEF RestSame, deviceVars
<1>8. Working(d)' /\ UnderPair(d)'
  BY <1>2, <1>4, <1>5, <1>6, <1>7 DEF Working, UnderPair, Checked, RestSame, o
<1> QED BY <1>1, <1>5, <1>6, <1>7, <1>8, OneMoves

-----------------------------------------------------------------------------
(* Requests go on. *)

\* A transaction goes on with the rate it has, to a step and with the locks given.
LEMMA GoesOn ==
  ASSUME IInv, NEW p \in Actors, UNCHANGED <<now, enabled, recorded, deviceVars>>,
         OthersSame(p), tx'[p] \in Transaction, DOMAIN tx' = Actors, tx' = [q \in Actors |-> tx'[q]],
         tx'[p].rate = tx[p].rate, tx'[p].by = tx[p].by, tx'[p].confirmed = tx[p].confirmed,
         tx'[p].step \in {"started", "paired"} => tx[p].rate \in Rate,
         UnderPair(p)',
         tx'[p].pair => \A q \in Actors \ {p} : ~tx[q].pair
  PROVE  IInv'
<1>1. tx \in [Actors -> Transaction \cup {NoTransaction}] /\ now \in Nat /\ enabled \in BOOLEAN
  BY DEF IInv, TypeOK
<1>2. tx' \in [Actors -> Transaction \cup {NoTransaction}]
  BY <1>1 DEF OthersSame
<1>3. RestSame /\ now' \in Nat /\ enabled' \in BOOLEAN
  BY <1>1 DEF RestSame, deviceVars
<1>4. Working(p)'
  BY <1>3 DEF IInv, Transactions, Working, RestSame
<1>5. p \in Users /\ tx'[p].rate \in Rate =>
        /\ \A y \in Rates : y.id # tx'[p].rate.id
        /\ \A d \in Devices : \A x \in local[d] : x.id # tx'[p].rate.id
        /\ \A v \in Users \ {p} : tx[v].rate \in Rate => tx[v].rate.id # tx'[p].rate.id
  BY DEF IInv, OneRequest
<1> QED BY <1>2, <1>3, <1>4, <1>5, OneMoves

LEMMA PublishChangedStep ==
  ASSUME IInv, NEW p \in Actors, PublishChanged(p)
  PROVE  IInv'
<1>1. tx \in [Actors -> Transaction \cup {NoTransaction}] /\ tx[p].step = "publishing"
  BY DEF IInv, TypeOK, PublishChanged
<1>2. tx[p] \in Transaction
  BY <1>1, NoTransactionIs
<1> DEFINE next == IF tx[p].rate = NoRate THEN "ready" ELSE "started"
<1>3. tx'[p] = [tx[p] EXCEPT !.counter = TRUE, !.step = next]
  BY <1>1 DEF PublishChanged
<1>4. next \in {"ready", "started"} /\ (next = "ready" <=> tx[p].rate = NoRate)
  OBVIOUS
<1> HIDE DEF next
<1>5. /\ tx'[p] \in Transaction /\ tx'[p].rate = tx[p].rate /\ tx'[p].by = tx[p].by
      /\ tx'[p].confirmed = tx[p].confirmed /\ tx'[p].pair = tx[p].pair /\ tx'[p].step = next
  BY <1>2, <1>3, <1>4 DEF Transaction
<1>6. OthersSame(p) /\ DOMAIN tx' = Actors /\ tx' = [q \in Actors |-> tx'[q]]
  BY <1>1 DEF PublishChanged, OthersSame
<1>7. tx[p].rate \in Rate \cup {NoRate}
  BY <1>2 DEF Transaction
<1>8. UnderPair(p)'
  BY <1>4, <1>5 DEF UnderPair, Checked
<1>9. tx'[p].pair => \A q \in Actors \ {p} : ~tx[q].pair
  BY <1>5 DEF IInv, Transactions
<1> QED BY <1>4, <1>5, <1>6, <1>7, <1>8, <1>9, GoesOn DEF PublishChanged

LEMMA TakePairStep ==
  ASSUME IInv, NEW p \in Actors, TakePair(p)
  PROVE  IInv'
<1>1. tx \in [Actors -> Transaction \cup {NoTransaction}] /\ tx[p].step = "started"
  BY DEF IInv, TypeOK, TakePair
<1>2. tx[p] \in Transaction /\ tx[p].rate \in Rate
  BY <1>1, NoTransactionIs DEF IInv, Transactions, Working
<1>3. Rates \in SUBSET Rate
  BY RatesAre DEF IInv
<1> DEFINE c == CurrentOf(Rates)
<1>4. c \in Rate \cup {NoRate}
  BY <1>3, NoCurrentIs DEF IInv, HasCurrent
<1>5. tx'[p] = [tx[p] EXCEPT !.pair = TRUE, !.step = "paired", !.before = c]
  BY <1>1 DEF TakePair
<1>6. OthersSame(p) /\ DOMAIN tx' = Actors /\ tx' = [q \in Actors |-> tx'[q]]
  BY <1>1 DEF TakePair, OthersSame
<1>7. /\ UNCHANGED <<now, enabled, recorded, deviceVars>>
      /\ ~(tx[p].by = "set" /\ ~tx[p].confirmed /\ NeedsConfirmation(c, tx[p].rate.value))
      /\ \A q \in Actors \ {p} : ~tx[q].pair
  BY DEF TakePair, PairFree, Unconfirmed
<1>8. c' = c
  BY <1>7 DEF Rates
<1> HIDE DEF c
<1>9. /\ tx'[p] \in Transaction /\ tx'[p].rate = tx[p].rate /\ tx'[p].by = tx[p].by
      /\ tx'[p].confirmed = tx[p].confirmed /\ tx'[p].pair = TRUE /\ tx'[p].step = "paired"
      /\ tx'[p].before = c
  BY <1>2, <1>4, <1>5 DEF Transaction
<1>10. UnderPair(p)'
  <2>1. tx[p].confirmed \in BOOLEAN
    BY <1>2 DEF Transaction
  <2>2. tx'[p].by = "set" /\ NeedsConfirmation(c, tx'[p].rate.value) => tx'[p].confirmed
    BY <1>7, <1>9, <2>1
  <2>3. CurrentOf(Rates)' = c
    BY <1>8 DEF c
  <2> QED BY <1>9, <2>2, <2>3 DEF UnderPair
<1> QED BY <1>2, <1>6, <1>7, <1>9, <1>10, GoesOn

LEMMA PublishRateStep ==
  ASSUME IInv, NEW p \in Actors, PublishRate(p)
  PROVE  IInv'
<1>1. tx \in [Actors -> Transaction \cup {NoTransaction}] /\ tx[p].step = "paired"
  BY DEF IInv, TypeOK, PublishRate
<1>2. tx[p] \in Transaction
  BY <1>1, NoTransactionIs
<1>3. tx'[p] = [tx[p] EXCEPT !.counter = TRUE, !.step = "ready"]
  BY <1>1 DEF PublishRate
<1>4. /\ tx'[p] \in Transaction /\ tx'[p].rate = tx[p].rate /\ tx'[p].by = tx[p].by
      /\ tx'[p].confirmed = tx[p].confirmed /\ tx'[p].pair = tx[p].pair /\ tx'[p].step = "ready"
      /\ tx'[p].before = tx[p].before
  BY <1>2, <1>3 DEF Transaction
<1>5. OthersSame(p) /\ DOMAIN tx' = Actors /\ tx' = [q \in Actors |-> tx'[q]]
  BY <1>1 DEF PublishRate, OthersSame
<1>6. UNCHANGED <<now, enabled, recorded, deviceVars>>
  BY DEF PublishRate
<1>7. UnderPair(p)'
  <2>1. Checked(p) /\ UnderPair(p)
    BY <1>1 DEF Checked, IInv, Transactions
  <2>2. Rates' = Rates
    BY <1>6 DEF Rates
  <2> QED BY <1>4, <2>1, <2>2 DEF UnderPair
<1>8. tx'[p].pair => \A q \in Actors \ {p} : ~tx[q].pair
  BY <1>4 DEF IInv, Transactions
<1> QED BY <1>4, <1>5, <1>6, <1>7, <1>8, GoesOn

-----------------------------------------------------------------------------
(* A rate is recorded. *)

\* What is recorded so far stays, and the new entry is the last.
LEMMA RecordIs ==
  ASSUME TypeOK, NEW e \in Entry, recorded' = Append(recorded, e)
  PROVE  /\ recorded' \in Seq(Entry) /\ Len(recorded') = Len(recorded) + 1
         /\ recorded'[Len(recorded) + 1] = e
         /\ \A i \in 1..Len(recorded) : recorded'[i] = recorded[i]
         /\ \A i \in 1..(Len(recorded) + 1) : RatesBefore(i)' = RatesBefore(i)
         /\ \A k : k = Len(recorded) + 2 => RatesBefore(k)' = Rates \cup {e.rate}
         /\ Rates' = Rates \cup {e.rate}
<1> DEFINE n == Len(recorded)
<1>1. recorded \in Seq(Entry) /\ DOMAIN recorded = 1..n /\ n \in Nat
  BY DEF TypeOK
<1>2. /\ recorded' \in Seq(Entry) /\ Len(recorded') = n + 1 /\ recorded'[n + 1] = e
      /\ \A i \in 1..n : recorded'[i] = recorded[i]
  BY <1>1, AppendProperties
<1>3. DOMAIN recorded' = 1..(n + 1)
  BY <1>2
<1>4. ASSUME NEW i \in 1..(n + 1)
      PROVE  RatesBefore(i)' = RatesBefore(i)
  <2>1. \A j \in 1..(i - 1) : recorded'[j] = recorded[j]
    BY <1>1, <1>2
  <2> QED BY <2>1 DEF RatesBefore
<1>5. Rates' = Rates \cup {e.rate}
  <2>1. \A y : y \in Rates' <=> \E j \in 1..(n + 1) : y = recorded'[j].rate
    BY <1>3 DEF Rates
  <2>2. \A y : y \in Rates <=> \E j \in 1..n : y = recorded[j].rate
    BY RatesAre
  <2>3. \A j : j \in 1..(n + 1) <=> j \in 1..n \/ j = n + 1
    BY <1>1
  <2>4. \A y : y \in Rates' <=> y \in Rates \/ y = e.rate
    BY <1>2, <2>1, <2>2, <2>3
  <2> QED BY <2>4
<1>6. ASSUME NEW k, k = n + 2
      PROVE  RatesBefore(k)' = Rates'
  <2>1. k - 1 = n + 1
    BY <1>1, <1>6
  <2> QED BY <1>3, <2>1 DEF RatesBefore, Rates
<1> QED BY <1>2, <1>4, <1>5, <1>6

\* The id of a rate to record is of no recorded one.
LEMMA RecordsNew ==
  ASSUME IInv, NEW p \in Actors, tx[p] \in Transaction, tx[p].rate \in Rate
  PROVE  /\ \A y \in Rates : y.id # tx[p].rate.id
         /\ tx[p].by = "operation" => p \in Devices /\ p \notin Users /\ unsent[p] # <<>>
                                      /\ tx[p].rate.id = unsent[p][1].rate.id
                                      /\ 1 \in DOMAIN unsent[p]
         /\ tx[p].by # "operation" => p \in Users
<1>1. tx[p].by \in {"set", "save", "operation"}
  BY DEF Transaction
<1>2. Working(p)
  BY DEF IInv, Transactions
<1>3. tx[p].by # "operation" => p \in Users
  BY <1>1, <1>2 DEF Working
<1>4. ASSUME tx[p].by = "operation"
      PROVE  /\ p \in Devices /\ p \notin Users /\ unsent[p] # <<>>
             /\ tx[p].rate.id = unsent[p][1].rate.id /\ 1 \in DOMAIN unsent[p]
  <2>1. /\ p \in Devices /\ unsent[p] # <<>> /\ tx[p].rate.id = Head(unsent[p]).rate.id
    BY <1>2, <1>4 DEF Working
  <2>2. unsent[p] \in Seq([rate : Rate, confirmed : BOOLEAN])
    BY <2>1 DEF IInv, TypeOK
  <2>3. 1 \in DOMAIN unsent[p] /\ Head(unsent[p]) = unsent[p][1]
    BY <2>1, <2>2
  <2> QED BY <2>1, <2>3
<1>5. CASE tx[p].by = "operation"
  BY <1>4, <1>5 DEF IInv, OneUnsent
<1>6. CASE tx[p].by # "operation"
  BY <1>3, <1>6 DEF IInv, OneRequest
<1> QED BY <1>3, <1>4, <1>5, <1>6

\* By how much the operations to send of d move up when p commits.
Shift(p, d) == IF tx[p].by = "operation" /\ d = p THEN 1 ELSE 0

\* The operation that was recorded is no more to send.
LEMMA SendIs ==
  ASSUME IInv, NEW p \in Actors, Commit(p), tx[p] \in Transaction, tx[p].rate \in Rate
  PROVE  /\ unsent' \in [Devices -> Seq([rate : Rate, confirmed : BOOLEAN])]
         /\ \A d \in Devices : \A i : i \in DOMAIN unsent'[d] <=>
              i >= 1 /\ i \in Nat /\ i + Shift(p, d) \in DOMAIN unsent[d]
         /\ \A d \in Devices : \A i \in DOMAIN unsent'[d] :
              unsent'[d][i] = unsent[d][i + Shift(p, d)]
         /\ \A d \in Devices : d # p => unsent'[d] = unsent[d]
<1>1. unsent \in [Devices -> Seq([rate : Rate, confirmed : BOOLEAN])]
  BY DEF IInv, TypeOK
<1>2. \A d \in Devices : /\ unsent[d] \in Seq([rate : Rate, confirmed : BOOLEAN])
                         /\ DOMAIN unsent[d] = 1..Len(unsent[d]) /\ Len(unsent[d]) \in Nat
  <2> TAKE d \in Devices
  <2>1. unsent[d] \in Seq([rate : Rate, confirmed : BOOLEAN])
    BY <1>1
  <2> QED BY <2>1
<1>3. CASE tx[p].by # "operation"
  <2>1. unsent' = unsent /\ \A d : Shift(p, d) = 0
    BY <1>3 DEF Commit, Shift
  <2>2. ASSUME NEW d \in Devices
        PROVE  /\ \A i : i \in DOMAIN unsent[d] <=>
                           i >= 1 /\ i \in Nat /\ i + Shift(p, d) \in DOMAIN unsent[d]
               /\ \A i \in DOMAIN unsent[d] : unsent[d][i] = unsent[d][i + Shift(p, d)]
    <3>1. \A i : i \in 1..Len(unsent[d]) <=> i >= 1 /\ i \in Nat /\ i + 0 \in 1..Len(unsent[d])
      BY <1>2
    <3>2. \A i \in 1..Len(unsent[d]) : i + 0 = i
      BY <1>2
    <3> QED BY <1>2, <2>1, <3>1, <3>2
  <2>5. unsent' \in [Devices -> Seq([rate : Rate, confirmed : BOOLEAN])]
    BY <1>1, <2>1
  <2> QED BY <2>1, <2>2, <2>5
<1>4. CASE tx[p].by = "operation"
  <2>1. p \in Devices /\ unsent[p] # <<>>
    BY <1>4, RecordsNew
  <2>2. unsent' = [unsent EXCEPT ![p] = Tail(unsent[p])]
    BY <1>4 DEF Commit
  <2>3. /\ Tail(unsent[p]) \in Seq([rate : Rate, confirmed : BOOLEAN])
        /\ Len(Tail(unsent[p])) = Len(unsent[p]) - 1
        /\ \A i \in 1..Len(Tail(unsent[p])) : Tail(unsent[p])[i] = unsent[p][i + 1]
    BY <1>2, <2>1, HeadTailProperties, ZenonT(40)
  <2>4. DOMAIN Tail(unsent[p]) = 1..(Len(unsent[p]) - 1)
    BY <2>3
  <2>5. unsent' \in [Devices -> Seq([rate : Rate, confirmed : BOOLEAN])]
    BY <1>1, <2>2, <2>3
  <2>6. ASSUME NEW d \in Devices
        PROVE  /\ \A i : i \in DOMAIN unsent'[d] <=>
                           i >= 1 /\ i \in Nat /\ i + Shift(p, d) \in DOMAIN unsent[d]
               /\ \A i \in DOMAIN unsent'[d] : unsent'[d][i] = unsent[d][i + Shift(p, d)]
               /\ d # p => unsent'[d] = unsent[d]
    <3>1. CASE d = p
      <4>1. unsent'[d] = Tail(unsent[p]) /\ Shift(p, d) = 1
        BY <1>1, <1>4, <2>2, <3>1 DEF Shift
      <4>2. \A i : i \in 1..(Len(unsent[p]) - 1) <=> i >= 1 /\ i \in Nat /\ i + 1 \in 1..Len(unsent[p])
        BY <1>2, <2>1
      <4> QED BY <1>2, <2>3, <2>4, <3>1, <4>1, <4>2
    <3>2. CASE d # p
      <4>1. unsent'[d] = unsent[d] /\ Shift(p, d) = 0
        BY <1>1, <2>2, <3>2 DEF Shift
      <4> QED BY <1>2, <3>2, <4>1
    <3> QED BY <3>1, <3>2
  <2> QED BY <2>5, <2>6
<1> QED BY <1>3, <1>4

\* What recording the rate of p comes to.
Records(p) ==
  /\ tx[p] \in Transaction /\ tx[p].rate \in Rate /\ EntryOf(tx[p]) \in Entry
  /\ recorded' = Append(recorded, EntryOf(tx[p]))
  /\ tx'[p] = NoTransaction /\ OthersSame(p)
  /\ UNCHANGED <<local, pulled>>
  /\ tx[p].pair /\ tx[p].before = CurrentOf(Rates)
  /\ tx[p].by = "set" /\ NeedsConfirmation(CurrentOf(Rates), tx[p].rate.value) => tx[p].confirmed

LEMMA CommitIs ==
  ASSUME IInv, NEW p \in Actors, Commit(p)
  PROVE  /\ tx[p] \in Transaction /\ tx' \in [Actors -> Transaction \cup {NoTransaction}]
         /\ enabled' \in BOOLEAN /\ now' \in Nat /\ UNCHANGED offers
         /\ tx[p].rate # NoRate => Records(p)
<1>1. tx \in [Actors -> Transaction \cup {NoTransaction}] /\ tx[p].step = "ready"
  BY DEF IInv, TypeOK, Commit
<1>2. tx[p] \in Transaction /\ tx[p].rate \in Rate \cup {NoRate} /\ tx[p].enable \in BOOLEAN
  BY <1>1, NoTransactionIs DEF Transaction
<1>3. tx'[p] = NoTransaction /\ OthersSame(p) /\ tx' \in [Actors -> Transaction \cup {NoTransaction}]
  BY <1>1 DEF Commit, Ended, OthersSame
<1>4. enabled' \in BOOLEAN /\ now' \in Nat /\ UNCHANGED <<offers, local, pulled>>
  BY <1>2 DEF Commit, IInv, TypeOK
<1>5. ASSUME tx[p].rate # NoRate
      PROVE  Records(p)
  <2>1. Checked(p) /\ UnderPair(p)
    BY <1>1, <1>5 DEF Checked, IInv, Transactions
  <2>2. EntryOf(tx[p]) \in Entry
    <3>1. (tx[p].before = NoRate \/ IsLater(tx[p].rate, tx[p].before)) \in BOOLEAN
      OBVIOUS
    <3>2. tx[p].rate \in Rate
      BY <1>2, <1>5
    <3> QED BY <1>2, <3>1, <3>2 DEF EntryOf, Entry, Transaction
  <2>3. recorded' = Append(recorded, EntryOf(tx[p]))
    BY <1>5 DEF Commit, Appended
  <2> QED BY <1>2, <1>3, <1>4, <1>5, <2>1, <2>2, <2>3 DEF Records, UnderPair
<1> QED BY <1>2, <1>3, <1>4, <1>5

\* The current rate and the entries so far.
LEMMA RecordedKeeps ==
  ASSUME IInv, NEW p \in Actors, Records(p)
  PROVE  (HasCurrent /\ OneRecorded /\ AuditTellsCurrent)'
<1> DEFINE n == Len(recorded)
           e == EntryOf(tx[p])
           r == tx[p].rate
           c == CurrentOf(Rates)
<1>1. /\ TypeOK /\ e \in Entry /\ r \in Rate /\ recorded' = Append(recorded, e)
      /\ n \in Nat /\ e.rate = r /\ e.before = c /\ Rates \in SUBSET Rate
      /\ e.current <=> c = NoRate \/ IsLater(r, c)
      /\ e.by = "set" /\ NeedsConfirmation(c, r.value) => e.confirmed
  <2>1. TypeOK /\ n \in Nat /\ Rates \in SUBSET Rate
    <3>1. TypeOK
      BY DEF IInv
    <3>2. n \in Nat
      BY <3>1 DEF TypeOK
    <3> QED BY <3>1, <3>2, RatesAre
  <2>2. /\ e \in Entry /\ r \in Rate /\ recorded' = Append(recorded, e) /\ tx[p].before = c
        /\ tx[p].by = "set" /\ NeedsConfirmation(c, r.value) => tx[p].confirmed
    BY DEF Records
  <2>3. /\ e.rate = r /\ e.before = tx[p].before /\ e.by = tx[p].by
        /\ e.confirmed = tx[p].confirmed
        /\ e.current = (tx[p].before = NoRate \/ IsLater(r, tx[p].before))
    BY DEF EntryOf
  <2> HIDE DEF e, r, c
  <2> QED BY <2>1, <2>2, <2>3
<1>2. /\ recorded' \in Seq(Entry) /\ Len(recorded') = n + 1 /\ recorded'[n + 1] = e
      /\ \A i \in 1..n : recorded'[i] = recorded[i]
      /\ \A i \in 1..(n + 1) : RatesBefore(i)' = RatesBefore(i)
      /\ \A k : k = n + 2 => RatesBefore(k)' = Rates \cup {r}
      /\ Rates' = Rates \cup {r}
  BY <1>1, RecordIs
<1>3. \A y \in Rates : y.id # r.id
  BY <1>1, RecordsNew DEF Records
<1>4. DOMAIN recorded = 1..n /\ DOMAIN recorded' = 1..(n + 1)
  BY <1>1, <1>2 DEF TypeOK
<1>5. /\ IsCurrent(CurrentOf(Rates \cup {r}), Rates \cup {r})
      /\ CurrentOf(Rates \cup {r}) = r <=> c = NoRate \/ IsLater(r, c)
  BY <1>1, <1>3, GrowIs DEF IInv, HasCurrent
<1>6. HasCurrent'
  BY <1>2, <1>5 DEF HasCurrent
<1>7. OneRecorded'
  <2>1. \A i \in 1..n : recorded[i].rate \in Rates
    BY RatesAre DEF IInv
  <2>2. ASSUME NEW i \in 1..(n + 1), NEW j \in 1..(n + 1), recorded'[i].rate.id = recorded'[j].rate.id
        PROVE  i = j
    <3>1. CASE i \in 1..n /\ j \in 1..n
      BY <1>2, <1>4, <2>2, <3>1 DEF IInv, OneRecorded
    <3>2. CASE i = n + 1 /\ j \in 1..n
      BY <1>1, <1>2, <1>3, <2>1, <2>2, <3>2
    <3>3. CASE i \in 1..n /\ j = n + 1
      BY <1>1, <1>2, <1>3, <2>1, <2>2, <3>3
    <3>4. CASE i = n + 1 /\ j = n + 1
      BY <3>4
    <3> QED BY <1>1, <3>1, <3>2, <3>3, <3>4
  <2> QED BY <1>4, <2>2 DEF OneRecorded
<1>8. AuditTellsCurrent'
  <2> DEFINE Says(x, S, T) ==
               /\ x.before = CurrentOf(S)
               /\ x.current <=> CurrentOf(T) = x.rate
               /\ x.by = "set" /\ NeedsConfirmation(CurrentOf(S), x.rate.value) => x.confirmed
  <2>1. \A i \in 1..n : Says(recorded[i], RatesBefore(i), RatesBefore(i + 1))
    BY <1>4 DEF IInv, AuditTellsCurrent
  <2>2. Says(e, Rates, Rates \cup {r})
    BY <1>1, <1>5
  <2> HIDE DEF Says
  <2>3. ASSUME NEW i \in 1..(n + 1)
        PROVE  Says(recorded'[i], RatesBefore(i)', RatesBefore(i + 1)')
    <3>1. CASE i \in 1..n
      <4>1. i + 1 \in 1..(n + 1)
        BY <1>1, <3>1
      <4>2. RatesBefore(i + 1)' = RatesBefore(i + 1) /\ RatesBefore(i)' = RatesBefore(i)
        BY <1>2, <4>1
      <4> QED BY <1>2, <2>1, <3>1, <4>2
    <3>2. CASE i = n + 1
      <4>1. i + 1 = n + 2
        BY <1>1, <3>2
      <4>2. RatesBefore(i + 1)' = Rates \cup {r}
        BY <1>2, <4>1
      <4>3. RatesBefore(i)' = Rates
        BY <1>2, <3>2, RatesAre DEF IInv
      <4> QED BY <1>2, <2>2, <3>2, <4>2, <4>3
    <3> QED BY <3>1, <3>2
  <2> QED BY <1>4, <2>3 DEF AuditTellsCurrent, Says
<1> QED BY <1>6, <1>7, <1>8

\* Transactions, and what is sent and held.
LEMMA TransactionsKeep ==
  ASSUME IInv, NEW p \in Actors, Commit(p), Records(p)
  PROVE  Transactions'
<1>1. /\ tx'[p] = NoTransaction /\ tx[p].pair /\ tx[p] \in Transaction /\ tx[p].rate \in Rate
      /\ \A q \in Actors : q # p => tx'[q] = tx[q]
  BY DEF Records, OthersSame
<1>2. \A q, r \in Actors : tx[q].pair /\ tx[r].pair => q = r
  BY DEF IInv, Transactions
<1>3. \A q \in Actors : ~tx'[q].pair
  BY <1>1, <1>2, NoTransactionIs
<1>4. ASSUME NEW q \in Actors
      PROVE  Working(q)' /\ UnderPair(q)'
  <2>1. CASE q = p
    BY <1>1, <2>1, NoTransactionIs DEF Working, UnderPair, Checked
  <2>2. CASE q # p
    <3>1. Working(q) /\ UnderPair(q) /\ tx'[q] = tx[q]
      BY <1>1, <2>2 DEF IInv, Transactions
    <3>2. q \in Devices => unsent'[q] = unsent[q]
      BY <1>1, <2>2, SendIs
    <3>3. Working(q)'
      BY <3>1, <3>2 DEF Working
    <3>4. ~tx[q].pair
      BY <1>1, <1>2, <2>2
    <3>5. ~Checked(q)
      BY <3>1, <3>4 DEF UnderPair
    <3>6. ~Checked(q)'
      BY <3>1, <3>5 DEF Checked
    <3> QED BY <3>3, <3>6 DEF UnderPair
  <2> QED BY <2>1, <2>2
<1> QED BY <1>3, <1>4 DEF Transactions

LEMMA SendsKeep ==
  ASSUME IInv, NEW p \in Actors, Commit(p), Records(p)
  PROVE  (OneUnsent /\ OneRequest /\ Holds)'
<1> DEFINE n == Len(recorded)
           r == tx[p].rate
           e == EntryOf(tx[p])
           s(d) == Shift(p, d)
<1>1. /\ TypeOK /\ tx[p] \in Transaction /\ r \in Rate /\ e \in Entry /\ e.rate = r
      /\ recorded' = Append(recorded, e) /\ UNCHANGED <<local, pulled>>
  BY DEF IInv, Records, EntryOf
<1>2. /\ Len(recorded') = n + 1 /\ recorded'[n + 1] = e /\ n \in Nat
      /\ \A i \in 1..n : recorded'[i] = recorded[i]
      /\ Rates' = Rates \cup {r}
  <2>1. n \in Nat
    BY <1>1 DEF TypeOK
  <2> QED BY <1>1, <2>1, RecordIs
<1>3. /\ \A d \in Devices : \A i : i \in DOMAIN unsent'[d] <=>
           i >= 1 /\ i \in Nat /\ i + s(d) \in DOMAIN unsent[d]
      /\ \A d \in Devices : \A i \in DOMAIN unsent'[d] : unsent'[d][i] = unsent[d][i + s(d)]
  BY <1>1, SendIs
<1>4. /\ \A y \in Rates : y.id # r.id
      /\ tx[p].by = "operation" =>
           p \in Devices /\ p \notin Users /\ r.id = unsent[p][1].rate.id /\ 1 \in DOMAIN unsent[p]
      /\ tx[p].by # "operation" => p \in Users
  BY <1>1, RecordsNew
<1>5. \A d : s(d) = IF tx[p].by = "operation" /\ d = p THEN 1 ELSE 0
  BY DEF Shift
<1>6. \A d \in Devices : \A i \in DOMAIN unsent[d] : i \in Nat /\ i >= 1
  <2> TAKE d \in Devices
  <2>1. unsent[d] \in Seq([rate : Rate, confirmed : BOOLEAN])
    BY <1>1 DEF TypeOK
  <2> QED BY <2>1
<1> HIDE DEF s, r, e
<1>7. ASSUME NEW d \in Devices, NEW i \in DOMAIN unsent'[d]
      PROVE  /\ i + s(d) \in DOMAIN unsent[d] /\ unsent'[d][i] = unsent[d][i + s(d)]
             /\ i \in Nat /\ i >= 1 /\ s(d) \in Nat
             /\ unsent'[d][i].rate.id # r.id
  <2>1. /\ i + s(d) \in DOMAIN unsent[d] /\ unsent'[d][i] = unsent[d][i + s(d)]
        /\ i \in Nat /\ i >= 1 /\ s(d) \in Nat
    BY <1>3, <1>5
  <2>2. CASE tx[p].by = "operation"
    <3>1. d = p => s(d) = 1
      BY <1>5, <2>2
    <3>2. ~(d = p /\ i + s(d) = 1)
      BY <2>1, <3>1
    <3>3. unsent[d][i + s(d)].rate.id # unsent[p][1].rate.id
      BY <1>4, <2>1, <2>2, <3>2 DEF IInv, OneUnsent
    <3> QED BY <1>4, <2>1, <2>2, <3>3
  <2>3. CASE tx[p].by # "operation"
    <3>1. p \in Users
      BY <1>4, <2>3
    <3>2. PICK x \in local[d] : x.id = unsent[d][i + s(d)].rate.id
      BY <2>1 DEF IInv, OneUnsent
    <3>3. x.id # r.id
      BY <1>1, <3>1 DEF IInv, OneRequest, r
    <3> QED BY <2>1, <3>2, <3>3
  <2> QED BY <2>1, <2>2, <2>3
<1>8. OneUnsent'
  <2>1. ASSUME NEW d \in Devices, NEW i \in DOMAIN unsent'[d]
        PROVE  /\ \A y \in Rates \cup {r} : unsent'[d][i].rate.id # y.id
               /\ \E x \in local[d] : x.id = unsent'[d][i].rate.id
    <3>1. i + s(d) \in DOMAIN unsent[d] /\ unsent'[d][i] = unsent[d][i + s(d)]
      BY <1>7
    <3>2. /\ \A y \in Rates : unsent[d][i + s(d)].rate.id # y.id
          /\ \E x \in local[d] : x.id = unsent[d][i + s(d)].rate.id
      BY <3>1 DEF IInv, OneUnsent
    <3>3. unsent'[d][i].rate.id # r.id
      BY <1>7
    <3> QED BY <3>1, <3>2, <3>3
  <2>2. ASSUME NEW d \in Devices, NEW f \in Devices,
               NEW i \in DOMAIN unsent'[d], NEW j \in DOMAIN unsent'[f],
               unsent'[d][i].rate.id = unsent'[f][j].rate.id
        PROVE  d = f /\ i = j
    <3>1. /\ i + s(d) \in DOMAIN unsent[d] /\ unsent'[d][i] = unsent[d][i + s(d)]
          /\ i \in Nat /\ s(d) \in Nat
      BY <1>7
    <3>2. /\ j + s(f) \in DOMAIN unsent[f] /\ unsent'[f][j] = unsent[f][j + s(f)]
          /\ j \in Nat /\ s(f) \in Nat
      BY <1>7
    <3>3. d = f /\ i + s(d) = j + s(f)
      BY <2>2, <3>1, <3>2 DEF IInv, OneUnsent
    <3>4. s(d) = s(f)
      BY <3>3
    <3> QED BY <3>1, <3>2, <3>3, <3>4
  <2> QED BY <1>1, <1>2, <2>1, <2>2 DEF OneUnsent
<1>9. OneRequest'
  <2>1. \A u \in Users : u \in Actors
    BY DEF Actors
  <2>2. /\ \A u \in Users : u # p => tx'[u] = tx[u]
        /\ p \in Users => tx'[p].rate \notin Rate
    BY <2>1, NoTransactionIs DEF Records, OthersSame
  <2>3. ASSUME NEW u \in Users, u # p, tx[u].rate \in Rate
        PROVE  tx[u].rate.id # r.id
    <3>1. CASE tx[p].by = "operation"
      <4>1. p \in Devices /\ 1 \in DOMAIN unsent[p] /\ r.id = unsent[p][1].rate.id
        BY <1>4, <3>1
      <4>2. PICK x \in local[p] : x.id = r.id
        BY <4>1 DEF IInv, OneUnsent
      <4> QED BY <2>3, <4>1, <4>2 DEF IInv, OneRequest
    <3>2. CASE tx[p].by # "operation"
      BY <1>1, <1>4, <2>3, <3>2 DEF IInv, OneRequest, r
    <3> QED BY <3>1, <3>2
  <2>4. ASSUME NEW u \in Users, tx'[u].rate \in Rate
        PROVE  /\ \A y \in Rates \cup {r} : y.id # tx'[u].rate.id
               /\ \A d \in Devices : \A x \in local[d] : x.id # tx'[u].rate.id
    <3>1. u # p /\ tx'[u] = tx[u]
      BY <2>2, <2>4
    <3> QED BY <2>3, <2>4, <3>1 DEF IInv, OneRequest
  <2>5. ASSUME NEW u \in Users, NEW v \in Users, tx'[u].rate \in Rate, tx'[v].rate \in Rate,
               tx'[u].rate.id = tx'[v].rate.id
        PROVE  u = v
    <3>1. u # p /\ tx'[u] = tx[u] /\ v # p /\ tx'[v] = tx[v]
      BY <2>2, <2>5
    <3> QED BY <2>5, <3>1 DEF IInv, OneRequest
  <2> QED BY <1>1, <1>2, <2>4, <2>5 DEF OneRequest
<1>10. Holds'
  <2> SUFFICES ASSUME NEW d \in Devices
               PROVE  /\ pulled[d] <= n + 1
                      /\ \A j \in 1..pulled[d] : recorded'[j].rate \in local[d]
                      /\ \A x \in local[d] :
                           \/ \E j \in 1..pulled[d] : x = recorded'[j].rate
                           \/ \E j \in (pulled[d] + 1)..(n + 1) : x.id = recorded'[j].rate.id
                           \/ \E i \in DOMAIN unsent'[d] : x.id = unsent'[d][i].rate.id
    BY <1>1, <1>2, ZenonT(40) DEF Holds
  <2>1. /\ pulled[d] \in Nat /\ pulled[d] <= n
        /\ \A j \in 1..pulled[d] : recorded[j].rate \in local[d]
    BY <1>1 DEF IInv, Holds, TypeOK
  <2>2. /\ \A j \in 1..pulled[d] : recorded'[j] = recorded[j]
        /\ \A j \in (pulled[d] + 1)..n : recorded'[j] = recorded[j] /\ j \in (pulled[d] + 1)..(n + 1)
        /\ n + 1 \in (pulled[d] + 1)..(n + 1)
    BY <1>2, <2>1
  <2>3. ASSUME NEW x \in local[d]
        PROVE  \/ \E j \in 1..pulled[d] : x = recorded'[j].rate
               \/ \E j \in (pulled[d] + 1)..(n + 1) : x.id = recorded'[j].rate.id
               \/ \E i \in DOMAIN unsent'[d] : x.id = unsent'[d][i].rate.id
    <3>1. CASE \E j \in 1..pulled[d] : x = recorded[j].rate
      BY <2>2, <3>1
    <3>2. CASE \E j \in (pulled[d] + 1)..n : x.id = recorded[j].rate.id
      BY <2>2, <3>2
    <3>3. CASE \E i \in DOMAIN unsent[d] : x.id = unsent[d][i].rate.id
      <4>1. PICK i \in DOMAIN unsent[d] : x.id = unsent[d][i].rate.id
        BY <3>3
      <4>2. i \in Nat /\ i >= 1
        BY <1>6
      <4>3. CASE s(d) = 0
        <5>1. i \in DOMAIN unsent'[d] /\ unsent'[d][i] = unsent[d][i]
          BY <1>3, <4>2, <4>3
        <5> QED BY <4>1, <5>1
      <4>4. CASE s(d) # 0 /\ i = 1
        <5>1. d = p /\ tx[p].by = "operation"
          BY <1>5, <4>4
        <5>2. x.id = recorded'[n + 1].rate.id
          BY <1>1, <1>2, <1>4, <4>1, <4>4, <5>1
        <5> QED BY <2>2, <5>2
      <4>5. CASE s(d) # 0 /\ i # 1
        <5>1. s(d) = 1
          BY <1>5, <4>5
        <5>2. i - 1 \in Nat /\ i - 1 >= 1 /\ (i - 1) + s(d) = i
          BY <4>2, <4>5, <5>1
        <5>3. i - 1 \in DOMAIN unsent'[d] /\ unsent'[d][i - 1] = unsent[d][i]
          BY <1>3, <5>2
        <5> QED BY <4>1, <5>3
      <4> QED BY <4>3, <4>4, <4>5
    <3> QED BY <3>1, <3>2, <3>3 DEF IInv, Holds
  <2>4. pulled[d] <= n + 1
    BY <1>2, <2>1
  <2>5. \A j \in 1..pulled[d] : recorded'[j].rate \in local[d]
    BY <2>1, <2>2
  <2> QED BY <2>3, <2>4, <2>5
<1> QED BY <1>8, <1>9, <1>10

LEMMA CommitStep ==
  ASSUME IInv, NEW p \in Actors, Commit(p)
  PROVE  IInv'
<1>1. /\ tx[p] \in Transaction /\ tx' \in [Actors -> Transaction \cup {NoTransaction}]
      /\ enabled' \in BOOLEAN /\ now' \in Nat /\ UNCHANGED offers
      /\ tx[p].rate # NoRate => Records(p)
  BY CommitIs
<1>2. CASE tx[p].rate = NoRate
  <2>1. tx[p].by # "operation"
    BY <1>2, NoTransactionIs DEF IInv, Transactions, Working
  <2>2. /\ UNCHANGED <<recorded, local, offers, unsent, pulled>>
        /\ tx'[p] = NoTransaction /\ OthersSame(p)
    BY <1>2, <2>1 DEF Commit, Appended, Ended, OthersSame, IInv, TypeOK
  <2>3. Working(p)' /\ UnderPair(p)'
    BY <2>2, NoTransactionIs DEF Working, UnderPair, Checked
  <2> QED BY <1>1, <2>2, <2>3, OneMoves, NoTransactionIs DEF RestSame
<1>3. CASE tx[p].rate # NoRate
  <2>1. Records(p)
    BY <1>1, <1>3
  <2>2. (HasCurrent /\ OneRecorded /\ AuditTellsCurrent)'
    BY <2>1, RecordedKeeps
  <2>3. Transactions' /\ (OneUnsent /\ OneRequest /\ Holds)'
    BY <2>1, TransactionsKeep, SendsKeep
  <2>4. TypeOK'
    <3>1. recorded' \in Seq(Entry)
      BY <2>1, RecordIs DEF Records, IInv
    <3>2. unsent' \in [Devices -> Seq([rate : Rate, confirmed : BOOLEAN])]
      BY <2>1, SendIs DEF Records
    <3>3. /\ local' \in [Devices -> SUBSET Rate] /\ offers' \in [Devices -> BOOLEAN]
          /\ pulled' \in [Devices -> Nat]
      BY <1>1, <2>1 DEF Records, IInv, TypeOK
    <3> QED BY <1>1, <3>1, <3>2, <3>3 DEF TypeOK
  <2> QED BY <2>2, <2>3, <2>4 DEF IInv
<1> QED BY <1>2, <1>3

-----------------------------------------------------------------------------
(* Steps of the devices. *)

\* Nothing is recorded, and no transaction moves.
LEMMA DeviceOnly ==
  ASSUME IInv, UNCHANGED <<recorded, tx>>,
         \A p \in Devices : tx[p].by = "operation" =>
           unsent'[p] # <<>> /\ Head(unsent'[p]) = Head(unsent[p])
  PROVE  (HasCurrent /\ OneRecorded /\ AuditTellsCurrent /\ Transactions)' /\ Rates' = Rates
<1>1. Rates' = Rates /\ \A i : RatesBefore(i)' = RatesBefore(i)
  BY DEF Rates, RatesBefore
<1>2. (HasCurrent /\ OneRecorded /\ AuditTellsCurrent)'
  BY <1>1 DEF IInv, HasCurrent, OneRecorded, AuditTellsCurrent
<1>3. ASSUME NEW p \in Actors
      PROVE  Working(p)' /\ UnderPair(p)'
  <2>1. Working(p) /\ UnderPair(p)
    BY DEF IInv, Transactions
  <2> QED BY <1>1, <2>1 DEF Working, UnderPair, Checked
<1>4. Transactions'
  BY <1>3 DEF IInv, Transactions
<1> QED BY <1>1, <1>2, <1>4

\* A rate made on a device has an id of its own.
LEMMA MakeStep ==
  ASSUME IInv, NEW d \in Devices, NEW id \in (1..MaxRates) \ Taken, NEW value \in Values,
         NEW at \in 0..(MaxTime + 1), NEW confirmed \in BOOLEAN,
         SetOnDevice(d, id, value, at, confirmed)
  PROVE  IInv'
<1> DEFINE r == [id |-> id, value |-> value, at |-> at]
           o == [rate |-> r, confirmed |-> confirmed]
           Kind == [rate : Rate, confirmed : BOOLEAN]
           m == Len(unsent[d])
<1>1. /\ local \in [Devices -> SUBSET Rate] /\ unsent \in [Devices -> Seq(Kind)]
      /\ TypeOK
  BY DEF IInv, TypeOK
<1>2. r \in Rate /\ r.id = id /\ o \in Kind /\ o.rate = r
  <2>1. at \in Nat
    OBVIOUS
  <2> QED BY <2>1 DEF Rate
<1>3. /\ local' = [local EXCEPT ![d] = @ \cup {r}] /\ unsent' = [unsent EXCEPT ![d] = Append(@, o)]
      /\ UNCHANGED <<now, enabled, recorded, tx, offers, pulled>>
  BY DEF SetOnDevice
<1>4. /\ \A y \in Rates : y.id # id
      /\ \A p \in Actors : tx[p].rate.id # id
      /\ \A f \in Devices : \A x \in local[f] : x.id # id
  BY NewId
<1> HIDE DEF r, o, Kind
<1>5. /\ m \in Nat /\ DOMAIN unsent[d] = 1..m /\ Append(unsent[d], o) \in Seq(Kind)
      /\ DOMAIN Append(unsent[d], o) = 1..(m + 1) /\ Append(unsent[d], o)[m + 1] = o
      /\ \A i \in 1..m : Append(unsent[d], o)[i] = unsent[d][i]
      /\ unsent[d] # <<>> => Head(Append(unsent[d], o)) = Head(unsent[d])
      /\ Append(unsent[d], o) # <<>>
  <2>1. unsent[d] \in Seq(Kind) /\ o \in Kind
    BY <1>1, <1>2
  <2>2. /\ Append(unsent[d], o) \in Seq(Kind) /\ Len(Append(unsent[d], o)) = m + 1
        /\ Append(unsent[d], o)[m + 1] = o /\ m \in Nat /\ DOMAIN unsent[d] = 1..m
        /\ \A i \in 1..m : Append(unsent[d], o)[i] = unsent[d][i]
    BY <2>1, AppendProperties
  <2>3. DOMAIN Append(unsent[d], o) = 1..(m + 1) /\ Append(unsent[d], o) # <<>>
    BY <2>2
  <2>4. unsent[d] # <<>> => Head(Append(unsent[d], o)) = Head(unsent[d])
    <3>1. unsent[d] # <<>> => 1 \in 1..m
      BY <2>1, <2>2
    <3>2. Head(Append(unsent[d], o)) = Append(unsent[d], o)[1]
      BY <2>2, <2>3
    <3>3. unsent[d] # <<>> => Head(unsent[d]) = unsent[d][1]
      BY <2>1
    <3> QED BY <2>2, <3>1, <3>2, <3>3
  <2> QED BY <2>2, <2>3, <2>4
<1>6. /\ \A f \in Devices : f # d => local'[f] = local[f] /\ unsent'[f] = unsent[f]
      /\ local'[d] = local[d] \cup {r} /\ unsent'[d] = Append(unsent[d], o)
  BY <1>1, <1>3
<1>7. TypeOK'
  <2>1. local' \in [Devices -> SUBSET Rate]
    BY <1>1, <1>2, <1>3
  <2>2. unsent' \in [Devices -> Seq(Kind)]
    BY <1>1, <1>3, <1>5
  <2> QED BY <1>1, <1>3, <2>1, <2>2 DEF TypeOK, Kind
<1>8. (HasCurrent /\ OneRecorded /\ AuditTellsCurrent /\ Transactions)' /\ Rates' = Rates
  <2>1. ASSUME NEW p \in Devices, tx[p].by = "operation"
        PROVE  unsent'[p] # <<>> /\ Head(unsent'[p]) = Head(unsent[p])
    <3>1. unsent[p] # <<>>
      BY <2>1 DEF IInv, Transactions, Working, Actors
    <3> QED BY <1>5, <1>6, <3>1
  <2> QED BY <1>3, <2>1, DeviceOnly
<1>9. ASSUME NEW f \in Devices, NEW i \in DOMAIN unsent'[f]
      PROVE  \/ i \in DOMAIN unsent[f] /\ unsent'[f][i] = unsent[f][i]
                                       /\ unsent'[f][i].rate.id # id
             \/ f = d /\ i = m + 1 /\ unsent'[f][i].rate = r
  <2>1. ASSUME NEW j \in DOMAIN unsent[f]
        PROVE  unsent[f][j].rate.id # id
    <3>1. PICK x \in local[f] : x.id = unsent[f][j].rate.id
      BY DEF IInv, OneUnsent
    <3> QED BY <1>4, <3>1
  <2>2. CASE f # d
    BY <1>6, <2>1, <2>2
  <2>3. CASE f = d
    <3>1. i \in 1..(m + 1) /\ unsent'[f] = Append(unsent[d], o)
      BY <1>5, <1>6, <2>3
    <3>2. CASE i = m + 1
      BY <1>2, <1>5, <2>3, <3>1, <3>2
    <3>3. CASE i # m + 1
      <4>1. i \in 1..m
        BY <1>5, <3>1, <3>3
      <4> QED BY <1>5, <2>1, <2>3, <3>1, <4>1
    <3> QED BY <3>2, <3>3
  <2> QED BY <2>2, <2>3
<1>10. OneUnsent'
  <2>1. ASSUME NEW f \in Devices, NEW i \in DOMAIN unsent'[f]
        PROVE  /\ \A y \in Rates : unsent'[f][i].rate.id # y.id
               /\ \E x \in local'[f] : x.id = unsent'[f][i].rate.id
    <3>1. CASE i \in DOMAIN unsent[f] /\ unsent'[f][i] = unsent[f][i]
      <4>1. /\ \A y \in Rates : unsent[f][i].rate.id # y.id
            /\ \E x \in local[f] : x.id = unsent[f][i].rate.id
        BY <3>1 DEF IInv, OneUnsent
      <4>2. local[f] \subseteq local'[f]
        BY <1>6
      <4> QED BY <3>1, <4>1, <4>2
    <3>2. CASE f = d /\ unsent'[f][i].rate = r
      BY <1>2, <1>4, <1>6, <3>2
    <3> QED BY <1>9, <3>1, <3>2
  <2>2. ASSUME NEW f \in Devices, NEW g \in Devices,
               NEW i \in DOMAIN unsent'[f], NEW j \in DOMAIN unsent'[g],
               unsent'[f][i].rate.id = unsent'[g][j].rate.id
        PROVE  f = g /\ i = j
    <3>1. CASE /\ i \in DOMAIN unsent[f] /\ unsent'[f][i] = unsent[f][i]
               /\ j \in DOMAIN unsent[g] /\ unsent'[g][j] = unsent[g][j]
      BY <2>2, <3>1 DEF IInv, OneUnsent
    <3> QED BY <1>2, <1>9, <2>2, <3>1
  <2> QED BY <1>8, <2>1, <2>2 DEF OneUnsent
<1>11. OneRequest'
  <2>1. \A u \in Users : tx[u].rate.id # id
    BY <1>4 DEF Actors
  <2>2. ASSUME NEW u \in Users, tx[u].rate \in Rate
        PROVE  /\ \A y \in Rates : y.id # tx[u].rate.id
               /\ \A f \in Devices : \A x \in local'[f] : x.id # tx[u].rate.id
    <3>1. \A f \in Devices : \A x \in local[f] : x.id # tx[u].rate.id
      BY <2>2 DEF IInv, OneRequest
    <3>2. \A f \in Devices : local'[f] \subseteq local[f] \cup {r}
      BY <1>6
    <3> QED BY <1>2, <2>1, <2>2, <3>1, <3>2 DEF IInv, OneRequest
  <2>3. \A u, v \in Users :
          tx[u].rate \in Rate /\ tx[v].rate \in Rate /\ tx[u].rate.id = tx[v].rate.id => u = v
    BY DEF IInv, OneRequest
  <2> QED BY <1>3, <1>8, <2>2, <2>3 DEF OneRequest
<1>12. Holds'
  <2> SUFFICES ASSUME NEW f \in Devices
               PROVE  /\ pulled[f] <= Len(recorded)
                      /\ \A j \in 1..pulled[f] : recorded[j].rate \in local'[f]
                      /\ \A x \in local'[f] :
                           \/ \E j \in 1..pulled[f] : x = recorded[j].rate
                           \/ \E j \in (pulled[f] + 1)..Len(recorded) : x.id = recorded[j].rate.id
                           \/ \E i \in DOMAIN unsent'[f] : x.id = unsent'[f][i].rate.id
    BY <1>3, SMTT(30) DEF Holds
  <2>1. /\ pulled[f] <= Len(recorded)
        /\ \A j \in 1..pulled[f] : recorded[j].rate \in local[f]
        /\ \A x \in local[f] :
             \/ \E j \in 1..pulled[f] : x = recorded[j].rate
             \/ \E j \in (pulled[f] + 1)..Len(recorded) : x.id = recorded[j].rate.id
             \/ \E i \in DOMAIN unsent[f] : x.id = unsent[f][i].rate.id
    BY DEF IInv, Holds
  <2>2. \A i \in DOMAIN unsent[f] : i \in DOMAIN unsent'[f] /\ unsent'[f][i] = unsent[f][i]
    <3>1. CASE f # d
      BY <1>6, <3>1
    <3>2. CASE f = d
      <4>1. \A i \in 1..m : i \in 1..(m + 1)
        BY <1>5
      <4> QED BY <1>5, <1>6, <3>2, <4>1
    <3> QED BY <3>1, <3>2
  <2>3. ASSUME NEW x \in local'[f]
        PROVE  \/ x \in local[f]
               \/ \E i \in DOMAIN unsent'[f] : x.id = unsent'[f][i].rate.id
    <3>1. CASE f # d
      BY <1>6, <3>1
    <3>2. CASE f = d
      <4>1. m + 1 \in DOMAIN unsent'[d] /\ unsent'[d][m + 1].rate = r
        BY <1>2, <1>5, <1>6
      <4> QED BY <1>6, <3>2, <4>1
    <3> QED BY <3>1, <3>2
  <2>4. local[f] \subseteq local'[f]
    BY <1>6
  <2>5. \A j \in 1..pulled[f] : recorded[j].rate \in local'[f]
    BY <2>1, <2>4
  <2>6. ASSUME NEW x \in local'[f]
        PROVE  \/ \E j \in 1..pulled[f] : x = recorded[j].rate
               \/ \E j \in (pulled[f] + 1)..Len(recorded) : x.id = recorded[j].rate.id
               \/ \E i \in DOMAIN unsent'[f] : x.id = unsent'[f][i].rate.id
    <3>1. CASE x \in local[f]
      BY <2>1, <2>2, <3>1
    <3> QED BY <2>3, <3>1
  <2> QED BY <2>1, <2>5, <2>6
<1> QED BY <1>7, <1>8, <1>10, <1>11, <1>12 DEF IInv

\* What is pulled replaces the device's own.
LEMMA PullStep ==
  ASSUME IInv, NEW d \in Devices, Pull(d)
  PROVE  IInv'
<1> DEFINE n == Len(recorded)
           m == pulled[d]
           P == {recorded[i].rate : i \in (m + 1)..n}
           Kept == {x \in local[d] : \A y \in P : y.id # x.id}
<1>1. TypeOK /\ Rates \in SUBSET Rate /\ \A i \in 1..n : recorded[i].rate \in Rates
  BY RatesAre DEF IInv
<1>2. n \in Nat /\ m \in Nat /\ m <= n /\ DOMAIN recorded = 1..n
  <2>1. n \in Nat /\ DOMAIN recorded = 1..n
    BY <1>1 DEF TypeOK
  <2> QED BY <1>1, <2>1 DEF IInv, Holds, TypeOK
<1>3. P \subseteq Rates
  BY <1>1, <1>2
<1>4. /\ local' = [local EXCEPT ![d] = Kept \cup P] /\ pulled' = [pulled EXCEPT ![d] = n]
      /\ offers' = [offers EXCEPT ![d] = enabled]
      /\ UNCHANGED <<now, enabled, recorded, tx, unsent>>
  BY DEF Pull, Applied
<1>5. /\ \A f \in Devices : f # d => local'[f] = local[f] /\ pulled'[f] = pulled[f]
      /\ local'[d] = Kept \cup P /\ pulled'[d] = n
  BY <1>1, <1>4 DEF TypeOK
<1>6. TypeOK'
  <2>1. Kept \cup P \subseteq Rate
    BY <1>1, <1>3 DEF TypeOK
  <2>2. local' \in [Devices -> SUBSET Rate]
    BY <1>1, <1>4, <2>1 DEF TypeOK
  <2>3. pulled' \in [Devices -> Nat] /\ offers' \in [Devices -> BOOLEAN]
    BY <1>1, <1>2, <1>4 DEF TypeOK
  <2> QED BY <1>1, <1>4, <2>2, <2>3 DEF TypeOK
<1>7. (HasCurrent /\ OneRecorded /\ AuditTellsCurrent /\ Transactions)' /\ Rates' = Rates
  <2>1. \A p \in Devices : tx[p].by = "operation" => unsent[p] # <<>>
    BY DEF IInv, Transactions, Working, Actors
  <2> QED BY <1>4, <2>1, DeviceOnly
<1> HIDE DEF P
<1>8. OneUnsent'
  <2>1. ASSUME NEW f \in Devices, NEW i \in DOMAIN unsent[f]
        PROVE  /\ \A y \in Rates : unsent[f][i].rate.id # y.id
               /\ \E x \in local'[f] : x.id = unsent[f][i].rate.id
    <3>1. \A y \in Rates : unsent[f][i].rate.id # y.id
      BY DEF IInv, OneUnsent
    <3>2. PICK x \in local[f] : x.id = unsent[f][i].rate.id
      BY DEF IInv, OneUnsent
    <3>3. x \in local'[f]
      BY <1>3, <1>5, <3>1, <3>2
    <3> QED BY <3>1, <3>2, <3>3
  <2>2. \A f, g \in Devices : \A i \in DOMAIN unsent[f], j \in DOMAIN unsent[g] :
          unsent[f][i].rate.id = unsent[g][j].rate.id => f = g /\ i = j
    BY DEF IInv, OneUnsent
  <2> QED BY <1>4, <1>7, <2>1, <2>2 DEF OneUnsent
<1>9. OneRequest'
  <2>1. \A f \in Devices : local'[f] \subseteq local[f] \cup Rates
    BY <1>3, <1>5
  <2>2. ASSUME NEW u \in Users, tx[u].rate \in Rate
        PROVE  /\ \A y \in Rates : y.id # tx[u].rate.id
               /\ \A f \in Devices : \A x \in local'[f] : x.id # tx[u].rate.id
    <3>1. /\ \A y \in Rates : y.id # tx[u].rate.id
          /\ \A f \in Devices : \A x \in local[f] : x.id # tx[u].rate.id
      BY <2>2 DEF IInv, OneRequest
    <3> QED BY <2>1, <3>1
  <2>3. \A u, v \in Users :
          tx[u].rate \in Rate /\ tx[v].rate \in Rate /\ tx[u].rate.id = tx[v].rate.id => u = v
    BY DEF IInv, OneRequest
  <2> QED BY <1>4, <1>7, <2>2, <2>3 DEF OneRequest
<1>10. Holds'
  <2>1. /\ \A j \in 1..m : recorded[j].rate \in local[d]
        /\ \A x \in local[d] :
             \/ \E j \in 1..m : x = recorded[j].rate
             \/ \E j \in (m + 1)..n : x.id = recorded[j].rate.id
             \/ \E i \in DOMAIN unsent[d] : x.id = unsent[d][i].rate.id
    BY DEF IInv, Holds
  <2>2. \A y : y \in P <=> \E j \in (m + 1)..n : y = recorded[j].rate
    BY DEF P
  <2>3. ASSUME NEW j \in 1..n
        PROVE  recorded[j].rate \in local'[d]
    <3>1. CASE j \in 1..m
      <4>1. \A k \in (m + 1)..n : recorded[k].rate.id # recorded[j].rate.id
        BY <1>2, <3>1 DEF IInv, OneRecorded
      <4>2. recorded[j].rate \in Kept
        BY <2>1, <2>2, <3>1, <4>1
      <4> QED BY <1>5, <4>2
    <3>2. CASE j \in (m + 1)..n
      BY <1>5, <2>2, <3>2
    <3> QED BY <1>2, <3>1, <3>2
  <2>4. ASSUME NEW x \in local'[d]
        PROVE  \/ \E j \in 1..n : x = recorded[j].rate
               \/ \E i \in DOMAIN unsent[d] : x.id = unsent[d][i].rate.id
    <3>1. CASE x \in P
      <4>1. PICK j \in (m + 1)..n : x = recorded[j].rate
        BY <2>2, <3>1
      <4>2. j \in 1..n
        BY <1>2
      <4> QED BY <4>1, <4>2
    <3>2. CASE x \in Kept
      <4>1. ~ \E j \in (m + 1)..n : x.id = recorded[j].rate.id
        BY <2>2, <3>2
      <4>2. CASE \E j \in 1..m : x = recorded[j].rate
        <5>1. \A j \in 1..m : j \in 1..n
          BY <1>2
        <5> QED BY <4>2, <5>1
      <4> QED BY <2>1, <3>2, <4>1, <4>2
    <3> QED BY <1>5, <3>1, <3>2
  <2>5. ASSUME NEW f \in Devices
        PROVE  /\ pulled'[f] <= n
               /\ \A j \in 1..pulled'[f] : recorded[j].rate \in local'[f]
               /\ \A x \in local'[f] :
                    \/ \E j \in 1..pulled'[f] : x = recorded[j].rate
                    \/ \E j \in (pulled'[f] + 1)..n : x.id = recorded[j].rate.id
                    \/ \E i \in DOMAIN unsent[f] : x.id = unsent[f][i].rate.id
    <3>1. CASE f = d
      <4>1. pulled'[f] = n /\ n <= n
        BY <1>2, <1>5, <3>1
      <4> QED BY <2>3, <2>4, <3>1, <4>1
    <3>2. CASE f # d
      <4>1. local'[f] = local[f] /\ pulled'[f] = pulled[f]
        BY <1>5, <3>2
      <4> QED BY <4>1 DEF IInv, Holds
    <3> QED BY <3>1, <3>2
  <2>6. recorded' = recorded /\ unsent' = unsent
    BY <1>4
  <2> QED BY <2>5, <2>6 DEF Holds
<1> QED BY <1>6, <1>7, <1>8, <1>9, <1>10 DEF IInv

\* Time passes, or nothing does.
LEMMA QuietStep ==
  ASSUME IInv, UNCHANGED <<enabled, recorded, tx, deviceVars>>, now' \in Nat
  PROVE  IInv'
<1>1. RestSame /\ Rates' = Rates
  BY DEF RestSame, deviceVars, Rates
<1>2. (HasCurrent /\ OneRecorded /\ OneUnsent /\ Holds /\ AuditTellsCurrent)'
  BY <1>1, RestKept DEF IInv
<1>3. TypeOK'
  BY <1>1 DEF IInv, TypeOK, RestSame
<1>4. OneRequest'
  BY <1>1 DEF IInv, OneRequest, RestSame
<1>5. ASSUME NEW p \in Actors
      PROVE  Working(p)' /\ UnderPair(p)'
  <2>1. Working(p) /\ UnderPair(p)
    BY DEF IInv, Transactions
  <2> QED BY <1>1, <2>1 DEF Working, UnderPair, Checked, RestSame
<1>6. Transactions'
  BY <1>5 DEF IInv, Transactions
<1> QED BY <1>2, <1>3, <1>4, <1>6 DEF IInv

LEMMA NextStep == IInv /\ [Next]_vars => IInv'
<1> SUFFICES ASSUME IInv, [Next]_vars PROVE IInv'
  OBVIOUS
<1>1. CASE UNCHANGED vars
  BY <1>1, QuietStep DEF vars, IInv, TypeOK
<1>2. ASSUME NEW u \in Users, Request(u)
      PROVE  IInv'
  BY <1>2, SetStep, SaveStep DEF Request
<1>3. ASSUME NEW p \in Actors, Step(p)
      PROVE  IInv'
  <2>1. CASE RefuseSet(p)
    BY <2>1, EndStep DEF RefuseSet, Ended
  <2> QED BY <1>3, <2>1, PublishChangedStep, TakePairStep, PublishRateStep, CommitStep DEF Step
<1>4. ASSUME NEW p \in Actors, Fail(p)
      PROVE  IInv'
  BY <1>4, EndStep DEF Fail
<1>5. ASSUME NEW d \in Devices, DeviceStep(d)
      PROVE  IInv'
  BY <1>5, OperationStep, MakeStep, PullStep DEF DeviceStep
<1>6. CASE Resolve
  BY <1>6, EndStep DEF Resolve
<1>7. CASE Tick
  <2>1. now' \in Nat
    BY <1>7 DEF Tick, IInv, TypeOK
  <2> QED BY <1>7, <2>1, QuietStep DEF Tick
<1> QED BY <1>1, <1>2, <1>3, <1>4, <1>5, <1>6, <1>7 DEF Next

-----------------------------------------------------------------------------
(* Theorems. *)

\* The whole invariant holds in every state.
THEOREM Invariant == Spec => []IInv
<1> QED BY InitInv, NextStep, PTL DEF Spec

\* The values of the state are of their types; what a transaction takes as the current rate is a
\* recorded one, or none.
THEOREM Types == Spec => []TypeOK
<1>1. IInv => TypeOK
  BY DEF IInv
<1> QED BY Invariant, <1>1, PTL

\* Every rate was recorded by the rate in force, and says truly whether it took its place, however
\* requests and operations run together, fail or deadlock.
THEOREM AuditIsTrue == Spec => []AuditTellsCurrent
<1>1. IInv => AuditTellsCurrent
  BY DEF IInv
<1> QED BY Invariant, <1>1, PTL

\* A device that has sent and pulled everything has the server's rates, and so its current one.
THEOREM DevicesHaveRates == Spec => []DevicesAgree
<1>1. IInv => DevicesAgree
  <2> SUFFICES ASSUME IInv, NEW d \in Devices, unsent[d] = <<>>, pulled[d] = Len(recorded)
               PROVE  CurrentOf(local[d]) = CurrentOf(Rates)
    BY DEF DevicesAgree
  <2>1. \A y : y \in Rates <=> \E i \in 1..Len(recorded) : y = recorded[i].rate
    BY RatesAre DEF IInv
  <2>2. Len(recorded) \in Nat /\ DOMAIN unsent[d] = {}
    BY DEF IInv, TypeOK
  <2>3. (pulled[d] + 1)..Len(recorded) = {}
    BY <2>2
  <2>4. \A x \in local[d] : x \in Rates
    BY <2>1, <2>2, <2>3 DEF IInv, Holds
  <2>5. \A x \in Rates : x \in local[d]
    BY <2>1 DEF IInv, Holds
  <2>6. local[d] = Rates
    BY <2>4, <2>5
  <2> QED BY <2>6
<1> QED BY Invariant, <1>1, PTL

-----------------------------------------------------------------------------
(* Locks. *)

\* A transaction holds the pair from its check to its end; the counter, when it may commit and
\* before that only if it saves the settings, published something and has a first rate to record.
LocksOf(p) ==
  /\ tx[p].pair => tx[p].step \in {"paired", "ready"}
  /\ tx[p].step = "paired" => tx[p].pair
  /\ tx[p].counter =>
       \/ tx[p].step = "ready"
       \/ tx[p].step \in {"started", "paired"} /\ tx[p].by = "save" /\ tx[p].rate # NoRate
  /\ tx[p].step = "publishing" => tx[p].by = "save"

\* One transaction at a time holds the counter, and one the pair.
Locks ==
  /\ \A p \in Actors : LocksOf(p)
  /\ \A p, q \in Actors : tx[p].counter /\ tx[q].counter => p = q
  /\ \A p, q \in Actors : tx[p].pair /\ tx[q].pair => p = q

\* What a transaction under way needs for its next step, whichever that is.
MayStep(p) ==
  \/ tx[p].step \in {"publishing", "paired"} /\ CounterFree(p)
  \/ tx[p].step = "started" /\ PairFree(p)
  \/ tx[p].step = "ready"

\* Transactions under way: one of them may go on, or the database has a deadlock to end.
SomeRequestMoves ==
  (\E p \in Actors : tx[p].step # "none") =>
    (\E p \in Actors : MayStep(p)) \/ (\E p, q \in Actors : Deadlocked(p, q))

\* In a deadlock the one that waits for the pair is a save that published before it came to its
\* first rate, and no request is in a second deadlock: when either of the two ends, none is left.
DeadlocksOfFirstRates ==
  \A p, q \in Actors :
    Deadlocked(p, q) =>
      /\ tx[p].by = "save" /\ tx[p].rate # NoRate
      /\ p # q /\ ~tx[q].counter
      /\ \A r, s \in Actors : Deadlocked(r, s) => r = p /\ s = q

LEMMA InitLocks == Init => Locks
<1> SUFFICES ASSUME Init PROVE Locks
  OBVIOUS
<1>1. \A p \in Actors : tx[p] = NoTransaction
  BY DEF Init
<1> QED BY <1>1, NoTransactionIs DEF Locks, LocksOf

\* One transaction moves, and takes the counter only when it is free.
LEMMA OneLocks ==
  ASSUME Locks, NEW p \in Actors, OthersSame(p), LocksOf(p)',
         tx'[p].counter => \A q \in Actors \ {p} : ~tx[q].counter,
         tx'[p].pair => \A q \in Actors \ {p} : ~tx[q].pair
  PROVE  Locks'
<1>1. ASSUME NEW q \in Actors
      PROVE  LocksOf(q)'
  <2>1. CASE q = p
    BY <2>1
  <2>2. CASE q # p
    BY <2>2 DEF Locks, LocksOf, OthersSame
  <2> QED BY <2>1, <2>2
<1>2. \A q, r \in Actors : tx'[q].counter /\ tx'[r].counter => q = r
  BY DEF Locks, OthersSame
<1>3. \A q, r \in Actors : tx'[q].pair /\ tx'[r].pair => q = r
  BY DEF Locks, OthersSame
<1> QED BY <1>1, <1>2, <1>3 DEF Locks

\* A transaction begins without locks.
LEMMA BeginLocks ==
  ASSUME Locks, NEW p \in Actors, NEW t, Begin(p, t), tx \in [Actors -> Transaction \cup {NoTransaction}],
         t.step \in {"publishing", "started"}, t.step = "publishing" => t.by = "save",
         t.pair = FALSE, t.counter = FALSE
  PROVE  Locks'
<1>1. tx'[p] = t /\ OthersSame(p)
  BY DEF Begin, OthersSame
<1>2. LocksOf(p)'
  BY <1>1 DEF LocksOf
<1> QED BY <1>1, <1>2, OneLocks

\* The locks of a transaction end with it.
LEMMA EndLocks ==
  ASSUME Locks, NEW p \in Actors, Ended(p), tx \in [Actors -> Transaction \cup {NoTransaction}]
  PROVE  Locks'
<1>1. tx'[p] = NoTransaction /\ OthersSame(p)
  BY DEF Ended, OthersSame
<1>2. LocksOf(p)'
  BY <1>1, NoTransactionIs DEF LocksOf
<1> QED BY <1>1, <1>2, OneLocks, NoTransactionIs

\* Every step of a transaction leaves the locks in order.
LEMMA StepLocks ==
  ASSUME IInv, Locks, NEW p \in Actors, Step(p)
  PROVE  Locks'
<1>1. tx \in [Actors -> Transaction \cup {NoTransaction}] /\ LocksOf(p)
  BY DEF IInv, TypeOK, Locks
<1>2. CASE PublishChanged(p)
  <2>1. tx[p].step = "publishing" /\ CounterFree(p) /\ tx[p].by = "save" /\ ~tx[p].pair
    BY <1>1, <1>2 DEF PublishChanged, LocksOf
  <2>2. tx[p] \in Transaction
    BY <1>1, <2>1, NoTransactionIs
  <2>3. tx'[p] = [tx[p] EXCEPT !.counter = TRUE,
                                !.step = IF tx[p].rate = NoRate THEN "ready" ELSE "started"]
    BY <1>1, <1>2 DEF PublishChanged
  <2>4. /\ tx'[p].by = tx[p].by /\ tx'[p].rate = tx[p].rate /\ tx'[p].pair = tx[p].pair
        /\ tx[p].rate = NoRate => tx'[p].step = "ready"
        /\ tx[p].rate # NoRate => tx'[p].step = "started"
    BY <2>2, <2>3 DEF Transaction
  <2>5. LocksOf(p)'
    BY <2>1, <2>4 DEF LocksOf
  <2>6. OthersSame(p)
    BY <1>1, <1>2 DEF PublishChanged, OthersSame
  <2> QED BY <2>1, <2>4, <2>5, <2>6, OneLocks DEF CounterFree
<1>3. CASE TakePair(p)
  <2>1. tx[p].step = "started" /\ PairFree(p)
    BY <1>3 DEF TakePair
  <2>2. tx[p] \in Transaction
    BY <1>1, <2>1, NoTransactionIs
  <2>3. tx'[p] = [tx[p] EXCEPT !.pair = TRUE, !.step = "paired", !.before = CurrentOf(Rates)]
    BY <1>1, <1>3 DEF TakePair
  <2>4. /\ tx'[p].by = tx[p].by /\ tx'[p].rate = tx[p].rate /\ tx'[p].pair = TRUE
        /\ tx'[p].counter = tx[p].counter /\ tx'[p].step = "paired"
    BY <2>2, <2>3 DEF Transaction
  <2>5. LocksOf(p)'
    BY <1>1, <2>1, <2>4 DEF LocksOf
  <2>6. OthersSame(p)
    BY <1>1, <1>3 DEF TakePair, OthersSame
  <2> QED BY <2>1, <2>4, <2>5, <2>6, OneLocks DEF Locks, PairFree
<1>4. CASE RefuseSet(p)
  BY <1>1, <1>4, EndLocks DEF RefuseSet, Ended
<1>5. CASE PublishRate(p)
  <2>1. tx[p].step = "paired" /\ CounterFree(p)
    BY <1>5 DEF PublishRate
  <2>2. tx[p] \in Transaction
    BY <1>1, <2>1, NoTransactionIs
  <2>3. tx'[p] = [tx[p] EXCEPT !.counter = TRUE, !.step = "ready"]
    BY <1>1, <1>5 DEF PublishRate
  <2>4. LocksOf(p)' /\ tx'[p].pair = tx[p].pair
    BY <2>2, <2>3 DEF LocksOf, Transaction
  <2>5. OthersSame(p)
    BY <1>1, <1>5 DEF PublishRate, OthersSame
  <2>6. tx'[p].pair => \A q \in Actors \ {p} : ~tx[q].pair
    BY <2>4 DEF Locks
  <2> QED BY <2>1, <2>4, <2>5, <2>6, OneLocks DEF CounterFree
<1>6. CASE Commit(p)
  BY <1>1, <1>6, EndLocks DEF Commit
<1> QED BY <1>2, <1>3, <1>4, <1>5, <1>6 DEF Step

LEMMA NextLocks == IInv /\ Locks /\ [Next]_vars => Locks'
<1> SUFFICES ASSUME IInv, Locks, [Next]_vars PROVE Locks'
  OBVIOUS
<1>1. tx \in [Actors -> Transaction \cup {NoTransaction}]
  BY DEF IInv, TypeOK
<1>2. (tx' = tx) => Locks'
  BY DEF Locks, LocksOf
<1>3. ASSUME NEW u \in Users, Request(u)
      PROVE  Locks'
  <2>1. u \in Actors
    BY DEF Actors
  <2>2. ASSUME NEW id, NEW v, NEW c, StartSet(u, id, v, c)
        PROVE  Locks'
    <3> DEFINE t == [NoTransaction EXCEPT !.by = "set", !.step = "started", !.confirmed = c,
                       !.rate = [id |-> id, value |-> v, at |-> now]]
    <3>1. Begin(u, t)
      BY <2>2 DEF StartSet
    <3>2. t.step = "started" /\ t.pair = FALSE /\ t.counter = FALSE
      BY DEF NoTransaction
    <3> HIDE DEF t
    <3> QED BY <1>1, <2>1, <3>1, <3>2, BeginLocks
  <2>3. ASSUME NEW enable, NEW first, NEW other, StartSave(u, enable, first, other)
        PROVE  Locks'
    <3> DEFINE t == [NoTransaction EXCEPT !.by = "save", !.rate = first, !.enable = enable,
                       !.step = IF enable # enabled \/ other THEN "publishing" ELSE "started"]
    <3>1. Begin(u, t)
      BY <2>3 DEF StartSave
    <3>2. t.step \in {"publishing", "started"} /\ t.by = "save" /\ t.pair = FALSE /\ t.counter = FALSE
      BY DEF NoTransaction
    <3> HIDE DEF t
    <3> QED BY <1>1, <2>1, <3>1, <3>2, BeginLocks
  <2> QED BY <1>3, <2>2, <2>3 DEF Request
<1>4. ASSUME NEW p \in Actors, Step(p) \/ Fail(p)
      PROVE  Locks'
  BY <1>1, <1>4, StepLocks, EndLocks DEF Fail
<1>5. ASSUME NEW d \in Devices, DeviceStep(d)
      PROVE  Locks'
  <2>1. d \in Actors
    BY DEF Actors
  <2>2. CASE StartOperation(d)
    <3> DEFINE o == Head(unsent[d])
               t == [NoTransaction EXCEPT !.by = "operation", !.step = "started",
                       !.confirmed = o.confirmed,
                       !.rate = [o.rate EXCEPT !.at = ReceivedTime(o.rate)]]
    <3>1. Begin(d, t)
      BY <2>2 DEF StartOperation
    <3>2. t.step = "started" /\ t.pair = FALSE /\ t.counter = FALSE
      BY DEF NoTransaction
    <3> HIDE DEF t
    <3> QED BY <1>1, <2>1, <3>1, <3>2, BeginLocks
  <2>3. CASE tx' = tx
    BY <1>2, <2>3
  <2> QED BY <1>5, <2>2, <2>3 DEF DeviceStep, SetOnDevice, Pull
<1>6. CASE Resolve
  BY <1>1, <1>6, EndLocks DEF Resolve
<1>7. CASE Tick
  BY <1>2, <1>7 DEF Tick, deviceVars
<1>8. CASE UNCHANGED vars
  BY <1>2, <1>8 DEF vars
<1> QED BY <1>3, <1>4, <1>5, <1>6, <1>7, <1>8 DEF Next

\* The locks are in order in every state.
THEOREM LocksHeld == Spec => []Locks
<1> QED BY Invariant, InitLocks, NextLocks, PTL DEF Spec

\* Requests never wait for one another but in a deadlock that the database sees and ends: behind
\* the counter is one that may commit or waits for the pair, and behind the pair one that waits
\* for the counter (rates.ts, settings.ts: the two are locked in either order).  It is what
\* RequestsEnd rests on beside its fairness.
THEOREM NobodyIsStuck == Spec => []SomeRequestMoves
<1>1. IInv /\ Locks => SomeRequestMoves
  <2> SUFFICES ASSUME IInv, Locks, NEW p \in Actors, tx[p].step # "none",
                      \A q \in Actors : ~MayStep(q)
               PROVE  \E q, r \in Actors : Deadlocked(q, r)
    BY DEF SomeRequestMoves
  <2>1. \A q \in Actors : tx[q].step \in {"none", "publishing", "started", "paired"}
    <3>1. ASSUME NEW q \in Actors
          PROVE  tx[q].step \in {"none", "publishing", "started", "paired", "ready"}
      <4>1. tx[q] \in Transaction \cup {NoTransaction}
        BY DEF IInv, TypeOK
      <4> QED BY <4>1, NoTransactionIs DEF Transaction
    <3> QED BY <3>1 DEF MayStep
  <2>2. \A q \in Actors : LocksOf(q) /\ ~MayStep(q)
    BY DEF Locks
  <2>3. ASSUME NEW q \in Actors, tx[q].counter
        PROVE  \E r, s \in Actors : Deadlocked(r, s)
    <3>1. CounterFree(q)
      BY <2>3 DEF Locks, CounterFree
    <3>2. tx[q].step = "started" /\ ~PairFree(q)
      BY <2>1, <2>2, <2>3, <3>1 DEF LocksOf, MayStep
    <3>3. PICK s \in Actors : tx[s].pair
      BY <3>2 DEF PairFree
    <3>4. tx[s].step = "paired"
      BY <2>1, <2>2, <3>3 DEF LocksOf
    <3> QED BY <2>3, <3>2, <3>3, <3>4 DEF Deadlocked
  <2>4. ASSUME NEW q \in Actors, tx[q].step \in {"publishing", "paired"}
        PROVE  \E r \in Actors : tx[r].counter
    BY <2>2, <2>4 DEF MayStep, CounterFree
  <2>5. CASE tx[p].step = "started"
    <3>1. PICK s \in Actors : tx[s].pair
      BY <2>2, <2>5 DEF MayStep, PairFree
    <3>2. tx[s].step = "paired"
      BY <2>1, <2>2, <3>1 DEF LocksOf
    <3> QED BY <2>3, <2>4, <3>2
  <2> QED BY <2>1, <2>3, <2>4, <2>5
<1> QED BY Invariant, LocksHeld, <1>1, PTL

\* The database ends a request for a deadlock only when a save publishes something, say a changed
\* threshold or the currency it enables, before it records a first rate (settings.ts takes the
\* counter and then the pair, rates.ts the pair and then the counter), and ending one of the two
\* is enough.  Rates set online, rates of devices, and first rates with nothing published before
\* them take the pair first and never close a circle among themselves.
THEOREM OnlyFirstRatesDeadlock == Spec => []DeadlocksOfFirstRates
<1>1. Locks => DeadlocksOfFirstRates
  BY DEF Locks, LocksOf, DeadlocksOfFirstRates, Deadlocked
<1> QED BY LocksHeld, <1>1, PTL
=============================================================================
