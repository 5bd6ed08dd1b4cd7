---------------------------- MODULE CurrencyRates ----------------------------
(***************************************************************************)
(* The exchange rates of one pair of a tenant: its base and one foreign    *)
(* currency (core/currency/src/server/rates.ts, settings.ts,               *)
(* rate-operation.ts), and the rates as devices hold them                  *)
(* (core/currency/src/client/local-currency.ts).                           *)
(*                                                                         *)
(* A rate is set online, comes as the first one when a currency is         *)
(* enabled, or is set on a device and pushed later.  Each is recorded in a *)
(* READ COMMITTED transaction, audited and published.  That an operation   *)
(* of a device is recorded once is PushSync's, that a device pulls         *)
(* everything published is ChangeLog's.                                    *)
(***************************************************************************)
EXTENDS Integers, Sequences, FiniteSets

CONSTANTS
  Users,      \* who set rates and save settings online: one request of each at a time
  Devices,    \* the devices of the tenant
  Values,     \* rates
  Threshold,  \* rateChangeThresholdPercent
  MaxRates,   \* bound: rates ever made, on a device or recorded
  MaxTime     \* bound: the server's clock

ASSUME CurrencyRatesAssumption ==
  /\ Users \cap Devices = {}
  /\ Values \subseteq Nat \ {0}
  /\ Threshold \in 1..100
  /\ MaxRates \in Nat /\ MaxTime \in Nat

VARIABLES
  now,       \* the server's clock
  enabled,   \* tenant_currencies: whether the foreign currency is enabled
  recorded,  \* exchange_rates, their audit entries and their changes, in the order they committed
  tx,        \* the running transaction of each user's request and each device's operation
  local,     \* currency_exchange_rates of each device
  offers,    \* currency_tenant_currencies of each device: whether the currency is enabled
  unsent,    \* the currency.rate.set operations in each device's outbox
  pulled     \* how many of the recorded rates each device has pulled

deviceVars == <<local, offers, unsent, pulled>>
vars == <<now, enabled, recorded, tx, deviceVars>>

Actors == Users \cup Devices

\* A rate; a device's own has the device's time until the server's row replaces it.
Rate == [id : 1..MaxRates, value : Values, at : Nat]
NoRate == [id |-> 0, value |-> 0, at |-> 0]

\* A rate, what it was recorded by, and what its audit entry says: the confirmation, the current
\* rate before it, and whether it became current.
Entry ==
  [rate : Rate, by : {"set", "save", "operation"}, confirmed : BOOLEAN,
   before : Rate \cup {NoRate}, current : BOOLEAN]

\* A transaction.  enable is what a save makes of the currency; it records a first rate unless
\* its rate is NoRate.
Transaction ==
  [by : {"set", "save", "operation"}, step : {"publishing", "started", "paired", "ready"},
   rate : Rate \cup {NoRate}, confirmed : BOOLEAN, enable : BOOLEAN, before : Rate \cup {NoRate},
   pair : BOOLEAN, counter : BOOLEAN]

NoTransaction ==
  [by |-> "none", step |-> "none", rate |-> NoRate, confirmed |-> FALSE, enable |-> FALSE,
   before |-> NoRate, pair |-> FALSE, counter |-> FALSE]

-----------------------------------------------------------------------------
(* Rates. *)

\* isLater: a later effectiveAt, ties by the greater id.
IsLater(x, y) == x.at > y.at \/ (x.at = y.at /\ x.id > y.id)

\* The current one of the rates S.
CurrentOf(S) == IF S = {} THEN NoRate ELSE CHOOSE x \in S : \A y \in S \ {x} : IsLater(x, y)

Rates == {recorded[i].rate : i \in DOMAIN recorded}

Distance(a, b) == IF a > b THEN a - b ELSE b - a

\* rateChangeNeedsConfirmation.
NeedsConfirmation(current, value) ==
  current # NoRate /\ Distance(current.value, value) * 100 > current.value * Threshold

\* The ids taken so far: an id is made where the rate is, so it orders with the others anyhow.
Taken ==
  {x.id : x \in Rates} \cup {tx[p].rate.id : p \in Actors} \cup
    UNION {{x.id : x \in local[d]} : d \in Devices}

-----------------------------------------------------------------------------
(* Requests begin. *)

Begin(p, t) ==
  /\ tx[p] = NoTransaction
  /\ tx' = [tx EXCEPT ![p] = t]

\* setExchangeRate: the currency is enabled by a statement of its own, before any lock.
StartSet(u, id, value, confirmed) ==
  /\ enabled
  /\ Begin(u, [NoTransaction EXCEPT !.by = "set", !.step = "started", !.confirmed = confirmed,
                 !.rate = [id |-> id, value |-> value, at |-> now]])
  /\ UNCHANGED <<now, enabled, recorded, deviceVars>>

\* The row of the settings is free: one save at a time.
SettingsFree == \A p \in Actors : tx[p].by # "save"

\* saveCurrencySettings up to its writes, with the first rate first or none.  Before that rate it
\* publishes the currency when it enables or disables it, and anything other it saves: the change
\* currency, the threshold, a rounding step, another currency or the first rate of one.
StartSave(u, enable, first, other) ==
  /\ SettingsFree
  /\ first # NoRate => enable /\ Rates = {}
  /\ enable /\ ~enabled => Rates # {} \/ first # NoRate
  /\ enable # enabled \/ first # NoRate \/ other
  /\ Begin(u, [NoTransaction EXCEPT !.by = "save", !.rate = first, !.enable = enable,
                 !.step = IF enable # enabled \/ other THEN "publishing" ELSE "started"])
  /\ UNCHANGED <<now, enabled, recorded, deviceVars>>

Earlier(a, b) == IF a < b THEN a ELSE b

\* A device's time later than the receipt is taken as the receipt.
ReceivedTime(rate) == Earlier(rate.at, now)

\* setRateV1, for the device's oldest operation.
StartOperation(d) ==
  /\ unsent[d] # <<>>
  /\ LET o == Head(unsent[d])
     IN  Begin(d, [NoTransaction EXCEPT !.by = "operation", !.step = "started",
                     !.confirmed = o.confirmed,
                     !.rate = [o.rate EXCEPT !.at = ReceivedTime(o.rate)]])
  /\ UNCHANGED <<now, enabled, recorded, deviceVars>>

-----------------------------------------------------------------------------
(* Their transactions. *)

CounterFree(p) == \A q \in Actors \ {p} : ~tx[q].counter

\* A save publishes what it changed: from here on it holds the counter of changes.
PublishChanged(u) ==
  /\ tx[u].step = "publishing"
  /\ CounterFree(u)
  /\ tx' = [tx EXCEPT ![u].counter = TRUE,
                      ![u].step = IF tx[u].rate = NoRate THEN "ready" ELSE "started"]
  /\ UNCHANGED <<now, enabled, recorded, deviceVars>>

\* A bug: the pair is not locked.
NeverHeld(p) == TRUE

\* lockPair: the advisory lock of the pair is nobody else's.
PairFree(p) == \A q \in Actors \ {p} : ~tx[q].pair

\* Only the route refuses.
Unconfirmed(p) ==
  /\ tx[p].by = "set"
  /\ ~tx[p].confirmed
  /\ NeedsConfirmation(CurrentOf(Rates), tx[p].rate.value)

\* The pair is locked; the current rate is read under it, and the new one checked and inserted.
TakePair(p) ==
  /\ tx[p].step = "started"
  /\ PairFree(p)
  /\ ~Unconfirmed(p)
  /\ tx' = [tx EXCEPT ![p].pair = TRUE, ![p].step = "paired", ![p].before = CurrentOf(Rates)]
  /\ UNCHANGED <<now, enabled, recorded, deviceVars>>

\* confirmationRequired: nothing is recorded.
RefuseSet(p) ==
  /\ tx[p].step = "started"
  /\ PairFree(p)
  /\ Unconfirmed(p)
  /\ tx' = [tx EXCEPT ![p] = NoTransaction]
  /\ UNCHANGED <<now, enabled, recorded, deviceVars>>

\* recordChange of the rate.
PublishRate(p) ==
  /\ tx[p].step = "paired"
  /\ CounterFree(p)
  /\ tx' = [tx EXCEPT ![p].counter = TRUE, ![p].step = "ready"]
  /\ UNCHANGED <<now, enabled, recorded, deviceVars>>

\* A bug: the lock of the pair is the session's, and outlives the transaction.
KeepsPair(p) == tx' = [tx EXCEPT ![p] = [NoTransaction EXCEPT !.pair = tx[p].pair]]

\* The locks are the transaction's: they end with it.
Ended(p) == tx' = [tx EXCEPT ![p] = NoTransaction]

EntryOf(t) ==
  [rate |-> t.rate, by |-> t.by, confirmed |-> t.confirmed, before |-> t.before,
   current |-> t.before = NoRate \/ IsLater(t.rate, t.before)]

\* A bug: a save records the first rate it was not given, too.
AppendedAlways(t) == Append(recorded, EntryOf(t))

\* The rates recorded, with the one of t if it has one.
Appended(t) == IF t.rate = NoRate THEN recorded ELSE Append(recorded, EntryOf(t))

Commit(p) ==
  /\ tx[p].step = "ready"
  /\ recorded' = Appended(tx[p])
  /\ enabled' = IF tx[p].by = "save" THEN tx[p].enable ELSE enabled
  /\ unsent' = IF tx[p].by = "operation" THEN [unsent EXCEPT ![p] = Tail(@)] ELSE unsent
  /\ Ended(p)
  /\ UNCHANGED <<now, local, offers, pulled>>

\* p holds the counter of changes and waits for the pair, which q holds while it waits for the
\* counter.
Deadlocked(p, q) ==
  /\ tx[p].step = "started" /\ tx[p].counter
  /\ tx[q].step = "paired" /\ tx[q].pair

\* The database ends one of two transactions that wait for each other.
Resolve ==
  /\ \E p, q \in Actors : Deadlocked(p, q) /\ (Ended(p) \/ Ended(q))
  /\ UNCHANGED <<now, enabled, recorded, deviceVars>>

\* A request fails, or the server stops: all of it rolls back; an operation is pushed again.
Fail(p) ==
  /\ tx[p].step # "none"
  /\ Ended(p)
  /\ UNCHANGED <<now, enabled, recorded, deviceVars>>

-----------------------------------------------------------------------------
(* The devices. *)

\* setDeviceExchangeRate: at is the device's guarded time, which may be behind the server's or
\* ahead of it.
SetOnDevice(d, id, value, at, confirmed) ==
  /\ offers[d]
  /\ NeedsConfirmation(CurrentOf(local[d]), value) => confirmed
  /\ LET rate == [id |-> id, value |-> value, at |-> at]
     IN  /\ local' = [local EXCEPT ![d] = @ \cup {rate}]
         /\ unsent' = [unsent EXCEPT ![d] = Append(@, [rate |-> rate, confirmed |-> confirmed])]
  /\ UNCHANGED <<now, enabled, recorded, tx, offers, pulled>>

\* A bug: the device keeps what it has.
KeepOwn(S, P) == S \cup {x \in P : \A y \in S : y.id # x.id}

\* exchangeRatePullApplier over the rates P: each replaces the device's own by id.
Applied(S, P) == {x \in S : \A y \in P : y.id # x.id} \cup P

\* The device pulls what was published since.
Pull(d) ==
  /\ pulled[d] < Len(recorded) \/ offers[d] # enabled
  /\ local' = [local EXCEPT ![d] =
                 Applied(@, {recorded[i].rate : i \in (pulled[d] + 1)..Len(recorded)})]
  /\ offers' = [offers EXCEPT ![d] = enabled]
  /\ pulled' = [pulled EXCEPT ![d] = Len(recorded)]
  /\ UNCHANGED <<now, enabled, recorded, tx, unsent>>

Tick ==
  /\ now < MaxTime
  /\ now' = now + 1
  /\ UNCHANGED <<enabled, recorded, tx, deviceVars>>

-----------------------------------------------------------------------------
\* A tenant starts without rates; its second currency is enabled, the third is not.
Init ==
  /\ now = 0
  /\ enabled \in BOOLEAN
  /\ recorded = <<>>
  /\ tx = [p \in Actors |-> NoTransaction]
  /\ local = [d \in Devices |-> {}]
  /\ offers = [d \in Devices |-> enabled]
  /\ unsent = [d \in Devices |-> <<>>]
  /\ pulled = [d \in Devices |-> 0]

FirstRates == {[id |-> id, value |-> v, at |-> now] : id \in (1..MaxRates) \ Taken, v \in Values}

Request(u) ==
  \/ \E id \in (1..MaxRates) \ Taken, v \in Values, c \in BOOLEAN : StartSet(u, id, v, c)
  \/ \E enable, other \in BOOLEAN, first \in FirstRates \cup {NoRate} :
       StartSave(u, enable, first, other)

Step(p) == PublishChanged(p) \/ TakePair(p) \/ RefuseSet(p) \/ PublishRate(p) \/ Commit(p)

DeviceStep(d) ==
  \/ StartOperation(d)
  \/ \E id \in (1..MaxRates) \ Taken, v \in Values, at \in 0..(MaxTime + 1), c \in BOOLEAN :
       SetOnDevice(d, id, v, at, c)
  \/ Pull(d)

Next ==
  \/ \E u \in Users : Request(u)
  \/ \E p \in Actors : Step(p) \/ Fail(p)
  \/ \E d \in Devices : DeviceStep(d)
  \/ Resolve
  \/ Tick

Spec == Init /\ [][Next]_vars

\* Locks are granted in the order they are asked for, and the database notices a deadlock.
Fairness == WF_vars(Resolve) /\ \A p \in Actors : SF_vars(Step(p))

FairSpec == Spec /\ Fairness

-----------------------------------------------------------------------------
(* Properties. *)

TypeOK ==
  /\ now \in Nat
  /\ enabled \in BOOLEAN
  /\ recorded \in Seq(Entry)
  /\ tx \in [Actors -> Transaction \cup {NoTransaction}]
  /\ local \in [Devices -> SUBSET Rate]
  /\ offers \in [Devices -> BOOLEAN]
  /\ unsent \in [Devices -> Seq([rate : Rate, confirmed : BOOLEAN])]
  /\ pulled \in [Devices -> Nat]

RatesBefore(i) == {recorded[j].rate : j \in 1..(i - 1)}

\* A rate is recorded by the rate in force, whichever requests ran at once: its audit entry names
\* the one that was current and says truly whether it took its place (rates.ts: "the current rate
\* a new one is checked and audited against cannot change underneath it"), and nobody moved the
\* rate online past the threshold from that one without confirming it (core-money rule 11).
AuditTellsCurrent ==
  \A i \in DOMAIN recorded :
    LET current == CurrentOf(RatesBefore(i))
    IN  /\ recorded[i].before = current
        /\ recorded[i].current <=> CurrentOf(RatesBefore(i + 1)) = recorded[i].rate
        /\ recorded[i].by = "set" /\ NeedsConfirmation(current, recorded[i].rate.value)
             => recorded[i].confirmed

\* Devices agree with the server on the current rate once they have pushed and pulled everything,
\* also about the rates they set themselves (local-currency.ts: "so devices agree once synced").
DevicesAgree ==
  \A d \in Devices :
    unsent[d] = <<>> /\ pulled[d] = Len(recorded) => CurrentOf(local[d]) = CurrentOf(Rates)

\* A request that began ends, although requests wait for one another in both orders.
RequestsEnd == \A p \in Actors : tx[p].step # "none" ~> tx[p].step = "none"

\* What a comment says and the code does not do (settings.ts: "a first rate is only for an
\* enabled foreign currency without one"): the rates are read before the pair is locked.
FirstRateIsFirst ==
  \A i \in DOMAIN recorded : recorded[i].by = "save" => recorded[i].before = NoRate
=============================================================================
