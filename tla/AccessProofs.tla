---------------------------- MODULE AccessProofs ----------------------------
(***************************************************************************)
(* Safety of the two protocols of core/access that decide who is let in:   *)
(* signing in to a store (SignIn), for every set of users, devices and     *)
(* attempts at a time and every limit and window, and the registration of  *)
(* its devices (DeviceRegistration), for every set of machines,            *)
(* registrations, codes and prefixes, every limit and however much a       *)
(* device sells.                                                           *)
(***************************************************************************)
EXTENDS SignIn, DeviceRegistration, TLAPS, FiniteSetTheorems, WellFoundedInduction

-----------------------------------------------------------------------------
(* Signing in.  The list of an address' failures. *)

\* Every set of numbers has a least one.
LEMMA LeastExists ==
  ASSUME NEW T \in SUBSET Nat, T # {}
  PROVE  \E x \in T : \A y \in T : x <= y
<1> DEFINE R == OpToRel(<, Nat)
<1>1. IsWellFoundedOn(R, Nat)
  BY NatLessThanWellFounded
<1>2. \E x \in T : \A y \in T : ~ (<<y, x>> \in R)
  <2> HIDE DEF R
  <2> QED BY <1>1, WFMin
<1>3. PICK x \in T : \A y \in T : ~ (<<y, x>> \in R)
  BY <1>2
<1>4. \A y \in T : <<y, x>> \in Nat \X Nat
  OBVIOUS
<1>5. \A y \in T : ~(y < x)
  BY <1>3, <1>4 DEF OpToRel
<1>6. \A y \in T : x <= y
  <2> HIDE DEF R
  <2> QED BY <1>5
<1> QED BY <1>6, Zenon

\* What PruneList keeps, given what it keeps of the rest.
Kept(times, t, I, rest) ==
  IF times[Max(I)] + 2 * Window > t THEN Append(rest, times[Max(I)]) ELSE rest

\* g gives what PruneList keeps of the elements at each set of indices.
Keeps(times, t, g) ==
  g = [I \in SUBSET DOMAIN times |->
         IF I = {} THEN <<>> ELSE Kept(times, t, I, g[I \ {Max(I)}])]

LEMMA PruneIs ==
  ASSUME NEW times, NEW t
  PROVE  PruneList(times, t) = (CHOOSE g : Keeps(times, t, g))[DOMAIN times]
BY DEF PruneList, FoldLeft, MapThenFoldSet, Keeps, Kept

\* A set of indices has a last one.
LEMMA LastExists ==
  ASSUME NEW n \in Nat, NEW I \in SUBSET (1..n), I # {}
  PROVE  /\ Max(I) \in I
         /\ \A i \in I : i <= Max(I)
<1> DEFINE T == {n - i : i \in I}
<1>1. T \in SUBSET Nat /\ T # {}
  <2>1. \A i \in I : n - i \in Nat
    OBVIOUS
  <2> QED BY <2>1
<1>2. PICK x \in T : \A y \in T : x <= y
  <2> HIDE DEF T
  <2> QED BY <1>1, LeastExists
<1>3. PICK i \in I : x = n - i
  OBVIOUS
<1>4. \A j \in I : i >= j
  <2> SUFFICES ASSUME NEW j \in I PROVE i >= j
    OBVIOUS
  <2>1. x <= n - j
    BY <1>2
  <2>2. i \in 1..n /\ j \in 1..n
    OBVIOUS
  <2> QED BY <1>3, <2>1, <2>2
<1>5. \E k \in I : \A j \in I : k >= j
  BY <1>4
<1> QED BY <1>5 DEF Max

\* There is such a function.
LEMMA KeepsDefined ==
  ASSUME NEW times, DOMAIN times \in {1..n : n \in Nat}, NEW t
  PROVE  \E g : Keeps(times, t, g)
<1> DEFINE Step(g, I) == IF I = {} THEN <<>> ELSE Kept(times, t, I, g[I \ {Max(I)}])
           Good(n) == \E g : \A I \in SUBSET (1..n) : g[I] = Step(g, I)
           Bad == {n \in Nat : ~Good(n)}
<1>1. Good(0)
  <2> DEFINE g == [I \in SUBSET (1..0) |-> <<>>]
  <2>1. \A I \in SUBSET (1..0) : I = {} /\ g[I] = <<>>
    OBVIOUS
  <2>2. \A I \in SUBSET (1..0) : g[I] = Step(g, I)
    BY <2>1
  <2> HIDE DEF g, Step
  <2> QED BY <2>2
<1>2. ASSUME NEW n \in Nat, Good(n)
      PROVE  Good(n + 1)
  <2>1. PICK g : \A I \in SUBSET (1..n) : g[I] = Step(g, I)
    BY <1>2
  <2> DEFINE D == 1..(n + 1)
             h == [I \in SUBSET D |-> IF I \in SUBSET (1..n) THEN g[I] ELSE Step(g, I)]
  <2>2. ASSUME NEW I \in SUBSET D, I # {}
        PROVE  I \ {Max(I)} \in SUBSET (1..n) /\ I \ {Max(I)} \in SUBSET D
    <3>1. Max(I) \in I /\ \A i \in I : i <= Max(I)
      BY <2>2, n + 1 \in Nat, LastExists
    <3>2. \A i \in I : i \in 1..(n + 1)
      OBVIOUS
    <3> HIDE DEF D
    <3>3. ASSUME NEW i \in I, i # Max(I) PROVE i \in 1..n
      BY <3>1, <3>2, <3>3
    <3> QED BY <3>3
  <2>3. ASSUME NEW I \in SUBSET D PROVE h[I] = Step(h, I)
    <3>1. h[I] = Step(g, I)
      <4> HIDE DEF Step
      <4> QED BY <2>1
    <3>2. I # {} => h[I \ {Max(I)}] = g[I \ {Max(I)}]
      <4> HIDE DEF Step, D
      <4> QED BY <2>2
    <3> QED BY <3>1, <3>2
  <2> HIDE DEF h, Step
  <2> QED BY <2>3
<1>3. Bad = {}
  <2> SUFFICES ASSUME Bad # {} PROVE FALSE
    OBVIOUS
  <2> HIDE DEF Good
  <2>1. PICK n \in Bad : \A m \in Bad : n <= m
    <3>1. Bad \in SUBSET Nat
      OBVIOUS
    <3> HIDE DEF Bad
    <3> QED BY <3>1, LeastExists
  <2>2. n # 0
    BY <1>1
  <2>3. n - 1 \in Nat /\ n - 1 \notin Bad
    BY <2>1, <2>2
  <2>4. Good((n - 1) + 1)
    BY <2>3, <1>2
  <2>5. (n - 1) + 1 = n
    BY <2>3
  <2> QED BY <2>1, <2>4, <2>5
<1>4. PICK n \in Nat : DOMAIN times = 1..n
  OBVIOUS
<1>5. PICK g : \A I \in SUBSET (1..n) : g[I] = Step(g, I)
  <2> HIDE DEF Step
  <2>1. Good(n)
    <3> HIDE DEF Good
    <3> QED BY <1>3
  <2> QED BY <2>1
<1> DEFINE h == [I \in SUBSET (1..n) |-> Step(g, I)]
<1>6. \A I \in SUBSET (1..n) : I \ {Max(I)} \in SUBSET (1..n)
  OBVIOUS
<1>7. \A I \in SUBSET (1..n) : h[I] = g[I]
  <2> HIDE DEF Step
  <2> QED BY <1>5
<1>8. \A I \in SUBSET (1..n) : Step(g, I) = Step(h, I)
  <2> HIDE DEF h
  <2> QED BY <1>6, <1>7
<1>9. h = [I \in SUBSET (1..n) |-> Step(h, I)]
  <2> HIDE DEF Step
  <2> QED BY <1>8
<1>10. Keeps(times, t, h)
  <2> HIDE DEF h
  <2> QED BY <1>4, <1>9 DEF Keeps
<1> HIDE DEF h
<1> QED BY <1>10

\* What is kept of failures are failures.
LEMMA PruneListIs ==
  ASSUME NEW times \in Seq(Times), NEW t \in Nat
  PROVE  PruneList(times, t) \in Seq(Times)
<1> DEFINE g == CHOOSE g : Keeps(times, t, g)
           Bad == {n \in Nat : n <= Len(times) /\ \E I \in SUBSET (1..n) : g[I] \notin Seq(Times)}
<1>1. /\ DOMAIN times = 1..Len(times) /\ Len(times) \in Nat
      /\ \A i \in 1..Len(times) : times[i] \in Times
  OBVIOUS
<1>2. Keeps(times, t, g)
  <2>1. DOMAIN times \in {1..n : n \in Nat}
    BY <1>1
  <2> QED BY <2>1, KeepsDefined
<1> HIDE DEF g
<1>3. \A I \in SUBSET (1..Len(times)) :
        g[I] = IF I = {} THEN <<>> ELSE Kept(times, t, I, g[I \ {Max(I)}])
  BY <1>1, <1>2 DEF Keeps
<1>4. ASSUME Bad # {} PROVE FALSE
  <2>1. PICK n \in Bad : \A m \in Bad : n <= m
    <3>1. Bad \in SUBSET Nat
      OBVIOUS
    <3> HIDE DEF Bad
    <3> QED BY <3>1, <1>4, LeastExists
  <2>2. PICK I \in SUBSET (1..n) : g[I] \notin Seq(Times)
    OBVIOUS
  <2>3. n \in Nat /\ n <= Len(times) /\ I \in SUBSET (1..Len(times))
    BY <1>1
  <2>4. I # {}
    <3>1. <<>> \in Seq(Times)
      OBVIOUS
    <3> HIDE DEF Bad
    <3> QED BY <1>3, <2>2, <2>3, <3>1
  <2>5. Max(I) \in I /\ \A i \in I : i <= Max(I)
    BY <2>3, <2>4, LastExists
  <2>6. n - 1 \in Nat /\ n - 1 <= Len(times) /\ n - 1 \notin Bad
    <3>1. Max(I) \in 1..n
      BY <2>5
    <3>2. n - 1 \in Nat /\ n - 1 <= Len(times) /\ ~(n <= n - 1)
      BY <2>3, <3>1, <1>1
    <3> HIDE DEF Bad
    <3> QED BY <2>1, <3>2
  <2>7. I \ {Max(I)} \in SUBSET (1..(n - 1))
    <3>1. \A i \in I : i \in 1..n
      OBVIOUS
    <3> HIDE DEF Bad
    <3>2. ASSUME NEW i \in I, i # Max(I) PROVE i \in 1..(n - 1)
      <4>1. i \in 1..n /\ Max(I) \in 1..n /\ i <= Max(I)
        BY <2>5, <3>1
      <4> QED BY <2>3, <4>1, <3>2
    <3> QED BY <3>2
  <2>8. g[I \ {Max(I)}] \in Seq(Times)
    BY <2>6, <2>7
  <2>9. times[Max(I)] \in Times
    BY <1>1, <2>3, <2>5
  <2>10. Append(g[I \ {Max(I)}], times[Max(I)]) \in Seq(Times)
    BY <2>8, <2>9
  <2>11. g[I] \in Seq(Times)
    BY <1>3, <2>3, <2>4, <2>8, <2>10 DEF Kept
  <2> QED BY <2>2, <2>11
<1>5. g[DOMAIN times] \in Seq(Times)
  BY <1>1, <1>4
<1> QED BY <1>5, PruneIs DEF g

\* The list of the address stays a list of times, within the limit.
LEMMA CountFailureIs ==
  ASSUME NEW times \in Seq(Times), NEW t \in Times
  PROVE  /\ CountFailure(times, t) \in Seq(Times)
         /\ Len(CountFailure(times, t)) <= AddressLimit
<1> DEFINE kept == PruneList(Append(times, t), t)
<1>1. kept \in Seq(Times)
  <2>1. Append(times, t) \in Seq(Times) /\ t \in Nat
    BY SignInAssumption DEF Times
  <2> QED BY <2>1, PruneListIs
<1> HIDE DEF kept
<1>2. CASE Len(kept) <= AddressLimit
  BY <1>1, <1>2 DEF CountFailure, kept
<1>3. CASE ~(Len(kept) <= AddressLimit)
  BY <1>1, <1>3, SignInAssumption DEF CountFailure, kept
<1> QED BY <1>2, <1>3

-----------------------------------------------------------------------------
(* The inductive invariant. *)

InFlight == {a \in Attempts : Counted(a)}

SignInTypes ==
  /\ now \in Times
  /\ active \subseteq Users /\ revoked \subseteq DeviceIds
  /\ failures \in [Keys -> SUBSET (Times \X Nat)] /\ prompt \in [Keys -> SUBSET (Times \X Nat)]
  /\ address \in [failures : Seq(Times), pending : Nat]
  /\ Len(address.failures) <= AddressLimit
  /\ attempt \in [Attempts -> Attempt \cup {NoAttempt}]
  /\ \A a \in Attempts : attempt[a] # NoAttempt /\ attempt[a].kind = "pin" =>
       attempt[a].device \in DeviceIds
  /\ sessions \subseteq Session
  /\ resetCodes \in [Users -> SUBSET ResetCode]
  /\ endings \in [Users -> 0..MaxEndings]

\* The address is charged with the attempts in flight.
Charged == IsFiniteSet(InFlight) /\ address.pending = Cardinality(InFlight)

\* Nothing failed, and no attempt began, in the future.
Past ==
  /\ \A k \in Keys : \A r \in failures[k] \cup prompt[k] : r[1] <= now
  /\ \A a \in Attempts : attempt[a] # NoAttempt => attempt[a].at <= now

\* Every failure is a row of its own: the rows of one time are numbered.
Numbered ==
  \A k \in Keys :
    /\ IsFiniteSet(failures[k])
    /\ \A r \in failures[k] : r[2] \in 1..Cardinality({s \in failures[k] : s[1] = r[1]})

\* No failure of the present window was pruned.
Covered ==
  \A k \in Keys :
    /\ IsFiniteSet(prompt[k])
    /\ \A r \in prompt[k] : r[1] + Window > now => r \in failures[k]

\* One attempt of a key at most is being checked; while time has not passed, it may fail.
OneCheck ==
  \A a, b \in Attempts :
    /\ attempt[a].step = "checking" /\ attempt[b].step = "checking" /\ Key(a) = Key(b) => a = b

Judged ==
  \A a \in Attempts : attempt[a].step = "checking" /\ attempt[a].at = now =>
    Cardinality(Within(prompt[Key(a)], now)) < LoginLimit

\* The sessions there are were opened after their user's sessions last ended, or stayed then.
Current == \A s \in sessions : s.endings = endings[s.user]

KeysInv == Numbered /\ Covered /\ OneCheck /\ Judged /\ FailuresWithinLimit

SignInInv == SignInTypes /\ Charged /\ Past /\ KeysInv /\ Current

-----------------------------------------------------------------------------
(* What an attempt does. *)

\* An attempt is none, or names a user and has a key.
LEMMA AttemptIs ==
  ASSUME SignInTypes, NEW a \in Attempts
  PROVE  /\ attempt[a] = NoAttempt <=> attempt[a].step = "none"
         /\ attempt[a] # NoAttempt =>
              /\ attempt[a] \in Attempt
              /\ attempt[a].user \in Users /\ attempt[a].at \in Times
              /\ Key(a) \in Keys
<1>1. attempt[a] \in Attempt \cup {NoAttempt}
  BY DEF SignInTypes
<1>2. NoAttempt.step = "none" /\ \A t \in Attempt : t.step # "none"
  BY DEF NoAttempt, Attempt
<1>3. ASSUME attempt[a] \in Attempt PROVE Key(a) \in Keys
  <2>1. attempt[a].user \in Users /\ (attempt[a].kind = "pin" => attempt[a].device \in DeviceIds)
    BY <1>2, <1>3 DEF Attempt, SignInTypes
  <2> QED BY <2>1 DEF Key, Keys
<1>4. attempt[a] \in Attempt => attempt[a].user \in Users /\ attempt[a].at \in Times
  BY DEF Attempt
<1> QED BY <1>1, <1>2, <1>3, <1>4

Charge(step) == IF step \in {"counted", "read", "checking"} THEN 1 ELSE 0

\* Attempt a becomes t, and the address is charged as t says.
Moves(a, t) ==
  /\ attempt' = [attempt EXCEPT ![a] = t]
  /\ t \in Attempt \cup {NoAttempt}
  /\ t # NoAttempt => t.at <= now /\ (t.kind = "pin" => t.device \in DeviceIds)
  /\ now' = now
  /\ address' \in [failures : Seq(Times), pending : Int]
  /\ Len(address'.failures) <= AddressLimit
  /\ address'.pending = (address.pending - Charge(attempt[a].step)) + Charge(t.step)

\* Whatever an attempt does, the address stays charged with the attempts in flight.
LEMMA ChargedMoves ==
  ASSUME SignInTypes, Charged, NEW a \in Attempts, NEW t, Moves(a, t)
  PROVE  Charged' /\ address' \in [failures : Seq(Times), pending : Nat]
<1>1. \A b \in Attempts : Counted(b) <=> attempt[b].step \in {"counted", "read", "checking"}
  BY DEF Counted
<1>2. \A b \in Attempts : Counted(b)' <=> IF b = a THEN t.step \in {"counted", "read", "checking"}
                                          ELSE Counted(b)
  BY DEF Counted, Moves, SignInTypes
<1>3. IsFiniteSet(InFlight \ {a}) /\ a \notin InFlight \ {a}
  BY FS_RemoveElement DEF Charged
<1>4. Cardinality(InFlight \ {a}) \in Nat
  BY <1>3, FS_CardinalityType
<1>5. Cardinality(InFlight) = Cardinality(InFlight \ {a}) + Charge(attempt[a].step)
  <2>1. CASE a \in InFlight
    <3>1. Cardinality(InFlight \ {a}) = Cardinality(InFlight) - 1 /\ Cardinality(InFlight) \in Nat
      BY <2>1, FS_RemoveElement, FS_CardinalityType DEF Charged
    <3>2. Charge(attempt[a].step) = 1
      BY <2>1, <1>1 DEF InFlight, Charge
    <3> QED BY <3>1, <3>2
  <2>2. CASE a \notin InFlight
    <3>1. InFlight \ {a} = InFlight
      BY <2>2
    <3>2. Charge(attempt[a].step) = 0
      BY <2>2, <1>1 DEF InFlight, Charge
    <3> QED BY <3>1, <3>2, <1>4
  <2> QED BY <2>1, <2>2
<1>6. /\ IsFiniteSet(InFlight')
      /\ Cardinality(InFlight') = Cardinality(InFlight \ {a}) + Charge(t.step)
  <2>1. CASE t.step \in {"counted", "read", "checking"}
    <3>1. InFlight' = (InFlight \ {a}) \cup {a}
      BY <1>2, <2>1 DEF InFlight
    <3>2. Charge(t.step) = 1
      BY <2>1 DEF Charge
    <3> QED BY <1>3, <3>1, <3>2, FS_AddElement
  <2>2. CASE t.step \notin {"counted", "read", "checking"}
    <3>1. InFlight' = InFlight \ {a}
      BY <1>2, <2>2 DEF InFlight
    <3>2. Charge(t.step) = 0
      BY <2>2 DEF Charge
    <3> QED BY <1>3, <1>4, <3>1, <3>2
  <2> QED BY <2>1, <2>2
<1>7. Charge(t.step) \in Nat /\ Charge(attempt[a].step) \in Nat
  BY DEF Charge
<1>8. address'.pending = Cardinality(InFlight')
  BY <1>4, <1>5, <1>6, <1>7 DEF Moves, Charged
<1>9. Charged'
  BY <1>6, <1>8 DEF Charged
<1>10. address'.pending \in Nat
  BY <1>6, <1>8, FS_CardinalityType
<1> QED BY <1>9, <1>10 DEF Moves

\* Attempts have no other effect on attempts and the address.
LEMMA TypesMove ==
  ASSUME SignInTypes, NEW a \in Attempts, NEW t, Moves(a, t)
  PROVE  /\ now' \in Times
         /\ attempt' \in [Attempts -> Attempt \cup {NoAttempt}]
         /\ \A b \in Attempts : attempt'[b] # NoAttempt /\ attempt'[b].kind = "pin" =>
              attempt'[b].device \in DeviceIds
<1>1. now' \in Times /\ attempt' \in [Attempts -> Attempt \cup {NoAttempt}]
  BY DEF Moves, SignInTypes
<1>2. ASSUME NEW b \in Attempts, attempt'[b] # NoAttempt, attempt'[b].kind = "pin"
      PROVE  attempt'[b].device \in DeviceIds
  BY <1>2 DEF Moves, SignInTypes
<1> QED BY <1>1, <1>2

\* An attempt that ends is charged no longer, failed or not.
LEMMA ReleasedIs ==
  ASSUME SignInTypes
  PROVE  /\ Released \in [failures : Seq(Times), pending : Int]
         /\ Released.pending = address.pending - 1
         /\ Released.failures = address.failures /\ Len(Released.failures) <= AddressLimit
<1>1. /\ address \in [failures : Seq(Times), pending : Nat]
      /\ Len(address.failures) <= AddressLimit
  BY DEF SignInTypes
<1>2. /\ Released.pending = address.pending - 1 /\ Released.failures = address.failures
      /\ Released \in [failures : Seq(Times), pending : Int]
  BY <1>1 DEF Released
<1> QED BY <1>1, <1>2

LEMMA FailedAtIs ==
  ASSUME SignInTypes, NEW t \in Times
  PROVE  /\ FailedAt(t) \in [failures : Seq(Times), pending : Int]
         /\ FailedAt(t).pending = address.pending - 1
         /\ Len(FailedAt(t).failures) <= AddressLimit
<1>1. /\ Released \in [failures : Seq(Times), pending : Int]
      /\ Released.pending = address.pending - 1 /\ Released.failures = address.failures
  BY ReleasedIs
<1>2. address.failures \in Seq(Times)
  BY DEF SignInTypes
<1>3. /\ CountFailure(address.failures, t) \in Seq(Times)
      /\ Len(CountFailure(address.failures, t)) <= AddressLimit
  BY <1>2, CountFailureIs
<1> QED BY <1>1, <1>3 DEF FailedAt

LEMMA EndedMoves ==
  ASSUME SignInTypes, NEW a \in Attempts, Ended(a), now' = now,
         address' \in [failures : Seq(Times), pending : Int],
         Len(address'.failures) <= AddressLimit,
         address'.pending = address.pending - Charge(attempt[a].step)
  PROVE  Moves(a, NoAttempt)
<1>1. Charge(NoAttempt.step) = 0 /\ Charge(attempt[a].step) \in Nat
  BY DEF Charge, NoAttempt
<1> QED BY <1>1 DEF Moves, Ended, SignInTypes

\* An attempt that starts.
LEMMA StartMoves ==
  ASSUME SignInTypes, Past, NEW a \in Attempts, NEW u \in Users, Try(a, u)
  PROVE  \E t : Moves(a, t) /\ t.step # "checking" /\ t.step # "none"
<1>1. now \in Nat /\ now \in Times
  BY SignInAssumption DEF SignInTypes, Times
<1>2. ASSUME NEW kind \in {"password", "reset", "pin"}, NEW d \in DeviceIds \cup {NoDevice},
             kind = "pin" => d \in DeviceIds,
             NEW step \in {"asked", "counted"}, Start(a, kind, u, d, step),
             address' = [address EXCEPT !.pending = @ + Charge(step)]
      PROVE  \E t : Moves(a, t) /\ t.step # "checking" /\ t.step # "none"
  <2> DEFINE t == [kind |-> kind, step |-> step, user |-> u, device |-> d,
                   at |-> now, active |-> FALSE]
  <2>1. t \in Attempt
    BY <1>1, <1>2 DEF Attempt
  <2>2. attempt' = [attempt EXCEPT ![a] = t] /\ now' = now
    BY <1>2 DEF Start
  <2>3. Charge(attempt[a].step) = 0 /\ Charge(step) \in Nat
    BY <1>2 DEF Start, NoAttempt, Charge
  <2>4. /\ address' \in [failures : Seq(Times), pending : Int]
        /\ address'.failures = address.failures
        /\ address'.pending = (address.pending - Charge(attempt[a].step)) + Charge(step)
    <3>1. address \in [failures : Seq(Times), pending : Nat]
      BY DEF SignInTypes
    <3> QED BY <1>2, <2>3, <3>1
  <2>5. t.step = step /\ t.at = now /\ t.kind = kind /\ t.device = d
    OBVIOUS
  <2> HIDE DEF t
  <2>6. Moves(a, t)
    BY <1>1, <1>2, <2>1, <2>2, <2>4, <2>5 DEF Moves, SignInTypes
  <2> QED BY <1>2, <2>5, <2>6
<1>3. Charge("asked") = 0 /\ Charge("counted") = 1
  BY DEF Charge
<1>4. address = [address EXCEPT !.pending = @ + 0]
  BY DEF SignInTypes
<1>5. CASE AskAnywhere(a, u)
  <2>1. PICK kind \in {"password", "reset"} : Start(a, kind, u, NoDevice, "counted")
    BY <1>5 DEF AskAnywhere
  <2>2. address' = [address EXCEPT !.pending = @ + Charge("counted")]
    BY <1>3, <1>5 DEF AskAnywhere
  <2> QED BY <1>2, <2>1, <2>2
<1>6. ASSUME NEW d \in DeviceIds, AskOnDevice(a, u, d)
      PROVE  \E t : Moves(a, t) /\ t.step # "checking" /\ t.step # "none"
  <2>1. /\ Start(a, "password", u, d, "asked")
        /\ address' = [address EXCEPT !.pending = @ + Charge("asked")]
    BY <1>3, <1>4, <1>6 DEF AskOnDevice
  <2> QED BY <1>2, <2>1
<1>7. ASSUME NEW d \in DeviceIds, AskPin(a, u, d)
      PROVE  \E t : Moves(a, t) /\ t.step # "checking" /\ t.step # "none"
  <2>1. /\ Start(a, "pin", u, d, "asked")
        /\ address' = [address EXCEPT !.pending = @ + Charge("asked")]
    BY <1>3, <1>4, <1>7 DEF AskPin
  <2> QED BY <1>2, <2>1
<1> QED BY <1>5, <1>6, <1>7 DEF Try

\* An attempt that goes on is what it was but for how far it is, when it began and whether it
\* read the user as active.
GoesOn(a, step, at, read) ==
  /\ now' = now
  /\ attempt' = [attempt EXCEPT ![a].step = step, ![a].at = at, ![a].active = read]
  /\ address' = [address EXCEPT !.pending = (@ - Charge(attempt[a].step)) + Charge(step)]

LEMMA GoesOnMoves ==
  ASSUME SignInTypes, NEW a \in Attempts, attempt[a] # NoAttempt,
         NEW step \in {"counted", "read", "checking", "verified"}, NEW at \in Times, at <= now,
         NEW read \in BOOLEAN, GoesOn(a, step, at, read)
  PROVE  \E t : Moves(a, t) /\ t.step = step /\ t.at = at /\ t.kind = attempt[a].kind
                /\ t.user = attempt[a].user /\ t.device = attempt[a].device
<1> DEFINE t == [attempt[a] EXCEPT !.step = step, !.at = at, !.active = read]
<1>1. attempt[a] \in Attempt
  BY AttemptIs
<1>2. /\ t \in Attempt /\ t.step = step /\ t.at = at /\ t.kind = attempt[a].kind
      /\ t.user = attempt[a].user /\ t.device = attempt[a].device
  BY <1>1 DEF Attempt
<1>3. attempt' = [attempt EXCEPT ![a] = t] /\ now' = now
  BY DEF SignInTypes, GoesOn
<1>4. t.kind = "pin" => t.device \in DeviceIds
  BY <1>2 DEF SignInTypes
<1>5. Charge(attempt[a].step) \in Int /\ Charge(step) \in Int
  BY DEF Charge
<1>6. /\ address' \in [failures : Seq(Times), pending : Int]
      /\ address'.failures = address.failures
      /\ address'.pending = (address.pending - Charge(attempt[a].step)) + Charge(step)
  <2>1. address \in [failures : Seq(Times), pending : Nat]
    BY DEF SignInTypes
  <2> QED BY <1>5, <2>1 DEF GoesOn
<1> HIDE DEF t
<1>7. Moves(a, t)
  BY <1>2, <1>3, <1>4, <1>6 DEF Moves, SignInTypes
<1> QED BY <1>2, <1>7

\* Every step of an attempt is a move; one that leaves it being checked is Enter.
LEMMA GoMoves ==
  ASSUME SignInTypes, Past, NEW a \in Attempts, Go(a)
  PROVE  \E t : /\ Moves(a, t)
                /\ t.step = "checking" =>
                     /\ Enter(a)
                     /\ t.at = attempt[a].at /\ t.kind = attempt[a].kind
                     /\ t.user = attempt[a].user /\ t.device = attempt[a].device
<1> DEFINE P(t) == t.step = "checking" =>
                     /\ Enter(a)
                     /\ t.at = attempt[a].at /\ t.kind = attempt[a].kind
                     /\ t.user = attempt[a].user /\ t.device = attempt[a].device
<1>1. now \in Nat /\ now \in Times
  BY SignInAssumption DEF SignInTypes, Times
<1>2. /\ address \in [failures : Seq(Times), pending : Nat] /\ Len(address.failures) <= AddressLimit
      /\ attempt \in [Attempts -> Attempt \cup {NoAttempt}]
  BY DEF SignInTypes
<1>3. /\ attempt[a].step # "none" => attempt[a] # NoAttempt
      /\ attempt[a] # NoAttempt =>
           /\ attempt[a] \in Attempt /\ attempt[a].at \in Times /\ attempt[a].at <= now
           /\ attempt[a].active \in BOOLEAN
  BY AttemptIs DEF Past, Attempt
<1>4. /\ Charge("asked") = 0 /\ Charge("counted") = 1 /\ Charge("read") = 1
      /\ Charge("checking") = 1 /\ Charge("verified") = 0 /\ Charge("none") = 0
  BY DEF Charge
<1>5. /\ address = [address EXCEPT !.pending = (@ - 1) + 1]
      /\ [address EXCEPT !.pending = @ + 1] = [address EXCEPT !.pending = (@ - 0) + 1]
      /\ Released = [address EXCEPT !.pending = (@ - 1) + 0]
  BY <1>2 DEF Released
<1>6. NoAttempt.step = "none"
  BY DEF NoAttempt
<1>7. ASSUME Begin(a) PROVE \E t : Moves(a, t) /\ P(t)
  <2>1. attempt[a].step = "asked" /\ now' = now
    BY <1>7 DEF Begin
  <2>2. attempt' = [attempt EXCEPT ![a].step = "counted", ![a].at = now,
                                   ![a].active = attempt[a].active]
    <3>1. attempt' = [attempt EXCEPT ![a].step = "counted", ![a].at = now]
      BY <1>7 DEF Begin
    <3> QED BY <3>1, <2>1, <1>2, <1>3 DEF Attempt
  <2>3. address' = [address EXCEPT !.pending = (@ - Charge(attempt[a].step)) + Charge("counted")]
    BY <1>4, <1>5, <1>7, <2>1 DEF Begin
  <2>4. GoesOn(a, "counted", now, attempt[a].active)
    BY <2>1, <2>2, <2>3 DEF GoesOn
  <2>5. \E t : Moves(a, t) /\ t.step = "counted"
    BY <1>1, <1>3, <2>1, <2>4, GoesOnMoves
  <2> QED BY <2>5
<1>8. ASSUME ReadUser(a) PROVE \E t : Moves(a, t) /\ P(t)
  <2> DEFINE read == attempt[a].user \in active
  <2>1. attempt[a].step = "counted" /\ now' = now
    BY <1>8 DEF ReadUser
  <2>2. attempt' = [attempt EXCEPT ![a].step = "read", ![a].at = attempt[a].at,
                                   ![a].active = read]
    <3>1. attempt' = [attempt EXCEPT ![a].step = "read", ![a].active = attempt[a].user \in active]
      BY <1>8 DEF ReadUser
    <3> QED BY <3>1, <2>1, <1>2, <1>3 DEF Attempt
  <2>3. address' = [address EXCEPT !.pending = (@ - Charge(attempt[a].step)) + Charge("read")]
    BY <1>4, <1>5, <1>8, <2>1 DEF ReadUser
  <2>4. GoesOn(a, "read", attempt[a].at, read)
    BY <2>1, <2>2, <2>3 DEF GoesOn
  <2>5. /\ attempt[a] # NoAttempt /\ attempt[a].at \in Times /\ attempt[a].at <= now
        /\ read \in BOOLEAN
    BY <1>3, <2>1
  <2> HIDE DEF read
  <2>6. \E t : Moves(a, t) /\ t.step = "read"
    BY <2>4, <2>5, GoesOnMoves
  <2> QED BY <2>6
<1>9. ASSUME Enter(a) PROVE \E t : Moves(a, t) /\ P(t)
  <2> DEFINE read == IF attempt[a].kind = "pin" THEN attempt[a].active
                     ELSE attempt[a].user \in active
  <2>1. attempt[a].step \in {"read", "counted"} /\ now' = now
    BY <1>9 DEF Enter
  <2>2. attempt' = [attempt EXCEPT ![a].step = "checking", ![a].at = attempt[a].at,
                                   ![a].active = read]
    <3>1. attempt' = [attempt EXCEPT ![a].step = "checking",
                        ![a].active =
                          IF attempt[a].kind = "pin" THEN @ ELSE attempt[a].user \in active]
      BY <1>9 DEF Enter
    <3> QED BY <3>1, <2>1, <1>2, <1>3 DEF Attempt
  <2>3. address' = [address EXCEPT !.pending = (@ - Charge(attempt[a].step)) + Charge("checking")]
    BY <1>4, <1>5, <1>9, <2>1 DEF Enter
  <2>4. read \in BOOLEAN
    <3>1. attempt[a].active \in BOOLEAN
      BY <1>3, <2>1
    <3>2. (attempt[a].user \in active) \in BOOLEAN
      OBVIOUS
    <3> QED BY <3>1, <3>2, Zenon
  <2> HIDE DEF read
  <2>5. GoesOn(a, "checking", attempt[a].at, read)
    BY <2>1, <2>2, <2>3 DEF GoesOn
  <2>6. attempt[a] # NoAttempt /\ attempt[a].at \in Times /\ attempt[a].at <= now
    BY <1>3, <2>1
  <2>7. \E t : Moves(a, t) /\ t.at = attempt[a].at /\ t.kind = attempt[a].kind
               /\ t.user = attempt[a].user /\ t.device = attempt[a].device
    BY <2>4, <2>5, <2>6, GoesOnMoves
  <2> QED BY <1>9, <2>7
<1>10. ASSUME Verify(a) PROVE \E t : Moves(a, t) /\ P(t)
  <2>1. attempt[a].step = "checking" /\ now' = now
    BY <1>10 DEF Verify
  <2>2. attempt' = [attempt EXCEPT ![a].step = "verified", ![a].at = attempt[a].at,
                                   ![a].active = attempt[a].active]
    <3>1. attempt' = [attempt EXCEPT ![a].step = "verified"]
      BY <1>10 DEF Verify
    <3> QED BY <3>1, <2>1, <1>2, <1>3 DEF Attempt
  <2>3. address' = [address EXCEPT !.pending = (@ - Charge(attempt[a].step)) + Charge("verified")]
    BY <1>4, <1>5, <1>10, <2>1 DEF Verify
  <2>4. GoesOn(a, "verified", attempt[a].at, attempt[a].active)
    BY <2>1, <2>2, <2>3 DEF GoesOn
  <2>5. /\ attempt[a] # NoAttempt /\ attempt[a].at \in Times /\ attempt[a].at <= now
        /\ attempt[a].active \in BOOLEAN
    BY <1>3, <2>1
  <2>6. \E t : Moves(a, t) /\ t.step = "verified"
    BY <2>4, <2>5, GoesOnMoves
  <2> QED BY <2>6
<1>11. ASSUME Fail(a) \/ WrongCode(a) PROVE Moves(a, NoAttempt)
  <2>1. attempt[a].step \in {"checking", "counted"} /\ now' = now /\ Ended(a)
        /\ address' = FailedAt(attempt[a].at)
    BY <1>11 DEF Fail, WrongCode
  <2>2. Charge(attempt[a].step) = 1 /\ attempt[a].at \in Times
    BY <1>3, <1>4, <2>1
  <2> QED BY <2>1, <2>2, FailedAtIs, EndedMoves
<1>12. ASSUME UseCode(a) PROVE Moves(a, NoAttempt)
  <2>1. attempt[a].step = "counted" /\ now' = now /\ Ended(a) /\ address' = Released
    BY <1>12 DEF UseCode
  <2> QED BY <1>4, <2>1, ReleasedIs, EndedMoves
<1>13. ASSUME Open(a) PROVE Moves(a, NoAttempt)
  <2>1. attempt[a].step = "verified" /\ now' = now /\ Ended(a) /\ address' = address
    BY <1>13 DEF Open
  <2> QED BY <1>2, <1>4, <2>1, EndedMoves
<1>14. ASSUME Drop(a) PROVE Moves(a, NoAttempt)
  <2>1. now' = now /\ Ended(a) /\ address' = IF Counted(a) THEN Released ELSE address
    BY <1>14 DEF Drop
  <2>2. Charge(attempt[a].step) = IF Counted(a) THEN 1 ELSE 0
    BY DEF Charge, Counted
  <2> QED BY <1>2, <2>1, <2>2, ReleasedIs, EndedMoves
<1>15. P(NoAttempt)
  BY <1>6
<1> HIDE DEF P
<1>16. \E t : Moves(a, t) /\ P(t)
  BY <1>7, <1>8, <1>9, <1>10, <1>11, <1>12, <1>13, <1>14, <1>15 DEF Go
<1> QED BY <1>16 DEF P

-----------------------------------------------------------------------------
(* Failures. *)

Rows == Times \X Nat

\* Every failure adds a row, and the rows of one time stay numbered.
LEMMA AddRowIs ==
  ASSUME NEW rows \in SUBSET Rows, IsFiniteSet(rows), NEW t \in Times
  PROVE  LET n == Cardinality({s \in rows : s[1] = t})
         IN  /\ n \in Nat /\ AddRow(rows, t) = rows \cup {<<t, n + 1>>}
             /\ AddRow(rows, t) \in SUBSET Rows /\ IsFiniteSet(AddRow(rows, t))
             /\ (\A r \in rows : r[2] \in 1..Cardinality({s \in rows : s[1] = r[1]})) =>
                  /\ <<t, n + 1>> \notin rows
                  /\ \A r \in AddRow(rows, t) :
                       r[2] \in 1..Cardinality({s \in AddRow(rows, t) : s[1] = r[1]})
<1> DEFINE S == {s \in rows : s[1] = t}
           n == Cardinality(S)
           added == AddRow(rows, t)
           row == <<t, n + 1>>
<1>1. IsFiniteSet(S) /\ n \in Nat
  BY FS_Subset, FS_CardinalityType
<1>2. added = rows \cup {row}
  BY DEF AddRow
<1>3. row \in Rows /\ row[1] = t /\ row[2] = n + 1
  BY <1>1 DEF Rows
<1>4. added \in SUBSET Rows /\ IsFiniteSet(added)
  <2>1. row \in Rows
    BY <1>3
  <2> HIDE DEF row, added
  <2> QED BY <1>2, <2>1, FS_AddElement
<1>5. ASSUME \A r \in rows : r[2] \in 1..Cardinality({s \in rows : s[1] = r[1]})
      PROVE  /\ row \notin rows
             /\ \A r \in added : r[2] \in 1..Cardinality({s \in added : s[1] = r[1]})
  <2>1. \A r \in S : r[2] \in 1..n
    BY <1>5
  <2>2. row \notin rows
    <3> SUFFICES ASSUME row \in rows PROVE FALSE
      OBVIOUS
    <3>1. row \in S
      BY <1>3
    <3> QED BY <2>1, <3>1, <1>1, <1>3
  <2>3. {s \in added : s[1] = t} = S \cup {row} /\ row \notin S
    <3> HIDE DEF row, added
    <3> QED BY <1>2, <1>3, <2>2
  <2>4. Cardinality({s \in added : s[1] = t}) = n + 1
    <3> HIDE DEF row, added, S
    <3>1. Cardinality(S \cup {row}) = Cardinality(S) + 1
      BY <1>1, <2>3, FS_AddElement
    <3> QED BY <2>3, <3>1 DEF S
  <2>5. ASSUME NEW r \in added, r[1] = t
        PROVE  r[2] \in 1..Cardinality({s \in added : s[1] = r[1]})
    <3>1. r[2] \in 1..(n + 1)
      <4>1. CASE r = row
        BY <4>1, <1>1, <1>3
      <4>2. CASE r \in S
        BY <4>2, <2>1, <1>1
      <4> QED BY <2>5, <4>1, <4>2, <1>2
    <3> QED BY <2>4, <2>5, <3>1
  <2>6. ASSUME NEW r \in added, r[1] # t
        PROVE  r[2] \in 1..Cardinality({s \in added : s[1] = r[1]})
    <3>1. r \in rows
      BY <2>6, <1>2, <1>3
    <3>2. {s \in added : s[1] = r[1]} = {s \in rows : s[1] = r[1]}
      BY <2>6, <1>2, <1>3
    <3> QED BY <1>5, <3>1, <3>2
  <2> QED BY <2>2, <2>5, <2>6
<1> HIDE DEF row, added
<1> QED BY <1>1, <1>2, <1>4, <1>5 DEF row, added

\* Pruning keeps the failures of two windows, and all those of one time or none.
LEMMA PruneKeeps ==
  ASSUME NEW rows \in SUBSET Rows, IsFiniteSet(rows), NEW t \in Times
  PROVE  /\ Prune(rows, t) \in SUBSET rows /\ IsFiniteSet(Prune(rows, t))
         /\ \A r \in rows : r[1] + 2 * Window > t => r \in Prune(rows, t)
         /\ (\A r \in rows : r[2] \in 1..Cardinality({s \in rows : s[1] = r[1]})) =>
              \A r \in Prune(rows, t) :
                r[2] \in 1..Cardinality({s \in Prune(rows, t) : s[1] = r[1]})
<1>1. Prune(rows, t) \in SUBSET rows /\ IsFiniteSet(Prune(rows, t))
  BY FS_Subset DEF Prune
<1>2. \A r \in rows : r[1] + 2 * Window > t => r \in Prune(rows, t)
  BY DEF Prune
<1>3. ASSUME NEW r \in Prune(rows, t)
      PROVE  {s \in Prune(rows, t) : s[1] = r[1]} = {s \in rows : s[1] = r[1]}
  BY DEF Prune
<1>4. \A r \in Prune(rows, t) : r \in rows
  BY <1>1
<1> QED BY <1>1, <1>2, <1>3, <1>4

\* What an attempt does to the rest of the state.
LEMMA TypesStep ==
  ASSUME SignInTypes, Charged, Numbered, NEW a \in Attempts, NEW t, Moves(a, t),
         NEW u \in Users, Go(a) \/ Try(a, u)
  PROVE  SignInTypes' /\ Charged'
<1>1. /\ active \subseteq Users /\ revoked \subseteq DeviceIds
      /\ failures \in [Keys -> SUBSET Rows] /\ prompt \in [Keys -> SUBSET Rows]
      /\ sessions \subseteq Session
      /\ resetCodes \in [Users -> SUBSET ResetCode]
      /\ endings \in [Users -> 0..MaxEndings]
  BY DEF SignInTypes, Rows
<1>2. attempt[a].step # "none" =>
        attempt[a].user \in Users /\ attempt[a].at \in Times /\ Key(a) \in Keys
  BY AttemptIs
<1> DEFINE Rest ==
             /\ active \subseteq Users /\ revoked \subseteq DeviceIds
             /\ failures \in [Keys -> SUBSET Rows] /\ prompt \in [Keys -> SUBSET Rows]
             /\ sessions \subseteq Session
             /\ resetCodes \in [Users -> SUBSET ResetCode]
             /\ endings \in [Users -> 0..MaxEndings]
<1>3. ASSUME UNCHANGED <<userVars, keyVars, sessions>> PROVE Rest'
  BY <1>1, <1>3 DEF userVars, keyVars
<1>4. Try(a, u) => UNCHANGED <<userVars, keyVars, sessions>>
  BY DEF Try, AskAnywhere, AskOnDevice, AskPin, Start
<1>5. Begin(a) \/ ReadUser(a) \/ Enter(a) \/ Drop(a) \/ WrongCode(a) =>
        UNCHANGED <<userVars, keyVars, sessions>>
  BY DEF Begin, ReadUser, Enter, Drop, WrongCode
<1>6. ASSUME Verify(a) PROVE Rest'
  BY <1>1, <1>6 DEF Verify, Clear, userVars
<1>7. ASSUME Fail(a) PROVE Rest'
  <2> DEFINE at == attempt[a].at
             added == AddRow(failures[Key(a)], at)
  <2>1. at \in Times /\ Key(a) \in Keys
    BY <1>2, <1>7 DEF Fail
  <2>2. added \in SUBSET Rows
    BY <2>1, <1>1, AddRowIs DEF Numbered
  <2>3. \A rows \in SUBSET Rows : Prune(rows, at) \in SUBSET Rows
    BY DEF Prune
  <2> HIDE DEF added, at
  <2>4. failures' = [k \in Keys |-> Prune(IF k = Key(a) THEN added ELSE failures[k], at)]
    BY <1>7 DEF Fail, added, at
  <2>5. failures' \in [Keys -> SUBSET Rows]
    BY <1>1, <2>2, <2>3, <2>4
  <2>6. prompt' \in [Keys -> SUBSET Rows]
    BY <1>1, <1>7, <2>1, <2>2 DEF Fail, added, at
  <2> QED BY <1>1, <1>7, <2>5, <2>6 DEF Fail, userVars
<1>8. ASSUME Open(a) PROVE Rest'
  <2> DEFINE s == [user |-> attempt[a].user, device |-> attempt[a].device,
                   endings |-> endings[attempt[a].user]]
  <2>1. s \in Session
    <3>1. attempt[a] \in Attempt
      BY <1>8, AttemptIs DEF Open
    <3> QED BY <1>1, <3>1 DEF Attempt, Session
  <2>2. sessions' = sessions \cup {s} /\ UNCHANGED <<userVars, keyVars>>
    BY <1>8 DEF Open
  <2> HIDE DEF s
  <2> QED BY <1>1, <2>1, <2>2 DEF userVars, keyVars
<1>9. ASSUME UseCode(a) PROVE Rest'
  <2>1. attempt[a].user \in Users
    BY <1>2, <1>9 DEF UseCode
  <2>2. endings' \in [Users -> 0..MaxEndings] /\ sessions' \subseteq sessions
    BY <1>1, <1>9, <2>1, SignInAssumption DEF UseCode, EndSessions
  <2>3. resetCodes' \in [Users -> SUBSET ResetCode]
    BY <1>1, <1>9, <2>1 DEF UseCode
  <2>4. failures' \in [Keys -> SUBSET Rows] /\ prompt' \in [Keys -> SUBSET Rows]
    BY <1>1, <1>9 DEF UseCode, Clear
  <2> QED BY <1>1, <1>9, <2>2, <2>3, <2>4 DEF UseCode
<1>10. Rest'
  BY <1>3, <1>4, <1>5, <1>6, <1>7, <1>8, <1>9 DEF Go
<1> HIDE DEF Rest
<1>11. Charged' /\ address' \in [failures : Seq(Times), pending : Nat]
       /\ Len(address'.failures) <= AddressLimit
  BY ChargedMoves DEF Moves
<1> QED BY <1>10, <1>11, TypesMove DEF SignInTypes, Rest, Rows

-----------------------------------------------------------------------------
(* Sessions. *)

\* Whoever manages users, sessions and devices leaves attempts and failures alone.
Manages ==
  \/ \E u \in Users : Manage(u)
  \/ \E s \in sessions : ChangePassword(s) \/ SignOut(s)
  \/ \E d \in DeviceIds : RevokeDevice(d)

LEMMA ManagesAlone == Manages => UNCHANGED <<now, keyVars, address, attempt>>
BY DEF Manages, Manage, Deactivate, Reactivate, SetPassword, IssueResetCode, ChangePassword,
       SignOut, RevokeDevice

\* Ending the sessions of a user, of all or of all but one of them.
LEMMA EndSessionsIs ==
  ASSUME SignInTypes, Current, NEW u \in Users, NEW kept \in SUBSET SessionsOf(u),
         EndSessions(u, kept)
  PROVE  /\ endings' \in [Users -> 0..MaxEndings] /\ sessions' \subseteq Session
         /\ Current'
         /\ kept = {} => sessions' \subseteq sessions
<1>1. endings \in [Users -> 0..MaxEndings] /\ sessions \subseteq Session
  BY DEF SignInTypes
<1>2. /\ endings[u] < MaxEndings /\ endings' = [endings EXCEPT ![u] = @ + 1]
      /\ sessions' = (sessions \ SessionsOf(u)) \cup {[s EXCEPT !.endings = @ + 1] : s \in kept}
  BY DEF EndSessions
<1>3. endings' \in [Users -> 0..MaxEndings] /\ endings'[u] = endings[u] + 1
      /\ \A v \in Users : v # u => endings'[v] = endings[v]
  BY <1>1, <1>2, SignInAssumption
<1>4. ASSUME NEW s \in sessions' PROVE s \in Session /\ s.endings = endings'[s.user]
  <2>1. CASE s \in sessions \ SessionsOf(u)
    <3>1. s \in Session /\ s.user # u /\ s.user \in Users
      BY <2>1, <1>1 DEF SessionsOf, Session
    <3> QED BY <2>1, <3>1, <1>3 DEF Current
  <2>2. ASSUME NEW k \in kept, s = [k EXCEPT !.endings = @ + 1]
        PROVE  s \in Session /\ s.endings = endings'[s.user]
    <3>1. k \in sessions /\ k.user = u /\ k \in Session /\ k.endings = endings[u]
      BY <1>1 DEF SessionsOf, Current
    <3>2. k.endings + 1 \in 0..MaxEndings
      BY <3>1, <1>1, <1>2, SignInAssumption
    <3>3. s \in Session /\ s.user = u /\ s.endings = k.endings + 1
      BY <2>2, <3>1, <3>2 DEF Session
    <3> QED BY <3>1, <3>3, <1>3
  <2> QED BY <2>1, <2>2, <1>2
<1>5. kept = {} => sessions' \subseteq sessions
  BY <1>2
<1> QED BY <1>3, <1>4, <1>5 DEF Current

\* What managing does to sessions.
LEMMA SessionsManage ==
  ASSUME SignInTypes, Current, Manages
  PROVE  /\ active' \subseteq Users /\ revoked' \subseteq DeviceIds
         /\ sessions' \subseteq Session
         /\ resetCodes' \in [Users -> SUBSET ResetCode]
         /\ endings' \in [Users -> 0..MaxEndings]
         /\ Current'
<1> DEFINE Rest == /\ active \subseteq Users /\ revoked \subseteq DeviceIds
                   /\ sessions \subseteq Session
                   /\ resetCodes \in [Users -> SUBSET ResetCode]
                   /\ endings \in [Users -> 0..MaxEndings]
                   /\ Current
<1>1. Rest /\ now \in Times
  BY DEF SignInTypes
<1>2. ASSUME NEW u \in Users, Deactivate(u) \/ SetPassword(u)
      PROVE  Rest'
  <2>1. EndSessions(u, {}) /\ UNCHANGED <<revoked, resetCodes>> /\ active' \subseteq active
    BY <1>2 DEF Deactivate, SetPassword
  <2> QED BY <1>1, <2>1, EndSessionsIs
<1>3. ASSUME NEW u \in Users, Reactivate(u)
      PROVE  Rest'
  BY <1>1, <1>3 DEF Reactivate, Current
<1>4. ASSUME NEW u \in Users, IssueResetCode(u)
      PROVE  Rest'
  <2>1. now + CodeLife \in 0..(MaxTime + CodeLife)
    BY <1>1, SignInAssumption DEF Times
  <2>2. PICK code \in {now + CodeLife} \X (1..MaxCodes) :
          resetCodes' = [resetCodes EXCEPT ![u] = @ \cup {code}]
    BY <1>4 DEF IssueResetCode
  <2>3. code \in ResetCode
    BY <2>1, <2>2 DEF ResetCode
  <2>4. resetCodes' \in [Users -> SUBSET ResetCode]
    BY <1>1, <2>2, <2>3
  <2> QED BY <1>1, <1>4, <2>4 DEF IssueResetCode, Current
<1>5. ASSUME NEW s \in sessions, ChangePassword(s)
      PROVE  Rest'
  <2>1. EndSessions(s.user, {s}) /\ UNCHANGED <<active, revoked, resetCodes>>
    BY <1>5 DEF ChangePassword
  <2>2. s.user \in Users /\ {s} \in SUBSET SessionsOf(s.user)
    BY <1>1 DEF Session, SessionsOf
  <2> QED BY <1>1, <2>1, <2>2, EndSessionsIs
<1>6. ASSUME NEW s \in sessions, SignOut(s)
      PROVE  Rest'
  BY <1>1, <1>6 DEF SignOut, userVars, Current
<1>7. ASSUME NEW d \in DeviceIds, RevokeDevice(d)
      PROVE  Rest'
  BY <1>1, <1>7 DEF RevokeDevice, Current
<1>8. Rest'
  BY <1>2, <1>3, <1>4, <1>5, <1>6, <1>7 DEF Manages, Manage
<1> QED BY <1>8

\* An attempt opens a session of the present, and a reset code ends the user's sessions.
LEMMA SessionsAttempt ==
  ASSUME SignInTypes, Current, NEW a \in Attempts, NEW u \in Users, Go(a) \/ Try(a, u)
  PROVE  Current'
<1>1. Try(a, u) => UNCHANGED <<sessions, endings>>
  BY DEF Try, AskAnywhere, AskOnDevice, AskPin, Start, userVars
<1>2. Begin(a) \/ ReadUser(a) \/ Enter(a) \/ Drop(a) \/ WrongCode(a) \/ Verify(a) \/ Fail(a) =>
        UNCHANGED <<sessions, endings>>
  BY DEF Begin, ReadUser, Enter, Drop, WrongCode, Verify, Fail, userVars
<1>3. ASSUME Open(a) PROVE Current'
  <2> DEFINE s == [user |-> attempt[a].user, device |-> attempt[a].device,
                   endings |-> endings[attempt[a].user]]
  <2>1. sessions' = sessions \cup {s} /\ endings' = endings
    BY <1>3 DEF Open, userVars
  <2>2. s.endings = endings[s.user]
    OBVIOUS
  <2> HIDE DEF s
  <2> QED BY <2>1, <2>2 DEF Current
<1>4. ASSUME UseCode(a) PROVE Current'
  <2>1. attempt[a].user \in Users /\ EndSessions(attempt[a].user, {})
    BY <1>4, AttemptIs DEF UseCode
  <2> QED BY <2>1, EndSessionsIs
<1>5. CASE UNCHANGED <<sessions, endings>>
  BY <1>5 DEF Current
<1> QED BY <1>1, <1>2, <1>3, <1>4, <1>5 DEF Go

-----------------------------------------------------------------------------
(* The limit of a key. *)

\* The failures within a window, as a set.
LEMMA WithinIs ==
  ASSUME NEW rows, NEW t
  PROVE  /\ Within(rows, t) \in SUBSET rows
         /\ \A r \in rows : r \in Within(rows, t) <=> r[1] <= t /\ r[1] + Window > t
         /\ IsFiniteSet(rows) =>
              IsFiniteSet(Within(rows, t)) /\ Cardinality(Within(rows, t)) \in Nat
<1>1. Within(rows, t) \in SUBSET rows
  BY DEF Within
<1>2. \A r \in rows : r \in Within(rows, t) <=> r[1] <= t /\ r[1] + Window > t
  BY DEF Within
<1>3. IsFiniteSet(rows) => IsFiniteSet(Within(rows, t)) /\ Cardinality(Within(rows, t)) \in Nat
  BY <1>1, FS_Subset, FS_CardinalityType
<1> QED BY <1>1, <1>2, <1>3

\* Of finitely many failures one is the newest.
LEMMA NewestExists ==
  ASSUME NEW rows \in SUBSET Rows, rows # {}, \A r \in rows : r[1] <= now, now \in Nat
  PROVE  \E newest \in rows : \A r \in rows : r[1] <= newest[1]
<1> DEFINE T == {now - r[1] : r \in rows}
<1>1. \A r \in rows : r[1] \in Nat /\ now - r[1] \in Nat
  BY SignInAssumption DEF Rows, Times
<1>2. T \in SUBSET Nat /\ T # {}
  BY <1>1
<1>3. PICK x \in T : \A y \in T : x <= y
  <2> HIDE DEF T
  <2> QED BY <1>2, LeastExists
<1>4. PICK newest \in rows : x = now - newest[1]
  OBVIOUS
<1>5. ASSUME NEW r \in rows PROVE r[1] <= newest[1]
  <2>1. x <= now - r[1]
    BY <1>3
  <2> QED BY <1>1, <1>4, <2>1
<1> QED BY <1>5

\* The other attempts are what they were.
LEMMA OthersSame ==
  ASSUME SignInTypes, NEW a \in Attempts, NEW t, Moves(a, t)
  PROVE  /\ attempt'[a] = t
         /\ \A b \in Attempts : b # a => attempt'[b] = attempt[b] /\ Key(b)' = Key(b)
BY DEF Moves, SignInTypes, Key

LEMMA PastMove ==
  ASSUME SignInTypes, Past, NEW a \in Attempts, NEW t, Moves(a, t),
         \A k \in Keys : \A r \in failures'[k] \cup prompt'[k] : r[1] <= now
  PROVE  Past'
BY OthersSame DEF Past, Moves

\* A move after which the attempt is not being checked, and no other's key has failed more.
LEMMA ChecksMove ==
  ASSUME SignInTypes, OneCheck, Judged, NEW a \in Attempts, NEW t, Moves(a, t),
         t.step # "checking",
         \A b \in Attempts : b # a /\ attempt[b].step = "checking" =>
           prompt'[Key(b)] \in {prompt[Key(b)], {}}
  PROVE  OneCheck' /\ Judged'
<1>1. \A b \in Attempts : attempt'[b].step = "checking" =>
        b # a /\ attempt'[b] = attempt[b] /\ Key(b)' = Key(b)
  BY OthersSame
<1>2. OneCheck'
  BY <1>1 DEF OneCheck
<1>3. ASSUME NEW b \in Attempts, attempt'[b].step = "checking", attempt'[b].at = now'
      PROVE  Cardinality(Within(prompt'[Key(b)'], now')) < LoginLimit
  <2>1. /\ b # a /\ attempt[b].step = "checking" /\ attempt[b].at = now /\ now' = now
        /\ Key(b)' = Key(b)
    BY <1>1, <1>3 DEF Moves
  <2>2. CASE prompt'[Key(b)] = prompt[Key(b)]
    BY <2>1, <2>2 DEF Judged
  <2>3. CASE prompt'[Key(b)] = {}
    <3>1. Within(prompt'[Key(b)'], now') = {}
      BY <2>1, <2>3 DEF Within
    <3> QED BY <3>1, FS_EmptySet, SignInAssumption
  <2> QED BY <2>1, <2>2, <2>3
<1> QED BY <1>2, <1>3 DEF Judged

\* A step of an attempt that leaves failures alone.
LEMMA KeysQuiet ==
  ASSUME SignInTypes, KeysInv, NEW a \in Attempts, NEW t, Moves(a, t), t.step # "checking",
         UNCHANGED keyVars
  PROVE  KeysInv'
<1>1. failures' = failures /\ prompt' = prompt /\ now' = now
  BY DEF keyVars, Moves
<1>2. Numbered' /\ Covered' /\ FailuresWithinLimit'
  BY <1>1 DEF KeysInv, Numbered, Covered, FailuresWithinLimit, Within
<1>3. OneCheck' /\ Judged'
  BY <1>1, ChecksMove DEF KeysInv
<1> QED BY <1>2, <1>3 DEF KeysInv

\* Clearing a key's failures takes from what is counted.
LEMMA KeysClear ==
  ASSUME SignInTypes, KeysInv, NEW a \in Attempts, NEW t, Moves(a, t), t.step # "checking",
         NEW k \in Keys, Clear(k)
  PROVE  KeysInv'
<1>1. /\ failures' = [failures EXCEPT ![k] = {}] /\ prompt' = [prompt EXCEPT ![k] = {}]
      /\ now' = now
  BY DEF Clear, Moves
<1>2. \A j \in Keys : /\ failures'[j] = IF j = k THEN {} ELSE failures[j]
                      /\ prompt'[j] = IF j = k THEN {} ELSE prompt[j]
  BY <1>1 DEF SignInTypes
<1>3. Numbered'
  BY <1>2, FS_EmptySet DEF KeysInv, Numbered
<1>4. Covered'
  BY <1>1, <1>2, FS_EmptySet DEF KeysInv, Covered
<1>5. FailuresWithinLimit'
  <2>1. \A s \in Times : Cardinality(Within({}, s)) = 0
    BY FS_EmptySet DEF Within
  <2> QED BY <1>2, <2>1, SignInAssumption DEF KeysInv, FailuresWithinLimit
<1>6. OneCheck' /\ Judged'
  <2>1. \A b \in Attempts : attempt[b].step = "checking" => Key(b) \in Keys
    BY AttemptIs
  <2> QED BY <1>2, <2>1, ChecksMove DEF KeysInv
<1> QED BY <1>3, <1>4, <1>5, <1>6 DEF KeysInv

\* A check begins: no other of the key is going on, and the key may fail once more.
LEMMA KeysEnter ==
  ASSUME SignInTypes, Past, KeysInv, NEW a \in Attempts, NEW t, Moves(a, t), Enter(a),
         t.step = "checking", t.at = attempt[a].at, t.kind = attempt[a].kind,
         t.user = attempt[a].user, t.device = attempt[a].device
  PROVE  KeysInv'
<1>1. /\ failures' = failures /\ prompt' = prompt /\ now' = now
      /\ attempt[a].step # "none" /\ attempt[a].step # "checking"
      /\ KeyFree(a) /\ ~Throttled(failures[Key(a)], LoginLimit, attempt[a].at)
  BY DEF Enter, keyVars
<1>2. Numbered' /\ Covered' /\ FailuresWithinLimit'
  BY <1>1 DEF KeysInv, Numbered, Covered, FailuresWithinLimit, Within
<1>3. /\ \A b \in Attempts : Key(b)' = Key(b)
      /\ \A b \in Attempts : attempt'[b].step = "checking" =>
           b = a \/ (b # a /\ attempt'[b] = attempt[b])
      /\ attempt'[a].at = attempt[a].at
  <2>1. attempt'[a] = t
    BY OthersSame
  <2>2. Key(a)' = Key(a)
    BY <2>1 DEF Key
  <2> QED BY <2>1, <2>2, OthersSame
<1>4. OneCheck'
  BY <1>1, <1>3 DEF OneCheck, KeyFree, KeysInv
<1>5. Key(a) \in Keys
  BY <1>1, AttemptIs
<1>6. now \in Nat
  BY SignInAssumption DEF SignInTypes, Times
<1>7. ASSUME attempt[a].at = now
      PROVE  Cardinality(Within(prompt[Key(a)], now)) < LoginLimit
  <2> DEFINE P == prompt[Key(a)]
             F == failures[Key(a)]
  <2>1. /\ P \in SUBSET Rows /\ F \in SUBSET Rows /\ IsFiniteSet(P) /\ IsFiniteSet(F)
        /\ \A r \in F : r[1] <= now
        /\ \A r \in P : r[1] + Window > now => r \in F
        /\ ~Throttled(F, LoginLimit, now)
    BY <1>1, <1>5, <1>7 DEF SignInTypes, KeysInv, Numbered, Covered, Past, Rows
  <2> HIDE DEF P, F
  <2>2. CASE Within(P, now) = {}
    BY <2>2, FS_EmptySet, SignInAssumption DEF P
  <2>3. CASE Within(P, now) # {}
    <3>1. PICK r \in P : r[1] <= now /\ r[1] + Window > now
      BY <2>3, WithinIs
    <3>2. r \in F
      BY <2>1, <3>1
    <3>3. PICK newest \in F : \A s \in F : s[1] <= newest[1]
      BY <1>6, <2>1, <3>2, NewestExists
    <3>4. \A s \in F : s[1] \in Nat
      BY <2>1, SignInAssumption DEF Rows, Times
    <3>5. now < newest[1] + Window /\ newest[1] <= now
      BY <2>1, <3>1, <3>2, <3>3, <3>4, <1>6, SignInAssumption
    <3>6. ~(Cardinality(Within(F, newest[1])) >= LoginLimit)
      BY <2>1, <3>3, <3>5 DEF Throttled
    <3>7. Within(P, now) \in SUBSET Within(F, newest[1])
      <4> SUFFICES ASSUME NEW s \in Within(P, now) PROVE s \in Within(F, newest[1])
        OBVIOUS
      <4>1. s \in P /\ s[1] <= now /\ s[1] + Window > now
        BY WithinIs
      <4>2. s \in F /\ s[1] <= newest[1] /\ s[1] \in Nat
        BY <2>1, <3>3, <3>4, <4>1
      <4>3. s[1] + Window > newest[1]
        BY <3>3, <3>4, <3>5, <4>1, <4>2, <1>6, SignInAssumption
      <4> QED BY <4>2, <4>3, WithinIs
    <3>8. /\ IsFiniteSet(Within(F, newest[1])) /\ Cardinality(Within(F, newest[1])) \in Nat
          /\ Cardinality(Within(P, now)) \in Nat
      BY <2>1, WithinIs
    <3>9. Cardinality(Within(P, now)) <= Cardinality(Within(F, newest[1]))
      BY <3>7, <3>8, FS_Subset
    <3> QED BY <3>6, <3>8, <3>9, SignInAssumption DEF P
  <2> QED BY <2>2, <2>3
<1>8. Judged'
  BY <1>1, <1>3, <1>7 DEF Judged, KeysInv
<1> QED BY <1>2, <1>4, <1>8 DEF KeysInv

\* A failure: the key's attempt that fails was allowed, so its window is not full.
LEMMA KeysFail ==
  ASSUME SignInTypes, Past, KeysInv, NEW a \in Attempts, NEW t, Moves(a, t), t.step # "checking",
         Fail(a)
  PROVE  /\ KeysInv'
         /\ \A k \in Keys : \A r \in failures'[k] \cup prompt'[k] : r[1] <= now
<1> DEFINE at == attempt[a].at
           F == failures[Key(a)]
           P == prompt[Key(a)]
           added == AddRow(F, at)
           row == <<at, Cardinality({s \in F : s[1] = at}) + 1>>
<1>1. /\ attempt[a].step = "checking" /\ Key(a) \in Keys /\ at \in Times /\ at <= now
      /\ now' = now
  BY AttemptIs DEF Fail, Past, Moves
<1>2. now \in Nat /\ at \in Nat /\ \A r \in Rows : r[1] \in Nat
  BY <1>1, SignInAssumption DEF SignInTypes, Times, Rows
<1>3. \A k \in Keys :
        /\ failures[k] \in SUBSET Rows /\ prompt[k] \in SUBSET Rows
        /\ IsFiniteSet(failures[k]) /\ IsFiniteSet(prompt[k])
        /\ \A r \in failures[k] \cup prompt[k] : r[1] <= now
  BY DEF SignInTypes, KeysInv, Numbered, Covered, Past, Rows
<1> HIDE DEF at, F, P, added, row
<1>4. /\ failures' = [k \in Keys |-> Prune(IF k = Key(a) THEN added ELSE failures[k], at)]
      /\ prompt' = [prompt EXCEPT ![Key(a)] = IF at = now THEN @ \cup (added \ F) ELSE @]
  BY DEF Fail, at, F, added
<1>5. F \in SUBSET Rows /\ P \in SUBSET Rows /\ IsFiniteSet(F) /\ IsFiniteSet(P)
      /\ F = failures[Key(a)] /\ P = prompt[Key(a)]
  BY <1>1, <1>3 DEF F, P
<1>6. /\ added = F \cup {row} /\ added \in SUBSET Rows /\ IsFiniteSet(added)
      /\ row[1] = at
      /\ \A r \in F : r[2] \in 1..Cardinality({s \in F : s[1] = r[1]})
      /\ row \notin F
      /\ \A r \in added : r[2] \in 1..Cardinality({s \in added : s[1] = r[1]})
  <2>1. \A r \in F : r[2] \in 1..Cardinality({s \in F : s[1] = r[1]})
    BY <1>1, <1>5 DEF KeysInv, Numbered
  <2>2. /\ added = F \cup {row} /\ added \in SUBSET Rows /\ IsFiniteSet(added)
        /\ row \notin F
        /\ \A r \in added : r[2] \in 1..Cardinality({s \in added : s[1] = r[1]})
    BY <1>1, <1>5, <2>1, AddRowIs DEF added, row
  <2>3. row[1] = at
    BY DEF row
  <2> QED BY <2>1, <2>2, <2>3
<1>7. /\ Prune(added, at) \in SUBSET added /\ IsFiniteSet(Prune(added, at))
      /\ \A r \in added : r[1] + 2 * Window > at => r \in Prune(added, at)
      /\ \A r \in Prune(added, at) :
           r[2] \in 1..Cardinality({s \in Prune(added, at) : s[1] = r[1]})
  <2>1. /\ added \in SUBSET Rows /\ IsFiniteSet(added)
        /\ \A r \in added : r[2] \in 1..Cardinality({s \in added : s[1] = r[1]})
    BY <1>6
  <2> QED BY <2>1, <1>1, PruneKeeps
<1>8. \A k \in Keys :
        LET kept == Prune(failures[k], at)
        IN  /\ kept \in SUBSET failures[k] /\ IsFiniteSet(kept)
            /\ \A r \in failures[k] : r[1] + 2 * Window > at => r \in kept
            /\ \A r \in kept : r[2] \in 1..Cardinality({s \in kept : s[1] = r[1]})
  <2> SUFFICES ASSUME NEW k \in Keys
               PROVE  LET kept == Prune(failures[k], at)
                      IN  /\ kept \in SUBSET failures[k] /\ IsFiniteSet(kept)
                          /\ \A r \in failures[k] : r[1] + 2 * Window > at => r \in kept
                          /\ \A r \in kept : r[2] \in 1..Cardinality({s \in kept : s[1] = r[1]})
    OBVIOUS
  <2>1. \A r \in failures[k] : r[2] \in 1..Cardinality({s \in failures[k] : s[1] = r[1]})
    BY DEF KeysInv, Numbered
  <2>2. failures[k] \in SUBSET Rows /\ IsFiniteSet(failures[k])
    BY <1>3
  <2> QED BY <2>1, <2>2, <1>1, PruneKeeps
<1>9. \A k \in Keys :
        /\ failures'[k] = IF k = Key(a) THEN Prune(added, at) ELSE Prune(failures[k], at)
        /\ prompt'[k] = IF k = Key(a) /\ at = now THEN P \cup {row} ELSE prompt[k]
  <2>1. \A k \in Keys :
          failures'[k] = IF k = Key(a) THEN Prune(added, at) ELSE Prune(failures[k], at)
    BY <1>4
  <2>2. added \ F = {row}
    BY <1>6
  <2>3. \A k \in Keys : prompt'[k] = IF k = Key(a) /\ at = now THEN P \cup {row} ELSE prompt[k]
    BY <1>4, <1>5, <2>2 DEF SignInTypes
  <2> QED BY <2>1, <2>3
<1>10. Numbered'
  <2> SUFFICES ASSUME NEW k \in Keys
               PROVE  /\ IsFiniteSet(failures'[k])
                      /\ \A r \in failures'[k] :
                           r[2] \in 1..Cardinality({s \in failures'[k] : s[1] = r[1]})
    BY DEF Numbered
  <2>1. CASE k = Key(a)
    BY <2>1, <1>9, <1>7
  <2>2. CASE k # Key(a)
    BY <2>2, <1>9, <1>8
  <2> QED BY <2>1, <2>2
<1>11. \A k \in Keys : \A r \in failures'[k] \cup prompt'[k] : r[1] <= now
  <2> SUFFICES ASSUME NEW k \in Keys, NEW r \in failures'[k] \cup prompt'[k] PROVE r[1] <= now
    OBVIOUS
  <2>1. r \in failures[k] \cup prompt[k] \/ r = row
    <3>1. r \in failures'[k] => r \in failures[k] \/ r = row
      <4>1. CASE k = Key(a)
        BY <4>1, <1>5, <1>6, <1>9, <1>7
      <4>2. CASE k # Key(a)
        BY <4>2, <1>9, <1>8
      <4> QED BY <4>1, <4>2
    <3>2. r \in prompt'[k] => r \in prompt[k] \/ r = row
      BY <1>5, <1>9
    <3> QED BY <3>1, <3>2
  <2> QED BY <2>1, <1>1, <1>3, <1>6
<1>12. Covered'
  <2> SUFFICES ASSUME NEW k \in Keys
               PROVE  /\ IsFiniteSet(prompt'[k])
                      /\ \A r \in prompt'[k] : r[1] + Window > now => r \in failures'[k]
    BY <1>1 DEF Covered
  <2>1. IsFiniteSet(prompt'[k])
    <3>1. IsFiniteSet(P \cup {row}) /\ IsFiniteSet(prompt[k])
      BY <1>3, <1>5, FS_AddElement
    <3> QED BY <1>9, <3>1
  <2>2. ASSUME NEW r \in prompt'[k], r[1] + Window > now PROVE r \in failures'[k]
    <3>1. r \in Rows /\ r[1] \in Nat
      <4>1. row \in Rows
        BY <1>6
      <4> QED BY <4>1, <1>2, <1>3, <1>5, <1>9
    <3>2. r[1] + 2 * Window > at
      BY <1>1, <1>2, <2>2, <3>1, SignInAssumption
    <3>3. CASE k = Key(a)
      <4>1. r \in added
        BY <2>2, <3>3, <1>5, <1>6, <1>9 DEF KeysInv, Covered
      <4> QED BY <3>2, <3>3, <4>1, <1>9, <1>7
    <3>4. CASE k # Key(a)
      <4>1. r \in failures[k]
        BY <2>2, <3>4, <1>9 DEF KeysInv, Covered
      <4> QED BY <3>2, <3>4, <4>1, <1>9, <1>8
    <3> QED BY <3>3, <3>4
  <2> QED BY <2>1, <2>2
<1>13. FailuresWithinLimit'
  <2> SUFFICES ASSUME NEW k \in Keys, NEW s \in Times
               PROVE  Cardinality(Within(prompt'[k], s)) <= LoginLimit
    BY DEF FailuresWithinLimit
  <2>1. CASE prompt'[k] = prompt[k]
    BY <2>1 DEF KeysInv, FailuresWithinLimit
  <2>2. CASE k = Key(a) /\ at = now /\ prompt'[k] = P \cup {row}
    <3>1. Cardinality(Within(P, now)) < LoginLimit
      BY <1>1, <2>2 DEF KeysInv, Judged, at, P
    <3>2. IsFiniteSet(Within(P, now)) /\ Cardinality(Within(P, now)) \in Nat
      BY <1>5, WithinIs
    <3>3. CASE s < now
      <4>1. Within(P \cup {row}, s) = Within(P, s)
        BY <3>3, <1>2, <1>6, <2>2, SignInAssumption DEF Within, Times
      <4>2. Cardinality(Within(P, s)) <= LoginLimit
        BY <2>2, <1>5 DEF KeysInv, FailuresWithinLimit
      <4> QED BY <2>2, <4>1, <4>2
    <3>4. CASE ~(s < now)
      <4>1. Within(P \cup {row}, s) \in SUBSET (Within(P, now) \cup {row})
        <5> SUFFICES ASSUME NEW r \in Within(P \cup {row}, s), r # row PROVE r \in Within(P, now)
          OBVIOUS
        <5>1. r \in P /\ r[1] + Window > s /\ r[1] \in Nat /\ r[1] <= now
          BY WithinIs, <1>2, <1>3, <1>5, <1>1
        <5>2. s \in Nat
          BY SignInAssumption DEF Times
        <5>3. r[1] + Window > now
          BY <3>4, <5>1, <5>2, <1>2, SignInAssumption
        <5> QED BY <5>1, <5>3, WithinIs
      <4>2. /\ IsFiniteSet(Within(P, now) \cup {row})
            /\ Cardinality(Within(P, now) \cup {row}) <= Cardinality(Within(P, now)) + 1
        <5> DEFINE S == Within(P, now)
        <5>1. IsFiniteSet(S) /\ Cardinality(S) \in Nat
          BY <3>2
        <5> HIDE DEF S
        <5>2. /\ IsFiniteSet(S \cup {row})
              /\ Cardinality(S \cup {row}) =
                   IF row \in S THEN Cardinality(S) ELSE Cardinality(S) + 1
          BY <5>1, FS_AddElement
        <5>3. Cardinality(S \cup {row}) <= Cardinality(S) + 1
          BY <5>1, <5>2
        <5> QED BY <5>2, <5>3 DEF S
      <4>3. /\ Cardinality(Within(P \cup {row}, s)) <= Cardinality(Within(P, now) \cup {row})
            /\ Cardinality(Within(P \cup {row}, s)) \in Nat
            /\ Cardinality(Within(P, now) \cup {row}) \in Nat
        BY <4>1, <4>2, FS_Subset, FS_CardinalityType
      <4> QED BY <2>2, <3>1, <3>2, <4>2, <4>3, SignInAssumption
    <3> QED BY <3>3, <3>4
  <2> QED BY <2>1, <2>2, <1>9
<1>14. OneCheck' /\ Judged'
  <2>1. ASSUME NEW b \in Attempts, b # a, attempt[b].step = "checking"
        PROVE  prompt'[Key(b)] = prompt[Key(b)]
    <3>1. Key(b) # Key(a) /\ Key(b) \in Keys
      BY <1>1, <2>1, AttemptIs DEF KeysInv, OneCheck
    <3> QED BY <3>1, <1>9
  <2> QED BY <2>1, ChecksMove DEF KeysInv
<1> QED BY <1>10, <1>11, <1>12, <1>13, <1>14 DEF KeysInv

-----------------------------------------------------------------------------
(* The steps of signing in, and the theorems. *)

LEMMA SignInInitInv == SignInInit => SignInInv
<1> SUFFICES ASSUME SignInInit PROVE SignInInv
  OBVIOUS
<1>1. /\ now = 0 /\ active = Users /\ revoked = {} /\ sessions = {}
      /\ failures = [k \in Keys |-> {}] /\ prompt = [k \in Keys |-> {}]
      /\ address = [failures |-> <<>>, pending |-> 0]
      /\ attempt = [a \in Attempts |-> NoAttempt]
      /\ resetCodes = [u \in Users |-> {}] /\ endings = [u \in Users |-> 0]
  BY DEF SignInInit, NoCount
<1>2. \A a \in Attempts : attempt[a] = NoAttempt /\ attempt[a].step = "none"
  BY <1>1 DEF NoAttempt
<1>3. SignInTypes
  <2>1. /\ <<>> \in Seq(Times) /\ Len(<<>>) <= AddressLimit /\ 0 \in Times /\ 0 \in 0..MaxEndings
    BY SignInAssumption DEF Times
  <2>2. address \in [failures : Seq(Times), pending : Nat] /\ Len(address.failures) <= AddressLimit
    BY <1>1, <2>1
  <2> QED BY <1>1, <1>2, <2>1, <2>2 DEF SignInTypes
<1>4. Charged
  <2>1. InFlight = {}
    BY <1>2 DEF InFlight, Counted
  <2> QED BY <1>1, <2>1, FS_EmptySet DEF Charged
<1>5. Past
  BY <1>1, <1>2 DEF Past
<1>6. Numbered /\ Covered
  BY <1>1, FS_EmptySet DEF Numbered, Covered
<1>7. OneCheck /\ Judged
  BY <1>2 DEF OneCheck, Judged
<1>8. FailuresWithinLimit
  <2>1. \A k \in Keys, t \in Times : Within(prompt[k], t) = {}
    BY <1>1 DEF Within
  <2> QED BY <2>1, FS_EmptySet, SignInAssumption DEF FailuresWithinLimit
<1>9. Current
  BY <1>1 DEF Current
<1> QED BY <1>3, <1>4, <1>5, <1>6, <1>7, <1>8, <1>9 DEF SignInInv, KeysInv

\* Each kind of step keeps the invariant.
LEMMA AttemptStep ==
  ASSUME SignInInv, NEW a \in Attempts, NEW u \in Users, Go(a) \/ Try(a, u)
  PROVE  SignInInv'
<1>1. SignInTypes /\ Charged /\ Past /\ KeysInv /\ Current /\ Numbered
  BY DEF SignInInv, KeysInv
<1>2. PICK t : /\ Moves(a, t)
               /\ t.step = "checking" =>
                    /\ Enter(a)
                    /\ t.at = attempt[a].at /\ t.kind = attempt[a].kind
                    /\ t.user = attempt[a].user /\ t.device = attempt[a].device
  <2>1. CASE Go(a)
    BY <1>1, <2>1, GoMoves
  <2>2. CASE Try(a, u)
    BY <1>1, <2>2, StartMoves
  <2> QED BY <2>1, <2>2
<1>3. SignInTypes' /\ Charged' /\ Current'
  BY <1>1, <1>2, TypesStep, SessionsAttempt
<1>4. now' = now
  BY <1>2 DEF Moves
<1>5. ASSUME UNCHANGED keyVars PROVE KeysInv' /\ Past'
  <2>1. Past'
    <3>1. failures' = failures /\ prompt' = prompt
      BY <1>5 DEF keyVars
    <3> QED BY <1>1, <1>2, <3>1, PastMove DEF Past
  <2>2. CASE t.step = "checking"
    BY <1>1, <1>2, <2>1, <2>2, KeysEnter
  <2>3. CASE t.step # "checking"
    BY <1>1, <1>2, <1>5, <2>1, <2>3, KeysQuiet
  <2> QED BY <2>1, <2>2, <2>3
<1>6. ASSUME NEW k \in Keys, Clear(k), t.step # "checking" PROVE KeysInv' /\ Past'
  <2>1. \A j \in Keys : \A r \in failures'[j] \cup prompt'[j] : r \in failures[j] \cup prompt[j]
    BY <1>1, <1>6 DEF Clear, SignInTypes
  <2>2. Past'
    BY <1>1, <1>2, <2>1, PastMove DEF Past
  <2> QED BY <1>1, <1>2, <1>6, <2>2, KeysClear
<1>7. Try(a, u) => UNCHANGED keyVars
  BY DEF Try, AskAnywhere, AskOnDevice, AskPin, Start
<1>8. Begin(a) \/ ReadUser(a) \/ Enter(a) \/ Drop(a) \/ WrongCode(a) \/ Open(a) => UNCHANGED keyVars
  BY DEF Begin, ReadUser, Enter, Drop, WrongCode, Open
<1>9. Verify(a) \/ Fail(a) \/ UseCode(a) => ~Enter(a) /\ t.step # "checking"
  <2>1. Enter(a) => attempt'[a].step = "checking"
    BY <1>1 DEF Enter, SignInTypes
  <2>2. Verify(a) => attempt'[a].step = "verified"
    BY <1>1 DEF Verify, SignInTypes
  <2>3. Fail(a) \/ UseCode(a) => attempt'[a].step = "none"
    BY <1>1 DEF Fail, UseCode, Ended, NoAttempt, SignInTypes
  <2> QED BY <1>2, <2>1, <2>2, <2>3
<1>10. ASSUME Verify(a) \/ UseCode(a) PROVE KeysInv' /\ Past'
  <2>1. Clear(Key(a)) /\ attempt[a].step # "none"
    BY <1>10 DEF Verify, UseCode
  <2> QED BY <1>1, <1>6, <1>9, <1>10, <2>1, AttemptIs
<1>11. ASSUME Fail(a) PROVE KeysInv' /\ Past'
  <2>1. KeysInv' /\ \A k \in Keys : \A r \in failures'[k] \cup prompt'[k] : r[1] <= now
    BY <1>1, <1>2, <1>9, <1>11, KeysFail
  <2> QED BY <1>1, <1>2, <2>1, PastMove
<1>12. KeysInv' /\ Past'
  BY <1>5, <1>7, <1>8, <1>10, <1>11 DEF Go
<1> QED BY <1>3, <1>12 DEF SignInInv

LEMMA ManageStep ==
  ASSUME SignInInv, Manages
  PROVE  SignInInv'
<1>1. SignInTypes /\ Charged /\ Past /\ KeysInv /\ Current
  BY DEF SignInInv
<1>2. /\ now' = now /\ failures' = failures /\ prompt' = prompt /\ address' = address
      /\ attempt' = attempt
  BY ManagesAlone DEF keyVars
<1>3. SignInTypes' /\ Current'
  BY <1>1, <1>2, SessionsManage DEF SignInTypes
<1>4. Charged' /\ Past'
  BY <1>1, <1>2 DEF Charged, InFlight, Counted, Past
<1>5. KeysInv'
  BY <1>1, <1>2 DEF KeysInv, Numbered, Covered, OneCheck, Judged, FailuresWithinLimit, Within, Key
<1> QED BY <1>1, <1>3, <1>4, <1>5 DEF SignInInv

LEMMA RestartStep ==
  ASSUME SignInInv, Restart
  PROVE  SignInInv'
<1>1. SignInTypes /\ Charged /\ Past /\ KeysInv /\ Current
  BY DEF SignInInv
<1>2. /\ now' = now /\ failures' = failures /\ prompt' = prompt /\ sessions' = sessions
      /\ UNCHANGED userVars
      /\ address' = [failures |-> <<>>, pending |-> 0]
      /\ attempt' = [a \in Attempts |-> NoAttempt]
  BY DEF Restart, keyVars, NoCount
<1>3. \A a \in Attempts : attempt'[a] = NoAttempt /\ attempt'[a].step = "none"
  BY <1>2 DEF NoAttempt
<1>4. SignInTypes'
  <2>1. <<>> \in Seq(Times) /\ Len(<<>>) <= AddressLimit
    BY SignInAssumption
  <2>2. /\ address' \in [failures : Seq(Times), pending : Nat]
        /\ Len(address'.failures) <= AddressLimit
    BY <1>2, <2>1
  <2> QED BY <1>1, <1>2, <1>3, <2>2 DEF SignInTypes, userVars
<1>5. Charged'
  <2>1. InFlight' = {}
    BY <1>3 DEF InFlight, Counted
  <2> QED BY <1>2, <2>1, FS_EmptySet DEF Charged
<1>6. Past' /\ Current'
  BY <1>1, <1>2, <1>3 DEF Past, Current, userVars
<1>7. KeysInv'
  BY <1>1, <1>2, <1>3 DEF KeysInv, Numbered, Covered, OneCheck, Judged, FailuresWithinLimit, Within
<1> QED BY <1>4, <1>5, <1>6, <1>7 DEF SignInInv

\* Time passes only once every attempt began before: none is judged by the new time.
LEMMA TickStep ==
  ASSUME SignInInv, Tick
  PROVE  SignInInv'
<1>1. SignInTypes /\ Charged /\ Past /\ KeysInv /\ Current
  BY DEF SignInInv
<1>2. /\ now' = now + 1 /\ now < MaxTime /\ failures' = failures /\ prompt' = prompt
      /\ sessions' = sessions /\ UNCHANGED userVars /\ address' = address /\ attempt' = attempt
      /\ \A a \in Attempts : attempt[a] # NoAttempt => attempt[a].at = now
  BY DEF Tick, keyVars
<1>3. now \in Nat /\ now + 1 \in Times
  BY <1>1, <1>2, SignInAssumption DEF SignInTypes, Times
<1>4. SignInTypes'
  BY <1>1, <1>2, <1>3 DEF SignInTypes, userVars
<1>5. Charged' /\ Current'
  BY <1>1, <1>2 DEF Charged, InFlight, Counted, Current, userVars
<1>6. \A k \in Keys : \A r \in failures[k] \cup prompt[k] : r[1] \in Nat
  BY <1>1, SignInAssumption DEF SignInTypes, Times
<1>7. Past'
  <2>1. \A k \in Keys : \A r \in failures[k] \cup prompt[k] : r[1] <= now + 1
    BY <1>1, <1>3, <1>6 DEF Past
  <2>2. \A a \in Attempts : attempt[a] # NoAttempt => attempt[a].at <= now + 1
    BY <1>2, <1>3
  <2> QED BY <1>2, <2>1, <2>2 DEF Past
<1>8. Numbered' /\ OneCheck' /\ FailuresWithinLimit'
  BY <1>1, <1>2 DEF KeysInv, Numbered, OneCheck, FailuresWithinLimit, Within, Key
<1>9. Covered'
  <2>1. \A k \in Keys : \A r \in prompt[k] : r[1] + Window > now + 1 => r[1] + Window > now
    BY <1>3, <1>6, SignInAssumption
  <2> QED BY <1>1, <1>2, <2>1 DEF KeysInv, Covered
<1>10. Judged'
  <2>1. \A a \in Attempts : attempt[a].step = "checking" => attempt[a].at # now + 1
    BY <1>1, <1>2, <1>3, AttemptIs
  <2> QED BY <1>2, <2>1 DEF Judged
<1> QED BY <1>4, <1>5, <1>7, <1>8, <1>9, <1>10 DEF SignInInv, KeysInv

LEMMA SignInStep == SignInInv /\ [SignInNext]_signInVars => SignInInv'
<1> SUFFICES ASSUME SignInInv, [SignInNext]_signInVars PROVE SignInInv'
  OBVIOUS
<1>1. ASSUME NEW a \in Attempts, Go(a) PROVE SignInInv'
  <2>1. attempt[a].step # "none"
    BY <1>1, AttemptIs DEF SignInInv, Go, Begin, ReadUser, Enter, Verify, Fail, Open, Drop, UseCode,
         WrongCode
  <2>2. attempt[a].user \in Users
    BY <2>1, AttemptIs DEF SignInInv
  <2> QED BY <1>1, <2>2, AttemptStep
<1>2. ASSUME NEW a \in Attempts, NEW u \in Users, Try(a, u) PROVE SignInInv'
  BY <1>2, AttemptStep
<1>3. CASE Manages
  BY <1>3, ManageStep
<1>4. CASE Restart
  BY <1>4, RestartStep
<1>5. CASE Tick
  BY <1>5, TickStep
<1>6. CASE UNCHANGED signInVars
  <2>1. UNCHANGED <<now, active, revoked, resetCodes, endings, failures, prompt, address, attempt,
                    sessions>>
    BY <1>6 DEF signInVars, userVars, keyVars
  <2> QED BY <2>1 DEF SignInInv, SignInTypes, Charged, InFlight, Counted, Past, KeysInv, Numbered,
        Covered, OneCheck, Judged, FailuresWithinLimit, Current, Within, Key
<1> QED BY <1>1, <1>2, <1>3, <1>4, <1>5, <1>6 DEF SignInNext, Manages

\* The invariant holds, for every number of users, devices, attempts and every limit.
THEOREM SignInInvariant == SignInSpec => []SignInInv
BY SignInInitInv, SignInStep, PTL DEF SignInSpec

\* No attempt is forgotten, and none is charged twice: what the address is charged with is the
\* attempts in flight, whatever they do and however the server restarts.
THEOREM SignInTypesCorrect == SignInSpec => []SignInTypeOK
<1>1. SignInInv => SignInTypeOK
  BY DEF SignInInv, SignInTypes, SignInTypeOK, Charged, InFlight
<1> QED BY <1>1, SignInInvariant, PTL

\* However many attempts are made at once, no more than the limit of a key fail within a window
\* while time does not pass under them, whatever clears its failures or restarts the server.
THEOREM FailuresLimited == SignInSpec => []FailuresWithinLimit
<1>1. SignInInv => FailuresWithinLimit
  BY DEF SignInInv, KeysInv
<1> QED BY <1>1, SignInInvariant, PTL

\* A session that its user's sessions ended, or that is on a revoked device, is never good again.
THEOREM SessionsStayEnded == SignInSpec => []EndedSessionsStayEnded
<1>1. SignInInv => EndedSessionsStayEnded
  BY DEF SignInInv, Current, EndedSessionsStayEnded, Usable
<1> QED BY <1>1, SignInInvariant, PTL

\* Every failure of an attempt that time has not passed under is one more.
THEOREM EveryFailureCounts ==
  SignInSpec => [][\A a \in Attempts : Fail(a) /\ attempt[a].at = now =>
                     Cardinality(prompt'[Key(a)]) = Cardinality(prompt[Key(a)]) + 1]_signInVars
<1>1. ASSUME SignInInv, NEW a \in Attempts, Fail(a), attempt[a].at = now
      PROVE  Cardinality(prompt'[Key(a)]) = Cardinality(prompt[Key(a)]) + 1
  <2> DEFINE F == failures[Key(a)]
             P == prompt[Key(a)]
             row == <<now, Cardinality({s \in F : s[1] = now}) + 1>>
  <2>1. Key(a) \in Keys /\ now \in Times /\ now \in Nat
    BY <1>1, AttemptIs, SignInAssumption DEF SignInInv, SignInTypes, Fail, Times
  <2>2. /\ F \in SUBSET Rows /\ IsFiniteSet(F) /\ IsFiniteSet(P)
        /\ \A r \in F : r[2] \in 1..Cardinality({s \in F : s[1] = r[1]})
        /\ \A r \in P : r[1] + Window > now => r \in F
    BY <1>1, <2>1 DEF SignInInv, SignInTypes, KeysInv, Numbered, Covered, Rows
  <2>3. prompt' = [prompt EXCEPT ![Key(a)] = P \cup (AddRow(F, now) \ F)]
    BY <1>1, <2>1 DEF Fail, SignInInv, SignInTypes
  <2>4. prompt'[Key(a)] = P \cup (AddRow(F, now) \ F)
    BY <1>1, <2>1, <2>3 DEF SignInInv, SignInTypes
  <2> HIDE DEF F
  <2>5. AddRow(F, now) = F \cup {row} /\ row \notin F
    BY <2>1, <2>2, AddRowIs
  <2>6. row \notin P
    <3>1. row[1] + Window > now
      BY <2>1, SignInAssumption
    <3> HIDE DEF row, P
    <3> QED BY <2>2, <2>5, <3>1
  <2>7. prompt'[Key(a)] = P \cup {row}
    <3> HIDE DEF row, P
    <3> QED BY <2>4, <2>5
  <2>8. Cardinality(P \cup {row}) = Cardinality(P) + 1
    <3> HIDE DEF row, P
    <3> QED BY <2>2, <2>6, FS_AddElement
  <2> QED BY <2>7, <2>8
<1>2. SignInInv /\ [SignInNext]_signInVars =>
        [\A a \in Attempts : Fail(a) /\ attempt[a].at = now =>
           Cardinality(prompt'[Key(a)]) = Cardinality(prompt[Key(a)]) + 1]_signInVars
  BY <1>1
<1> QED BY <1>2, SignInInvariant, PTL DEF SignInSpec

-----------------------------------------------------------------------------
(* Registering devices.  The inductive invariant. *)

USE DeviceRegistrationAssumption

RegistrationTypes ==
  /\ codes \in [Codes -> {"unissued", "live", "used", "expired"}]
  /\ server \in [Registrations -> Row]
  /\ asked \in [Machines -> Registrations \cup {Nothing}]
  /\ device \in [Machines -> Registrations \cup {Nothing}]
  /\ counter \in [Machines -> 0..MaxSales]
  /\ numbers \in [Numbers -> Nat]

\* The tenant's lock: whoever was checked against the limit is alone, and it holds for them still.
Placing ==
  /\ \A r, s \in In({"placed"}) : r = s
  /\ In({"placed"}) # {} => Cardinality(In({"active"})) < Limit
  /\ Cardinality(In({"active"})) <= Limit

\* A code that made a device is used up; nobody else has the one a transaction is using.
CodesOnce ==
  /\ \A r \in In({"sent", "late", "coded", "placed"}) \cup Devices : server[r].code \in Codes
  /\ \A r \in Devices : codes[server[r].code] = "used"
  /\ \A r \in In({"coded", "placed"}) : codes[server[r].code] # "used"
  /\ \A r, s \in In({"coded", "placed"}) : server[r].code = server[s].code => r = s
  /\ \A r, s \in Devices : server[r].code = server[s].code => r = s

\* A prefix is one device's, registered or about to be, revoked or not.
PrefixesOnce ==
  /\ \A r \in In({"placed"}) \cup Devices : server[r].prefix \in DocPrefixes
  /\ \A r, s \in In({"placed"}) \cup Devices : server[r].prefix = server[s].prefix => r = s

\* A machine waits for, or is, a device of its own.
MachinesApart ==
  /\ \A m \in Machines : asked[m] # Nothing => server[asked[m]].state # "unsent"
  /\ \A m \in Machines : device[m] # Nothing => device[m] \in Devices
  /\ \A m \in Machines : device[m] = Nothing => counter[m] = 0
  /\ \A m \in Machines : device[m] # Nothing => asked[m] = Nothing
  /\ \A m, n \in Machines : device[m] = device[n] => m = n \/ device[m] = Nothing
  /\ \A m, n \in Machines : asked[m] = asked[n] => m = n \/ asked[m] = Nothing
  /\ \A m, n \in Machines : asked[m] = device[n] => asked[m] = Nothing

\* The numbers a prefix has left: all before it is a device's and before the device is kept, then
\* those past the machine's counter.
NumbersLeft ==
  /\ \A n \in Numbers : numbers[n] <= 1
  /\ \A p \in DocPrefixes : (\A r \in Devices : server[r].prefix # p) =>
       \A k \in 1..MaxSales : numbers[<<p, k>>] = 0
  /\ \A m \in Machines : asked[m] \in Devices =>
       \A k \in 1..MaxSales : numbers[<<server[asked[m]].prefix, k>>] = 0
  /\ \A m \in Machines : device[m] # Nothing =>
       \A k \in 1..MaxSales :
         counter[m] < k => numbers[<<server[device[m]].prefix, k>>] = 0

RegistrationInv ==
  /\ RegistrationTypes /\ Placing /\ CodesOnce /\ PrefixesOnce /\ MachinesApart /\ NumbersLeft

-----------------------------------------------------------------------------
(* Lemmas. *)

\* Any set of registrations is finite.
LEMMA FiniteIn ==
  ASSUME NEW states
  PROVE  IsFiniteSet(In(states)) /\ Cardinality(In(states)) \in Nat
<1>1. In(states) \subseteq Registrations
  BY DEF In
<1> QED BY <1>1, FS_Subset, FS_CardinalityType

\* A registration changes its state.
LEMMA StateChanged ==
  ASSUME RegistrationTypes, NEW r \in Registrations,
         NEW st \in {"unsent", "sent", "late", "coded", "placed", "active", "revoked", "refused"},
         server' = [server EXCEPT ![r].state = st]
  PROVE  /\ server' \in [Registrations -> Row]
         /\ server'[r].state = st
         /\ server'[r].code = server[r].code /\ server'[r].prefix = server[r].prefix
         /\ \A s \in Registrations : s # r => server'[s] = server[s]
<1>1. server \in [Registrations -> Row] /\ server[r] \in Row
  BY DEF RegistrationTypes
<1> QED BY <1>1 DEF Row

\* What the devices are when one registration changes.
LEMMA SetsAfter ==
  ASSUME NEW r \in Registrations, \A s \in Registrations : s # r => server'[s] = server[s],
         NEW states
  PROVE  In(states)' = IF server'[r].state \in states THEN In(states) \cup {r} ELSE In(states) \ {r}
  BY DEF In

\* The invariant holds before anything happened.
LEMMA RegistrationInitInv == Init => RegistrationInv
<1> SUFFICES ASSUME Init PROVE RegistrationInv
  OBVIOUS
<1> USE DEF Init
<1>1. RegistrationTypes
  BY DEF RegistrationTypes, Row
<1>2. \A states : "unsent" \notin states => In(states) = {}
  BY DEF In
<1>3. In({"placed"}) = {} /\ In({"active"}) = {} /\ In({"coded", "placed"}) = {}
      /\ Devices = {} /\ In({"sent", "late", "coded", "placed"}) = {}
  BY <1>2 DEF Devices
<1>4. Placing
  BY <1>3, FS_EmptySet, SMTT(30) DEF Placing
<1>5. CodesOnce /\ PrefixesOnce
  BY <1>3 DEF CodesOnce, PrefixesOnce
<1>6. MachinesApart
  BY DEF MachinesApart
<1>7. NumbersLeft
  BY <1>1, <1>3 DEF NumbersLeft, Numbers, RegistrationTypes
<1> QED BY <1>1, <1>4, <1>5, <1>6, <1>7 DEF RegistrationInv

-----------------------------------------------------------------------------
(* The steps of the owner. *)

\* Issuing a code, and its expiry, keep the invariant: neither uses a code up or gives one back.
LEMMA CodeStep ==
  ASSUME RegistrationInv, NEW c \in Codes, IssueCode(c) \/ CodeExpires(c)
  PROVE  RegistrationInv'
<1> USE DEF RegistrationInv
<1>1. /\ UNCHANGED <<server, asked, device, counter, numbers>>
      /\ codes' \in [Codes -> {"unissued", "live", "used", "expired"}]
      /\ \A d \in Codes : codes'[d] = "used" <=> codes[d] = "used"
  BY DEF IssueCode, CodeExpires, RegistrationTypes
<1>2. RegistrationTypes' /\ Placing' /\ PrefixesOnce' /\ MachinesApart' /\ NumbersLeft'
  BY <1>1 DEF RegistrationTypes, Placing, PrefixesOnce, MachinesApart, NumbersLeft, In, Devices
<1>3. CodesOnce'
  BY <1>1 DEF CodesOnce, In, Devices
<1> QED BY <1>2, <1>3

\* A revoked device stays a device: its prefix and its code are not given again.
LEMMA RevokeStep ==
  ASSUME RegistrationInv, NEW r \in Registrations, Revoke(r)
  PROVE  RegistrationInv'
<1> USE DEF RegistrationInv
<1>1. /\ server[r].state = "active" /\ server' = [server EXCEPT ![r].state = "revoked"]
      /\ UNCHANGED <<codes, asked, device, counter, numbers>>
  BY DEF Revoke
<1>2. /\ server' \in [Registrations -> Row] /\ server'[r].state = "revoked"
      /\ \A s \in Registrations : /\ server'[s].code = server[s].code
                                  /\ server'[s].prefix = server[s].prefix
                                  /\ s # r => server'[s] = server[s]
  BY <1>1, StateChanged
<1>3. /\ Devices' = Devices /\ In({"placed"})' = In({"placed"})
      /\ In({"coded", "placed"})' = In({"coded", "placed"})
      /\ In({"sent", "late", "coded", "placed"})' = In({"sent", "late", "coded", "placed"})
      /\ In({"active"})' = In({"active"}) \ {r}
  BY <1>1, <1>2 DEF In, Devices
<1>4. RegistrationTypes'
  BY <1>1, <1>2 DEF RegistrationTypes
<1>5. Placing'
  <2>1. Cardinality(In({"active"}) \ {r}) <= Cardinality(In({"active"}))
    BY FiniteIn, FS_Subset, FS_RemoveElement, FS_CardinalityType
  <2>2. Cardinality(In({"active"}) \ {r}) \in Nat
    BY FiniteIn, FS_Subset, FS_CardinalityType
  <2>3. Cardinality(In({"active"})) \in Nat
    BY FiniteIn
  <2> QED BY <1>3, <2>1, <2>2, <2>3 DEF Placing
<1>6. CodesOnce' /\ PrefixesOnce'
  BY <1>1, <1>2, <1>3 DEF CodesOnce, PrefixesOnce, In, Devices
<1>7. MachinesApart'
  BY <1>1, <1>2, <1>3 DEF MachinesApart, RegistrationTypes
<1>8. NumbersLeft'
  BY <1>1, <1>2, <1>3 DEF NumbersLeft, RegistrationTypes, MachinesApart, In, Devices
<1> QED BY <1>4, <1>5, <1>6, <1>7, <1>8

-----------------------------------------------------------------------------
(* The steps of a machine. *)

\* A machine asks for a registration nobody asked for before.
LEMMA AskStep ==
  ASSUME RegistrationInv, NEW m \in Machines, NEW r \in Registrations, NEW c \in Codes, Ask(m, r, c)
  PROVE  RegistrationInv'
<1> USE DEF RegistrationInv
<1> DEFINE st == IF codes[c] = "expired" THEN "late" ELSE "sent"
<1>1. /\ device[m] = Nothing /\ asked[m] = Nothing /\ server[r].state = "unsent"
      /\ server' = [server EXCEPT ![r].state = st, ![r].code = c]
      /\ asked' = [asked EXCEPT ![m] = r]
      /\ UNCHANGED <<codes, device, counter, numbers>>
  BY DEF Ask
<1>2. st \in {"late", "sent"}
  OBVIOUS
<1>3. /\ server' \in [Registrations -> Row]
      /\ server'[r].state = st /\ server'[r].code = c
      /\ \A s \in Registrations : s # r => server'[s] = server[s]
  <2> HIDE DEF st
  <2>1. server \in [Registrations -> Row] /\ server[r] \in Row
    BY DEF RegistrationTypes
  <2> QED BY <1>1, <1>2, <2>1 DEF Row
<1>4. /\ Devices' = Devices /\ In({"placed"})' = In({"placed"})
      /\ In({"coded", "placed"})' = In({"coded", "placed"})
      /\ In({"sent", "late", "coded", "placed"})' = In({"sent", "late", "coded", "placed"}) \cup {r}
      /\ In({"active"})' = In({"active"})
      /\ r \notin Devices /\ r \notin In({"coded", "placed"}) /\ r \notin In({"placed"})
  <2> HIDE DEF st
  <2> QED BY <1>1, <1>2, <1>3 DEF In, Devices
<1> HIDE DEF st
<1>5. /\ asked' \in [Machines -> Registrations \cup {Nothing}]
      /\ \A n \in Machines : asked'[n] = IF n = m THEN r ELSE asked[n]
  BY <1>1 DEF RegistrationTypes
<1>6. \A s \in In({"coded", "placed"}) \cup Devices \cup In({"placed"}) :
        s \in Registrations /\ server'[s] = server[s]
  BY <1>3, <1>4 DEF In, Devices
<1>7. RegistrationTypes'
  BY <1>1, <1>3, <1>5 DEF RegistrationTypes
<1>8. Placing'
  BY <1>4 DEF Placing
<1>9. CodesOnce'
  BY <1>1, <1>3, <1>4, <1>6 DEF CodesOnce, In
<1>10. PrefixesOnce'
  BY <1>4, <1>6 DEF PrefixesOnce
<1>11. MachinesApart'
  <2>1. \A n \in Machines : asked[n] # r /\ device[n] # r
    BY <1>1, <1>4 DEF MachinesApart
  <2>2. \A n \in Machines : asked'[n] # Nothing => server'[asked'[n]].state # "unsent"
    BY <1>2, <1>3, <1>5 DEF MachinesApart, RegistrationTypes
  <2> QED BY <1>1, <1>4, <1>5, <2>1, <2>2 DEF MachinesApart
<1>12. NumbersLeft'
  <2>1. \A n \in Machines : device[n] # Nothing => device[n] \in Devices
    BY DEF MachinesApart
  <2>2. \A n \in Machines : asked'[n] \in Devices => asked'[n] = asked[n]
    BY <1>4, <1>5
  <2>3. \A s \in Devices : server'[s].prefix = server[s].prefix
    BY <1>6
  <2>4. \A q \in DocPrefixes : (\A s \in Devices' : server'[s].prefix # q) =>
                               \A s \in Devices : server[s].prefix # q
    BY <1>4, <2>3
  <2>5. \A n \in Machines : asked'[n] \in Devices' =>
          \A k \in 1..MaxSales : numbers'[<<server'[asked'[n]].prefix, k>>] = 0
    <3> SUFFICES ASSUME NEW n \in Machines, asked'[n] \in Devices, NEW k \in 1..MaxSales
                PROVE  numbers[<<server'[asked'[n]].prefix, k>>] = 0
      BY <1>1, <1>4
    <3>1. asked[n] \in Devices /\ server'[asked'[n]].prefix = server[asked[n]].prefix
      BY <2>2, <2>3
    <3> QED BY <3>1 DEF NumbersLeft
  <2>6. \A n \in Machines : device'[n] # Nothing =>
          \A k \in 1..MaxSales :
            counter'[n] < k => numbers'[<<server'[device'[n]].prefix, k>>] = 0
    <3> SUFFICES ASSUME NEW n \in Machines, device[n] # Nothing, NEW k \in 1..MaxSales,
                        counter[n] < k
                PROVE  numbers[<<server'[device[n]].prefix, k>>] = 0
      BY <1>1
    <3>1. server'[device[n]].prefix = server[device[n]].prefix
      BY <2>1, <2>3
    <3> QED BY <3>1 DEF NumbersLeft
  <2> QED BY <1>1, <2>4, <2>5, <2>6 DEF NumbersLeft
<1> QED BY <1>7, <1>8, <1>9, <1>10, <1>11, <1>12

\* A machine keeps its registration: the numbers of the prefix are all left.
LEMMA KeepStep ==
  ASSUME RegistrationInv, NEW m \in Machines, Keep(m)
  PROVE  RegistrationInv'
<1> USE DEF RegistrationInv
<1>1. /\ asked[m] \in Devices
      /\ device' = [device EXCEPT ![m] = asked[m]] /\ asked' = [asked EXCEPT ![m] = Nothing]
      /\ UNCHANGED <<codes, server, counter, numbers>>
  BY DEF Keep
<1>2. \A n \in Machines : /\ asked'[n] = IF n = m THEN Nothing ELSE asked[n]
                          /\ device'[n] = IF n = m THEN asked[m] ELSE device[n]
  BY <1>1 DEF RegistrationTypes
<1>3. RegistrationTypes'
  BY <1>1 DEF RegistrationTypes
<1>4. Placing' /\ CodesOnce' /\ PrefixesOnce'
  BY <1>1 DEF Placing, CodesOnce, PrefixesOnce, In, Devices
<1>5. Devices' = Devices /\ asked[m] # Nothing /\ device[m] = Nothing
  BY <1>1 DEF MachinesApart, In, Devices
<1>6. MachinesApart'
  BY <1>1, <1>2, <1>5 DEF MachinesApart
<1>7. NumbersLeft'
  <2>1. \A n \in Machines : asked'[n] \in Devices => asked[n] \in Devices /\ asked'[n] = asked[n]
    BY <1>2, <1>5 DEF In, Devices
  <2> QED BY <1>1, <1>2, <1>5, <2>1 DEF NumbersLeft
<1> QED BY <1>3, <1>4, <1>6, <1>7

\* A machine gives up: whatever the server makes of its registration, no machine is that device.
LEMMA GiveUpStep ==
  ASSUME RegistrationInv, NEW m \in Machines, GiveUp(m)
  PROVE  RegistrationInv'
<1> USE DEF RegistrationInv
<1>1. /\ asked' = [asked EXCEPT ![m] = Nothing]
      /\ UNCHANGED <<codes, server, device, counter, numbers>>
  BY DEF GiveUp
<1>2. \A n \in Machines : asked'[n] = IF n = m THEN Nothing ELSE asked[n]
  BY <1>1 DEF RegistrationTypes
<1>3. RegistrationTypes'
  BY <1>1 DEF RegistrationTypes
<1>4. Placing' /\ CodesOnce' /\ PrefixesOnce'
  BY <1>1 DEF Placing, CodesOnce, PrefixesOnce, In, Devices
<1>5. Devices' = Devices /\ Nothing \notin Devices
  BY <1>1 DEF In, Devices
<1>6. MachinesApart'
  BY <1>1, <1>2, <1>5 DEF MachinesApart
<1>7. NumbersLeft'
  <2>1. \A n \in Machines : asked'[n] \in Devices => asked[n] \in Devices /\ asked'[n] = asked[n]
    BY <1>2, <1>5
  <2> QED BY <1>1, <1>5, <2>1 DEF NumbersLeft
<1> QED BY <1>3, <1>4, <1>6, <1>7

\* A sale takes the next of the numbers its device has left.
LEMMA SellStep ==
  ASSUME RegistrationInv, NEW m \in Machines, Sell(m)
  PROVE  RegistrationInv'
<1> USE DEF RegistrationInv
<1> DEFINE p == server[device[m]].prefix
           k == counter[m] + 1
<1>1. /\ device[m] # Nothing /\ counter[m] < MaxSales
      /\ counter' = [counter EXCEPT ![m] = k]
      /\ numbers' = [numbers EXCEPT ![<<p, k>>] = @ + 1]
      /\ UNCHANGED <<codes, server, asked, device>>
  BY DEF Sell, NextNumber
<1>2. counter[m] \in 0..MaxSales /\ numbers \in [Numbers -> Nat]
  BY DEF RegistrationTypes
<1>3. k \in 1..MaxSales /\ counter[m] < k
  BY <1>1, <1>2
<1>4. device[m] \in Devices /\ p \in DocPrefixes
  BY <1>1 DEF MachinesApart, PrefixesOnce
<1>5. <<p, k>> \in Numbers
  BY <1>3, <1>4 DEF Numbers
<1>6. numbers[<<p, k>>] = 0
  BY <1>1, <1>3 DEF NumbersLeft
<1> HIDE DEF p
<1>7. /\ numbers' \in [Numbers -> Nat]
      /\ \A n \in Numbers : numbers'[n] = IF n = <<p, k>> THEN 1 ELSE numbers[n]
  BY <1>1, <1>2, <1>5, <1>6
<1>8. counter' \in [Machines -> 0..MaxSales]
      /\ \A n \in Machines : counter'[n] = IF n = m THEN k ELSE counter[n]
  BY <1>1, <1>3 DEF RegistrationTypes
<1>9. RegistrationTypes'
  BY <1>1, <1>7, <1>8 DEF RegistrationTypes
<1>10. Placing' /\ CodesOnce' /\ PrefixesOnce'
  BY <1>1 DEF Placing, CodesOnce, PrefixesOnce, In, Devices
<1>11. Devices' = Devices
  BY <1>1 DEF In, Devices
<1>12. MachinesApart'
  BY <1>1, <1>8, <1>11 DEF MachinesApart
<1>13. \A q \in DocPrefixes, j \in 1..MaxSales :
         q # p \/ j # k => <<q, j>> \in Numbers /\ numbers'[<<q, j>>] = numbers[<<q, j>>]
  BY <1>7 DEF Numbers
<1>14. NumbersLeft'
  <2>1. \A n \in Numbers : numbers'[n] <= 1
    BY <1>7 DEF NumbersLeft
  <2>2. ASSUME NEW q \in DocPrefixes, \A r \in Devices : server[r].prefix # q, NEW j \in 1..MaxSales
        PROVE  numbers'[<<q, j>>] = 0
    <3>1. q # p
      BY <1>4, <2>2 DEF p
    <3> QED BY <1>13, <2>2, <3>1 DEF NumbersLeft
  <2>3. ASSUME NEW n \in Machines, asked[n] \in Devices, NEW j \in 1..MaxSales
        PROVE  numbers'[<<server[asked[n]].prefix, j>>] = 0
    <3>1. asked[n] # device[m]
      BY <1>1, <2>3 DEF MachinesApart
    <3>2. server[asked[n]].prefix # p /\ server[asked[n]].prefix \in DocPrefixes
      BY <1>4, <2>3, <3>1 DEF PrefixesOnce, p
    <3> QED BY <1>13, <2>3, <3>2 DEF NumbersLeft
  <2>4. ASSUME NEW n \in Machines, device[n] # Nothing, NEW j \in 1..MaxSales, counter'[n] < j
        PROVE  numbers'[<<server[device[n]].prefix, j>>] = 0
    <3>1. device[n] \in Devices /\ server[device[n]].prefix \in DocPrefixes
      BY <2>4 DEF MachinesApart, PrefixesOnce
    <3>2. CASE n = m
      <4>1. j # k /\ counter[m] < j
        BY <1>2, <1>8, <2>4, <3>2
      <4> QED BY <1>13, <2>4, <3>1, <3>2, <4>1 DEF NumbersLeft
    <3>3. CASE n # m
      <4>1. device[n] # device[m]
        BY <2>4, <3>3 DEF MachinesApart
      <4>2. server[device[n]].prefix # p
        BY <1>4, <3>1, <4>1 DEF PrefixesOnce, p
      <4> QED BY <1>8, <1>13, <2>4, <3>1, <3>3, <4>2 DEF NumbersLeft
    <3> QED BY <3>2, <3>3
  <2> QED BY <1>1, <1>11, <2>1, <2>2, <2>3, <2>4 DEF NumbersLeft
<1> QED BY <1>9, <1>10, <1>12, <1>14

\* A machine is wiped: its prefix stays the revoked device's, so what it gave is not given again.
LEMMA WipeStep ==
  ASSUME RegistrationInv, NEW m \in Machines, Wipe(m)
  PROVE  RegistrationInv'
<1> USE DEF RegistrationInv
<1>1. /\ device[m] # Nothing
      /\ device' = [device EXCEPT ![m] = Nothing] /\ counter' = [counter EXCEPT ![m] = 0]
      /\ UNCHANGED <<codes, server, asked, numbers>>
  BY DEF Wipe
<1>2. \A n \in Machines : /\ counter'[n] = IF n = m THEN 0 ELSE counter[n]
                          /\ device'[n] = IF n = m THEN Nothing ELSE device[n]
  BY <1>1 DEF RegistrationTypes
<1>3. RegistrationTypes'
  BY <1>1 DEF RegistrationTypes
<1>4. Placing' /\ CodesOnce' /\ PrefixesOnce'
  BY <1>1 DEF Placing, CodesOnce, PrefixesOnce, In, Devices
<1>5. Devices' = Devices
  BY <1>1 DEF In, Devices
<1>6. MachinesApart'
  BY <1>1, <1>2, <1>5 DEF MachinesApart
<1>7. NumbersLeft'
  BY <1>1, <1>2, <1>5 DEF NumbersLeft
<1> QED BY <1>3, <1>4, <1>6, <1>7

-----------------------------------------------------------------------------
(* The steps of a registration. *)

\* A registration that takes a code, or is refused, is not a device and holds no prefix after.
LEMMA UnplacedStep ==
  ASSUME RegistrationInv, NEW r \in Registrations, TakeCode(r) \/ RefuseCode(r) \/ Refuse(r)
  PROVE  RegistrationInv'
<1> USE DEF RegistrationInv
<1> DEFINE st == server'[r].state
<1>1. /\ server[r].state \in {"sent", "late", "coded", "placed"}
      /\ \/ server' = [server EXCEPT ![r].state = "coded"]
         \/ server' = [server EXCEPT ![r].state = "refused"]
      /\ UNCHANGED <<codes, asked, device, counter, numbers>>
  BY DEF TakeCode, RefuseCode, Refuse
<1>2. /\ server' \in [Registrations -> Row] /\ st \in {"coded", "refused"}
      /\ \A s \in Registrations : /\ server'[s].code = server[s].code
                                  /\ server'[s].prefix = server[s].prefix
                                  /\ s # r => server'[s] = server[s]
  BY <1>1, StateChanged
<1>3. /\ Devices' = Devices /\ In({"active"})' = In({"active"})
      /\ In({"placed"})' \subseteq In({"placed"})
      /\ In({"coded", "placed"})' \subseteq In({"coded", "placed"}) \cup {r}
      /\ In({"sent", "late", "coded", "placed"})' \subseteq In({"sent", "late", "coded", "placed"})
      /\ r \in In({"sent", "late", "coded", "placed"}) /\ r \notin Devices
  BY <1>1, <1>2 DEF In, Devices
<1>4. RegistrationTypes'
  BY <1>1, <1>2 DEF RegistrationTypes
<1>5. Placing'
  BY <1>3 DEF Placing
<1>6. r \in In({"coded", "placed"})' =>
        /\ codes[server[r].code] # "used"
        /\ \A s \in In({"coded", "placed"}) : server[s].code = server[r].code => s = r
  <2>1. CASE TakeCode(r)
    BY <2>1 DEF TakeCode, CodeFree, Unused
  <2>2. CASE RefuseCode(r) \/ Refuse(r)
    <3>1. server'[r].state = "refused"
      BY <1>1, <2>2, StateChanged DEF RefuseCode, Refuse
    <3> QED BY <3>1 DEF In
  <2> QED BY <2>1, <2>2
<1>7. CodesOnce'
  <2>1. \A s \in In({"coded", "placed"}) \cup In({"sent", "late", "coded", "placed"}) \cup Devices :
          s \in Registrations
    BY DEF In, Devices
  <2>2. \A s \in Registrations : server'[s].code = server[s].code
    BY <1>2
  <2>3. \A s \in In({"coded", "placed"})' : codes'[server'[s].code] # "used"
    BY <1>1, <1>3, <1>6, <2>1, <2>2 DEF CodesOnce
  <2>4. \A s, t \in In({"coded", "placed"})' : server'[s].code = server'[t].code => s = t
    BY <1>3, <1>6, <2>1, <2>2 DEF CodesOnce
  <2> QED BY <1>1, <1>3, <2>1, <2>2, <2>3, <2>4 DEF CodesOnce
<1>8. PrefixesOnce'
  BY <1>2, <1>3 DEF PrefixesOnce, In, Devices
<1>9. MachinesApart'
  BY <1>1, <1>2, <1>3 DEF MachinesApart, RegistrationTypes
<1>10. NumbersLeft'
  BY <1>1, <1>2, <1>3, SMTT(30) DEF NumbersLeft, RegistrationTypes, MachinesApart, In, Devices
<1> QED BY <1>4, <1>5, <1>7, <1>8, <1>9, <1>10

\* A registration within the limit takes a prefix that no device has or had.
LEMMA PlaceStep ==
  ASSUME RegistrationInv, NEW r \in Registrations, Place(r)
  PROVE  RegistrationInv'
<1> USE DEF RegistrationInv
<1>1. PICK p \in FreePrefixes :
        server' = [server EXCEPT ![r].state = "placed", ![r].prefix = p]
  BY DEF Place
<1>2. /\ server[r].state = "coded" /\ In({"placed"}) = {}
      /\ Cardinality(In({"active"})) < Limit
      /\ UNCHANGED <<codes, asked, device, counter, numbers>>
  BY DEF Place, LockFree, Allowed
<1>3. p \in DocPrefixes /\ \A s \in Devices : server[s].prefix # p
  BY DEF FreePrefixes
<1>4. /\ server' \in [Registrations -> Row]
      /\ server'[r].state = "placed" /\ server'[r].prefix = p
      /\ server'[r].code = server[r].code
      /\ \A s \in Registrations : s # r => server'[s] = server[s]
  <2>1. server \in [Registrations -> Row] /\ server[r] \in Row
    BY DEF RegistrationTypes
  <2> QED BY <1>1, <1>3, <2>1 DEF Row
<1>5. /\ Devices' = Devices /\ In({"active"})' = In({"active"})
      /\ In({"placed"})' = {r} /\ r \notin Devices
      /\ In({"coded", "placed"})' = In({"coded", "placed"})
      /\ In({"sent", "late", "coded", "placed"})' = In({"sent", "late", "coded", "placed"})
  BY <1>2, <1>4 DEF In, Devices
<1>6. \A s \in Devices : s \in Registrations /\ server'[s] = server[s]
  BY <1>4, <1>5 DEF In, Devices
<1>7. \A s \in Registrations : server'[s].code = server[s].code
  BY <1>4
<1>8. RegistrationTypes'
  BY <1>2, <1>4 DEF RegistrationTypes
<1>9. Placing'
  BY <1>2, <1>5 DEF Placing
<1>10. CodesOnce'
  BY <1>2, <1>5, <1>7 DEF CodesOnce, In, Devices
<1>11. PrefixesOnce'
  BY <1>3, <1>4, <1>5, <1>6 DEF PrefixesOnce
<1>12. MachinesApart'
  BY <1>2, <1>4, <1>5 DEF MachinesApart, RegistrationTypes
<1>13. NumbersLeft'
  BY <1>2, <1>5, <1>6 DEF NumbersLeft, MachinesApart
<1> QED BY <1>8, <1>9, <1>10, <1>11, <1>12, <1>13

\* The device's row: its code is used up, and its prefix has all its numbers left.
LEMMA RegisterStep ==
  ASSUME RegistrationInv, NEW r \in Registrations, Register(r)
  PROVE  RegistrationInv'
<1> USE DEF RegistrationInv
<1> DEFINE c == server[r].code
           p == server[r].prefix
<1>1. /\ server[r].state = "placed" /\ server' = [server EXCEPT ![r].state = "active"]
      /\ codes' = [codes EXCEPT ![c] = "used"]
      /\ UNCHANGED <<asked, device, counter, numbers>>
  BY DEF Register
<1>2. /\ server' \in [Registrations -> Row] /\ server'[r].state = "active"
      /\ \A s \in Registrations : /\ server'[s].code = server[s].code
                                  /\ server'[s].prefix = server[s].prefix
                                  /\ s # r => server'[s] = server[s]
  BY <1>1, StateChanged
<1>3. /\ Devices' = Devices \cup {r} /\ r \notin Devices
      /\ In({"active"})' = In({"active"}) \cup {r} /\ r \notin In({"active"})
      /\ r \in In({"placed"}) /\ r \in In({"coded", "placed"})
      /\ In({"placed"})' = In({"placed"}) \ {r}
      /\ In({"coded", "placed"})' = In({"coded", "placed"}) \ {r}
      /\ In({"sent", "late", "coded", "placed"})' =
           In({"sent", "late", "coded", "placed"}) \ {r}
      /\ r \in In({"sent", "late", "coded", "placed"})
  BY <1>1, <1>2 DEF In, Devices
<1>4. In({"placed"}) = {r}
  BY <1>3 DEF Placing
<1>5. /\ c \in Codes /\ codes[c] # "used"
      /\ \A s \in In({"coded", "placed"}) : server[s].code = c => s = r
      /\ \A s \in Devices : server[s].code # c
  BY <1>3 DEF CodesOnce
<1>6. /\ codes' \in [Codes -> {"unissued", "live", "used", "expired"}]
      /\ \A d \in Codes : codes'[d] = IF d = c THEN "used" ELSE codes[d]
  BY <1>1, <1>5 DEF RegistrationTypes
<1>7. /\ p \in DocPrefixes /\ \A s \in Devices : server[s].prefix # p
  BY <1>3 DEF PrefixesOnce
<1>8. \A s \in In({"coded", "placed"}) \cup Devices : s \in Registrations
  BY DEF In, Devices
<1>9. RegistrationTypes'
  BY <1>1, <1>2, <1>6 DEF RegistrationTypes
<1>10. Placing'
  <2>1. Cardinality(In({"active"}) \cup {r}) = Cardinality(In({"active"})) + 1
    BY <1>3, FiniteIn, FS_AddElement
  <2>2. Cardinality(In({"active"})) < Limit /\ Cardinality(In({"active"})) \in Nat
    BY <1>3, FiniteIn DEF Placing
  <2>3. Cardinality(In({"active"}))' <= Limit
    <3>1. Cardinality(In({"active"})') = Cardinality(In({"active"})) + 1
      BY <1>3, <2>1
    <3> QED BY <2>2, <3>1
  <2>4. In({"placed"})' = {}
    BY <1>3, <1>4
  <2> QED BY <2>3, <2>4 DEF Placing
<1>11. CodesOnce'
  <2>1. \A s \in In({"sent", "late", "coded", "placed"})' \cup Devices' : server'[s].code \in Codes
    BY <1>2, <1>3, <1>5 DEF CodesOnce, In, Devices
  <2>2. \A s \in Devices' : codes'[server'[s].code] = "used"
    BY <1>2, <1>3, <1>5, <1>6, <1>8 DEF CodesOnce
  <2>3. \A s \in In({"coded", "placed"})' : codes'[server'[s].code] # "used"
    <3> SUFFICES ASSUME NEW s \in In({"coded", "placed"}), s # r
                PROVE  codes'[server'[s].code] # "used"
      BY <1>3
    <3>1. server[s].code # c /\ server[s].code \in Codes
      BY <1>5 DEF CodesOnce, In
    <3> QED BY <1>2, <1>6, <1>8, <3>1 DEF CodesOnce
  <2>4. \A s, t \in In({"coded", "placed"})' : server'[s].code = server'[t].code => s = t
    BY <1>2, <1>3, <1>8 DEF CodesOnce
  <2>5. \A s, t \in Devices' : server'[s].code = server'[t].code => s = t
    BY <1>2, <1>3, <1>5, <1>8 DEF CodesOnce
  <2> QED BY <2>1, <2>2, <2>3, <2>4, <2>5 DEF CodesOnce
<1>12. PrefixesOnce'
  BY <1>2, <1>3, <1>4, <1>7, <1>8 DEF PrefixesOnce
<1>13. MachinesApart'
  BY <1>1, <1>2, <1>3 DEF MachinesApart, RegistrationTypes
<1>14. NumbersLeft'
  <2>1. \A k \in 1..MaxSales : numbers[<<p, k>>] = 0
    BY <1>7 DEF NumbersLeft
  <2>2. \A q \in DocPrefixes : (\A s \in Devices' : server'[s].prefix # q) =>
                              \A s \in Devices : server[s].prefix # q
    BY <1>2, <1>3, <1>8
  <2>3. ASSUME NEW m \in Machines, asked[m] \in Devices'
        PROVE  \A k \in 1..MaxSales : numbers[<<server'[asked[m]].prefix, k>>] = 0
    <3>1. CASE asked[m] = r
      BY <1>2, <2>1, <3>1
    <3>2. CASE asked[m] \in Devices
      BY <1>2, <1>8, <3>2 DEF NumbersLeft
    <3> QED BY <1>3, <2>3, <3>1, <3>2
  <2>4. \A m \in Machines : device[m] # Nothing =>
          server'[device[m]].prefix = server[device[m]].prefix
    BY <1>2, <1>8 DEF MachinesApart
  <2>5. \A n \in Numbers : numbers'[n] <= 1
    BY <1>1 DEF NumbersLeft
  <2>6. \A q \in DocPrefixes : (\A s \in Devices' : server'[s].prefix # q) =>
          \A k \in 1..MaxSales : numbers'[<<q, k>>] = 0
    BY <1>1, <2>2 DEF NumbersLeft
  <2>7. \A m \in Machines : device'[m] # Nothing =>
          \A k \in 1..MaxSales :
            counter'[m] < k => numbers'[<<server'[device'[m]].prefix, k>>] = 0
    BY <1>1, <2>4 DEF NumbersLeft
  <2> QED BY <1>1, <2>3, <2>5, <2>6, <2>7 DEF NumbersLeft
<1> QED BY <1>9, <1>10, <1>11, <1>12, <1>13, <1>14

-----------------------------------------------------------------------------
(* The theorems. *)

\* The invariant is inductive.
LEMMA RegistrationInvariance == Spec => []RegistrationInv
<1>1. ASSUME RegistrationInv, Next PROVE RegistrationInv'
  <2>1. CASE \E c \in Codes : IssueCode(c) \/ CodeExpires(c)
    BY <1>1, <2>1, CodeStep
  <2>2. CASE \E m \in Machines : \E r \in Registrations, c \in Codes : Ask(m, r, c)
    BY <1>1, <2>2, AskStep
  <2>3. CASE \E m \in Machines : Keep(m) \/ GiveUp(m) \/ Sell(m) \/ Wipe(m)
    BY <1>1, <2>3, KeepStep, GiveUpStep, SellStep, WipeStep
  <2>4. CASE \E r \in Registrations :
               TakeCode(r) \/ RefuseCode(r) \/ Place(r) \/ Register(r) \/ Refuse(r) \/ Revoke(r)
    BY <1>1, <2>4, UnplacedStep, PlaceStep, RegisterStep, RevokeStep
  <2> QED BY <1>1, <2>1, <2>2, <2>3, <2>4 DEF Next
<1>2. ASSUME RegistrationInv, UNCHANGED vars PROVE RegistrationInv'
  BY <1>2 DEF vars, RegistrationInv, RegistrationTypes, Placing, CodesOnce, PrefixesOnce,
        MachinesApart, NumbersLeft, In,
       Devices
<1> QED BY RegistrationInitInv, <1>1, <1>2, PTL DEF Spec

\* The types of the state, and that one registration at most is between the tenant's lock and its
\* commit (devices.ts, pg_advisory_xact_lock).
THEOREM RegistrationTypesCorrect == Spec => []TypeOK
<1>1. RegistrationInv => TypeOK
  <2> SUFFICES ASSUME RegistrationInv PROVE Cardinality(In({"placed"})) <= 1
    BY DEF RegistrationInv, RegistrationTypes, TypeOK
  <2>1. CASE In({"placed"}) = {}
    BY <2>1, FS_EmptySet
  <2>2. CASE In({"placed"}) # {}
    <3>1. PICK r \in In({"placed"}) : TRUE
      BY <2>2
    <3>2. In({"placed"}) = {r}
      BY <3>1 DEF RegistrationInv, Placing
    <3>3. Cardinality({r}) = 1
      BY FS_Singleton
    <3> QED BY <3>2, <3>3
  <2> QED BY <2>1, <2>2
<1> QED BY <1>1, RegistrationInvariance, PTL

\* No two documents of the store have one number (devices.ts, freePrefix; local-sales.ts).
THEOREM NumbersAreUnique == Spec => []NumbersUnique
<1>1. RegistrationInv => NumbersUnique
  BY DEF RegistrationInv, NumbersLeft, NumbersUnique
<1> QED BY <1>1, RegistrationInvariance, PTL

\* The devices are within the license's limit, a code makes one at most, and no two machines are
\* one device (devices.ts, registerDevice).
THEOREM RegistrationsWithinLimit == Spec => []RegistrationsAllowed
<1>1. RegistrationInv => RegistrationsAllowed
  BY DEF RegistrationInv, Placing, CodesOnce, MachinesApart, RegistrationsAllowed
<1> QED BY <1>1, RegistrationInvariance, PTL
=============================================================================
