------------------------- MODULE DeviceLicenseProofs -------------------------
(***************************************************************************)
(* Safety of DeviceLicense for any licenses, limits, offset, settings of   *)
(* the clock and bounds.                                                   *)
(***************************************************************************)
EXTENDS DeviceLicense, TLAPS, FiniteSetTheorems, SequenceTheorems

-----------------------------------------------------------------------------
(* Arithmetic. *)

\* Division, and products over a sum.
LEMMA DivisionIs ==
  ASSUME NEW d \in Nat, d > 0, NEW t \in Nat
  PROVE  t \div d \in Nat /\ d * (t \div d) <= t /\ t < d * (t \div d) + d
<1>1. t \div d \in Int /\ t % d \in 0..(d - 1)
  OBVIOUS
<1>2. t = d * (t \div d) + (t % d)
  OBVIOUS
<1>3. t \div d >= 0
  OBVIOUS
<1> QED BY <1>1, <1>2, <1>3

LEMMA ProductOfSum ==
  ASSUME NEW d \in Nat, NEW a \in Nat, NEW b \in Nat
  PROVE  d * (a + b) = d * a + d * b /\ d * a \in Nat /\ d * b \in Nat /\ d * 1 = d
<1>1. d * (a + b) = d * a + d * b
  OBVIOUS
<1>2. d * a \in Nat
  OBVIOUS
<1>3. d * b \in Nat
  OBVIOUS
<1> QED BY <1>1, <1>2, <1>3

LEMMA ProductAtLeast ==
  ASSUME NEW d \in Nat, d > 0, NEW a \in Nat
  PROVE  a <= d * a
<1>1. (d - 1) * a \in Nat /\ d * a = (d - 1) * a + a
  OBVIOUS
<1> QED BY <1>1

\* The constants that are numbers.
LEMMA Constants ==
  /\ Tolerance \in Nat /\ SkewLimit \in Nat
  /\ DayLength \in Nat /\ DayLength > 0
  /\ MarkStep \in Nat /\ MarkStep > 0 /\ MarkStep <= Tolerance
  /\ MaxOffline \in Nat /\ MaxTime \in Nat /\ MaxLocal \in Nat /\ MaxSets \in Nat
  BY DeviceLicenseAssumption

USE Constants

-----------------------------------------------------------------------------
(* The inductive invariant. *)

\* What the clocks did since the last contact: the server's ran on from its time and the lag; the
\* local one as fast, or as far ahead as it was set.
Clocks ==
  /\ ~since.moved => ~since.back
  /\ guard # None /\ ~since.back => guard.mark <= local /\ ~guard.behind
  /\ InContact =>
       /\ ~since.moved => local - guard.localAt = real - (guard.server + since.lag)
       /\ ~since.back => local - guard.localAt >= real - (guard.server + since.lag)

\* The device's time on the mark as written is less than a step behind the latest one read.
Peak ==
  /\ guard = None => since.peak = 0
  /\ guard # None => TimeAt(guard.mark) > since.peak - MarkStep

\* Bundles, and the licenses in them, come in the order they are issued.
Order ==
  /\ answer # None => answer.time <= real
  /\ answer # None /\ answer.bundle # None =>
       answer.bundle.license <= installed /\ answer.bundle.issued <= real
  /\ bundle # None => bundle.license <= installed /\ bundle.issued <= real
  /\ bundle # None /\ answer # None /\ answer.bundle # None =>
       bundle.license <= answer.bundle.license /\ bundle.issued <= answer.bundle.issued
  /\ reader # None /\ reader.bundle # None =>
       /\ bundle # None
       /\ reader.bundle.license <= bundle.license /\ reader.bundle.issued <= bundle.issued
  /\ day # None => bundle # None /\ day.license <= bundle.license

\* The state held is the one of a license at the time it was judged.
Judged == day # None => \E l \in 1..day.license : day.state = StateOf(l, judged)

\* A day that was evaluated since the last contact is of no later date, and if it was not found
\* offline too long, it is not by more than the rest of it.
Offline ==
  InContact /\ ~since.back /\ since.evaluated =>
    /\ day # None /\ day.date <= BusinessDate(DeviceTime)
    /\ ~day.offline =>
         \A t \in Nat : BusinessDate(t) = day.date => t - LastContact(bundle) < MaxOffline + DayLength

IInv == TypeOK /\ Clocks /\ Peak /\ Order /\ Judged /\ Offline

-----------------------------------------------------------------------------
(* Business days, and the states of a license. *)

\* A day has its length, and a later time has no earlier date.
LEMMA DateIs ==
  ASSUME NEW t \in Nat
  PROVE  /\ BusinessDate(t) \in Nat
         /\ DayLength * BusinessDate(t) <= t /\ t < DayLength * BusinessDate(t) + DayLength
<1>1. DayLength \in Nat /\ DayLength > 0
  OBVIOUS
<1> QED BY <1>1, DivisionIs DEF BusinessDate

LEMMA DatesGrow ==
  ASSUME NEW t \in Nat, NEW u \in Nat
  PROVE  /\ t <= u => BusinessDate(t) <= BusinessDate(u)
         /\ BusinessDate(u) <= BusinessDate(t) => u < t + DayLength
         /\ BusinessDate(t) <= t
<1> DEFINE x == BusinessDate(t)
           y == BusinessDate(u)
           dx == DayLength * x
           dy == DayLength * y
<1>1. /\ x \in Nat /\ y \in Nat
      /\ dx <= t /\ t < dx + DayLength /\ dy <= u /\ u < dy + DayLength
  BY DateIs
<1>2. dx \in Nat /\ dy \in Nat /\ x <= dx
  <2> HIDE DEF x, y
  <2>1. dx \in Nat /\ dy \in Nat
    BY <1>1, ProductOfSum
  <2>2. x <= dx
    BY <1>1, ProductAtLeast
  <2> QED BY <2>1, <2>2
\* The earlier of two dates is a day shorter, at least.
<1>3. ASSUME NEW a \in Nat, NEW b \in Nat, a < b
      PROVE  DayLength * a + DayLength <= DayLength * b
  <2>1. PICK k \in Nat : b = (a + 1) + k
    <3>1. b - (a + 1) \in Nat /\ b = (a + 1) + (b - (a + 1))
      BY <1>3
    <3> QED BY <3>1
  <2>2. /\ DayLength * b = DayLength * (a + 1) + DayLength * k
        /\ DayLength * k \in Nat
    BY <2>1, ProductOfSum
  <2>3. DayLength * (a + 1) = DayLength * a + DayLength /\ DayLength * a \in Nat
    BY ProductOfSum
  <2> QED BY <2>2, <2>3
<1>4. y < x => dy + DayLength <= dx
  <2> HIDE DEF x, y
  <2> QED BY <1>1, <1>3
<1> HIDE DEF x, y, dx, dy
<1>5. t <= u => x <= y
  BY <1>1, <1>2, <1>4
<1>6. y <= x => u < t + DayLength
  <2>1. CASE y < x
    BY <1>1, <1>2, <1>4, <2>1
  <2>2. CASE y = x
    <3>1. dy = dx
      BY <2>2 DEF dx, dy
    <3> QED BY <1>1, <1>2, <3>1
  <2> QED BY <1>1, <2>1, <2>2
<1>7. x <= t
  BY <1>1, <1>2
<1> QED BY <1>5, <1>6, <1>7 DEF x, y

\* A license that has come to no more than its third state is not read-only yet.
LEMMA StateIs ==
  ASSUME NEW l \in Licenses, NEW t \in Nat
  PROVE  /\ StateOf(l, t) \in States
         /\ StateOf(l, t) < ReadOnly => t < Starts[l][ReadOnly]
<1> DEFINE S == {i \in 1..4 : t >= Starts[l][i]}
<1>1. IsFiniteSet(1..4) /\ Cardinality(1..4) = 4
  <2> DEFINE a == 1
             b == 4
  <2>1. a \in Int /\ b \in Int /\ a <= b /\ b - a + 1 = 4
    OBVIOUS
  <2>2. IsFiniteSet(a..b) /\ Cardinality(a..b) = IF a > b THEN 0 ELSE b - a + 1
    <3> HIDE DEF a, b
    <3> QED BY <2>1, FS_Interval
  <2> QED BY <2>1, <2>2
<1>2. IsFiniteSet(1..3) /\ Cardinality(1..3) = 3
  <2> DEFINE a == 1
             b == 3
  <2>1. a \in Int /\ b \in Int /\ a <= b /\ b - a + 1 = 3
    OBVIOUS
  <2>2. IsFiniteSet(a..b) /\ Cardinality(a..b) = IF a > b THEN 0 ELSE b - a + 1
    <3> HIDE DEF a, b
    <3> QED BY <2>1, FS_Interval
  <2> QED BY <2>1, <2>2
<1>3. S \subseteq 1..4
  OBVIOUS
<1> HIDE DEF S
<1>4. IsFiniteSet(S) /\ Cardinality(S) <= Cardinality(1..4)
  BY <1>1, <1>3, FS_Subset
<1>5. Cardinality(S) \in Nat
  BY <1>4, FS_CardinalityType
<1>6. Starts[l] \in [1..4 -> Nat]
  BY DeviceLicenseAssumption DEF Licenses
<1>7. ASSUME t >= Starts[l][3]
      PROVE  Cardinality(S) >= 3
  <2>1. ASSUME NEW i \in 1..3
        PROVE  i \in S
    <3>1. i \in 1..4 /\ 3 \in 1..4 /\ i <= 3
      OBVIOUS
    <3>2. Starts[l][i] <= Starts[l][3]
      BY DeviceLicenseAssumption, <3>1 DEF Licenses
    <3>3. Starts[l][i] \in Nat /\ Starts[l][3] \in Nat
      BY <1>6, <3>1
    <3>4. t >= Starts[l][i]
      <4> DEFINE x == Starts[l][i]
                 y == Starts[l][3]
      <4>1. x <= y /\ x \in Nat /\ y \in Nat /\ t >= y
        BY <1>7, <3>2, <3>3
      <4> HIDE DEF x, y
      <4>2. t >= x
        BY <4>1
      <4> QED BY <4>2 DEF x
    <3> QED BY <3>1, <3>4 DEF S
  <2>2. 1..3 \subseteq S
    BY <2>1
  <2>3. Cardinality(1..3) <= Cardinality(S)
    BY <1>4, <2>2, FS_Subset
  <2> QED BY <1>2, <1>5, <2>3
<1>8. Starts[l][3] \in Nat
  BY <1>6
<1>9. StateOf(l, t) = Cardinality(S)
  BY DEF StateOf, S
<1>10. Cardinality(S) \in 0..4
  <2> DEFINE c == Cardinality(S)
  <2>1. c \in Nat /\ c <= 4
    BY <1>1, <1>4, <1>5
  <2> HIDE DEF c
  <2>2. c \in 0..4
    BY <2>1
  <2> QED BY <2>2 DEF c
<1>11. Cardinality(S) < 3 => t < Starts[l][3]
  <2> DEFINE y == Starts[l][3]
             c == Cardinality(S)
  <2>1. y \in Nat /\ c \in Nat /\ (t >= y => c >= 3)
    BY <1>5, <1>7, <1>8
  <2> HIDE DEF y, c
  <2>2. c < 3 => t < y
    BY <2>1
  <2> QED BY <2>2 DEF y, c
<1> QED BY <1>9, <1>10, <1>11 DEF States, ReadOnly
-----------------------------------------------------------------------------
(* The clock guard. *)

\* A guard there is, is of its type; and None is none.
LEMMA GuardIs ==
  ASSUME TypeOK, guard # None
  PROVE  /\ guard \in Guard
         /\ guard.mark \in Nat /\ guard.mark <= MaxLocal
         /\ guard.server \in Int /\ guard.server >= -1 /\ guard.server <= MaxTime
         /\ guard.localAt \in Int /\ guard.localAt >= -1 /\ guard.localAt <= guard.mark
         /\ guard.behind \in BOOLEAN
         /\ guard.server = -1 <=> guard.localAt = -1
<1>1. guard \in Guard
  BY DEF TypeOK
<1>2. /\ guard.mark \in 0..MaxLocal
      /\ guard.server \in (0..MaxTime) \cup {-1}
      /\ guard.localAt \in (0..MaxLocal) \cup {-1}
      /\ guard.behind \in BOOLEAN
  BY <1>1 DEF Guard, Times, LocalTimes
<1>3. /\ guard.server = -1 <=> guard.localAt = -1
      /\ guard.mark >= guard.localAt
  BY DEF TypeOK
<1>4. guard.mark \in Nat /\ guard.mark <= MaxLocal
  BY <1>2
<1>5. guard.server \in Int /\ guard.server >= -1 /\ guard.server <= MaxTime
  BY <1>2
<1>6. guard.localAt \in Int /\ guard.localAt >= -1
  BY <1>2
<1>7. guard.localAt <= guard.mark
  <2> DEFINE m == guard.mark
             a == guard.localAt
  <2>1. m \in Nat /\ a \in Int /\ m >= a
    BY <1>3, <1>4, <1>6
  <2> HIDE DEF m, a
  <2>2. a <= m
    BY <2>1
  <2> QED BY <2>2 DEF m, a
<1> QED BY <1>1, <1>2, <1>3, <1>4, <1>5, <1>6, <1>7

LEMMA SomeGuard ==
  ASSUME NEW g \in Guard
  PROVE  g # None
<1>1. "mark" \in DOMAIN g
  BY DEF Guard
<1>2. DOMAIN None = {"none"} /\ "mark" # "none"
  BY DEF None
<1> QED BY <1>1, <1>2

\* The clocks, as numbers.
LEMMA ClocksAre ==
  ASSUME TypeOK
  PROVE  /\ real \in Nat /\ real <= MaxTime
         /\ local \in Nat /\ local <= MaxLocal
         /\ MaxTime \in Nat /\ MaxLocal \in Nat /\ MarkStep \in Nat /\ MarkStep > 0
         /\ Tolerance \in Nat
  BY DEF TypeOK, Times, LocalTimes

\* The device's time on a mark not before the one written: it grows with the mark, as fast.
LEMMA TimeGrows ==
  ASSUME TypeOK, NEW m \in LocalTimes, NEW n \in LocalTimes,
         guard # None => guard.mark <= m, m <= n
  PROVE  /\ TimeAt(m) \in DeviceTimes /\ TimeAt(n) \in DeviceTimes
         /\ TimeAt(m) <= TimeAt(n) /\ TimeAt(n) - TimeAt(m) <= n - m
         /\ InContact => TimeAt(m) = guard.server + (m - guard.localAt)
<1>1. m \in 0..MaxLocal /\ n \in 0..MaxLocal /\ MaxLocal \in Nat /\ MaxTime \in Nat
  BY DEF LocalTimes
<1>2. CASE guard = None \/ guard.server = -1
  <2>1. TimeAt(m) = m /\ TimeAt(n) = n /\ ~InContact
    BY <1>2 DEF TimeAt, InContact
  <2> QED BY <1>1, <2>1 DEF DeviceTimes
<1>3. CASE ~(guard = None \/ guard.server = -1)
  <2> DEFINE gs == guard.server
             ga == guard.localAt
  <2>1. gs \in 0..MaxTime /\ ga \in 0..MaxLocal /\ ga <= m
    <3> DEFINE gm == guard.mark
    <3>1. /\ gm \in Nat /\ gm <= MaxLocal /\ gm <= m
          /\ gs \in Int /\ gs >= -1 /\ gs <= MaxTime /\ gs # -1
          /\ ga \in Int /\ ga >= -1 /\ ga <= gm /\ ga # -1
      BY <1>3, GuardIs
    <3> HIDE DEF gs, ga, gm
    <3> QED BY <1>1, <3>1
  <2>2. TimeAt(m) = gs + (IF m > ga THEN m - ga ELSE 0)
    BY <1>3 DEF TimeAt
  <2>3. TimeAt(n) = gs + (IF n > ga THEN n - ga ELSE 0)
    BY <1>3 DEF TimeAt
  <2> HIDE DEF gs, ga
  <2>4. TimeAt(m) = gs + (m - ga) /\ TimeAt(n) = gs + (n - ga)
    BY <1>1, <2>1, <2>2, <2>3
  <2>5. /\ gs + (m - ga) \in 0..(MaxTime + MaxLocal) /\ gs + (n - ga) \in 0..(MaxTime + MaxLocal)
        /\ gs + (m - ga) <= gs + (n - ga)
        /\ (gs + (n - ga)) - (gs + (m - ga)) <= n - m
    BY <1>1, <2>1
  <2> QED BY <2>4, <2>5 DEF DeviceTimes, gs, ga
<1> QED BY <1>2, <1>3

LEMMA MarkIs ==
  ASSUME TypeOK
  PROVE  /\ MarkOf \in LocalTimes /\ local <= MarkOf
         /\ guard # None => guard.mark <= MarkOf
         /\ guard = None \/ guard.mark <= local => MarkOf = local
<1>1. local \in 0..MaxLocal
  BY DEF TypeOK, LocalTimes
<1>2. CASE guard = None
  BY <1>1, <1>2 DEF MarkOf, LocalTimes
<1>3. CASE guard # None
  <2> DEFINE gm == guard.mark
  <2>1. gm \in Nat /\ gm <= MaxLocal
    BY <1>3, GuardIs
  <2>2. MarkOf = IF local > gm THEN local ELSE gm
    BY <1>3 DEF MarkOf
  <2> HIDE DEF gm
  <2>3. MarkOf \in 0..MaxLocal /\ local <= MarkOf /\ gm <= MarkOf /\ (gm <= local => MarkOf = local)
    BY <1>1, <2>1, <2>2
  <2> QED BY <1>3, <2>3 DEF LocalTimes, gm
<1> QED BY <1>2, <1>3

LEMMA TimeIs ==
  ASSUME TypeOK
  PROVE  DeviceTime \in DeviceTimes /\ DeviceTime \in Nat
<1>1. DeviceTime \in DeviceTimes
  <2> DEFINE m == MarkOf
  <2>1. m \in LocalTimes /\ (guard # None => guard.mark <= m)
    BY MarkIs
  <2> HIDE DEF m
  <2>2. m <= m
    BY <2>1, ClocksAre DEF LocalTimes
  <2>3. TimeAt(m) \in DeviceTimes
    BY <2>1, <2>2, TimeGrows
  <2> QED BY <2>3 DEF DeviceTime, m
<1> QED BY <1>1 DEF DeviceTimes

\* What a reading writes is a guard, that holds the contact it held.
LEMMA ObservedIs ==
  ASSUME TypeOK
  PROVE  /\ Observed \in Guard /\ Observed # None
         /\ guard = None =>
              Observed = [mark |-> local, server |-> -1, localAt |-> -1, behind |-> FALSE]
         /\ guard # None =>
              /\ Observed.server = guard.server /\ Observed.localAt = guard.localAt
              /\ Observed.behind = (guard.behind \/ MovedBack)
              /\ Observed.mark = IF ~MovedBack /\ local >= guard.mark + MarkStep
                                 THEN local ELSE guard.mark
<1>1. local \in LocalTimes
  BY DEF TypeOK
<1>2. CASE guard = None
  <2> DEFINE new == [mark |-> local, server |-> -1, localAt |-> -1, behind |-> FALSE]
  <2>1. Observed = new
    BY <1>2 DEF Observed
  <2>2. new \in Guard
    BY <1>1 DEF Guard
  <2> QED BY <1>2, <2>1, <2>2, SomeGuard
<1>3. CASE guard # None
  <2>1. guard \in Guard /\ guard.behind \in BOOLEAN
    BY <1>3, GuardIs
  <2>2. CASE MovedBack
    <3>1. Observed = [guard EXCEPT !.behind = TRUE]
      BY <1>3, <2>2 DEF Observed
    <3>2. [guard EXCEPT !.behind = TRUE] \in Guard
      BY <2>1 DEF Guard
    <3>3. /\ Observed.server = guard.server /\ Observed.localAt = guard.localAt
          /\ Observed.behind = TRUE /\ Observed.mark = guard.mark
      BY <2>1, <3>1 DEF Guard
    <3> QED BY <1>3, <2>1, <2>2, <3>1, <3>2, <3>3, SomeGuard
  <2>3. CASE ~MovedBack /\ local >= guard.mark + MarkStep
    <3>1. Observed = [guard EXCEPT !.mark = local]
      BY <1>3, <2>3 DEF Observed
    <3>2. [guard EXCEPT !.mark = local] \in Guard
      BY <1>1, <2>1 DEF Guard
    <3>3. /\ Observed.server = guard.server /\ Observed.localAt = guard.localAt
          /\ Observed.behind = guard.behind /\ Observed.mark = local
      BY <2>1, <3>1 DEF Guard
    <3> QED BY <1>3, <2>1, <2>3, <3>1, <3>2, <3>3, SomeGuard
  <2>4. CASE ~MovedBack /\ ~(local >= guard.mark + MarkStep)
    <3>1. Observed = guard
      BY <1>3, <2>4 DEF Observed
    <3> QED BY <1>3, <2>1, <2>4, <3>1, SomeGuard
  <2> QED BY <2>2, <2>3, <2>4
<1> QED BY <1>2, <1>3
-----------------------------------------------------------------------------
(* The license of the day. *)

LEMMA SomeOther ==
  /\ \A d \in Day : d # None
  /\ \A b \in Bundle : b # None
  /\ \A a \in Answer : a # None
  /\ \A r \in Reader : r # None
<1>1. DOMAIN None = {"none"}
  BY DEF None
<1>2. \A d \in Day : "date" \in DOMAIN d
  BY DEF Day
<1>3. \A b \in Bundle : "issued" \in DOMAIN b
  BY DEF Bundle
<1>4. \A a \in Answer : "time" \in DOMAIN a
  BY DEF Answer
<1>5. \A r \in Reader : "opening" \in DOMAIN r
  BY DEF Reader
<1>6. "date" # "none" /\ "issued" # "none" /\ "time" # "none" /\ "opening" # "none"
  OBVIOUS
<1> QED BY <1>1, <1>2, <1>3, <1>4, <1>5, <1>6

LEMMA LastContactIs ==
  ASSUME TypeOK, NEW b \in Bundle
  PROVE  /\ LastContact(b) \in Nat /\ LastContact(b) <= MaxTime
         /\ b.issued \in Nat /\ b.license \in Licenses
         /\ b.issued <= LastContact(b) /\ (guard # None => guard.server <= LastContact(b))
<1>1. b.issued \in 0..MaxTime /\ b.license \in Licenses
  BY DEF Bundle, Times
<1>2. CASE guard = None
  BY <1>1, <1>2 DEF LastContact
<1>3. CASE guard # None
  <2> DEFINE gs == guard.server
             bi == b.issued
  <2>1. gs \in Int /\ gs <= MaxTime /\ bi \in 0..MaxTime /\ MaxTime \in Nat
    BY <1>1, <1>3, GuardIs, ClocksAre
  <2>2. LastContact(b) = IF gs > bi THEN gs ELSE bi
    BY <1>3 DEF LastContact
  <2> HIDE DEF gs, bi
  <2>3. LastContact(b) \in Nat /\ LastContact(b) <= MaxTime /\ bi <= LastContact(b) /\ gs <= LastContact(b)
    BY <2>1, <2>2
  <2> QED BY <1>1, <2>1, <2>3 DEF gs, bi
<1> QED BY <1>2, <1>3

LEMMA EvaluatedIs ==
  ASSUME TypeOK, NEW b \in Bundle
  PROVE  /\ Evaluated(b) \in Day
         /\ Evaluated(b).date = BusinessDate(DeviceTime)
         /\ Evaluated(b).state = StateOf(b.license, DeviceTime)
         /\ Evaluated(b).license = b.license
         /\ Evaluated(b).offline = (DeviceTime - LastContact(b) > MaxOffline)
<1>1. b.license \in Licenses
  BY LastContactIs
<1>2. StateOf(b.license, DeviceTime) \in States
  BY <1>1, TimeIs, StateIs
<1>3. BusinessDate(DeviceTime) \in 0..(MaxTime + MaxLocal)
  <2> DEFINE t == DeviceTime
             x == BusinessDate(t)
  <2>1. t \in Nat /\ t <= MaxTime + MaxLocal
    BY TimeIs, ClocksAre DEF DeviceTimes
  <2> HIDE DEF t
  <2>2. x \in Nat /\ x <= t
    BY <2>1, DateIs, DatesGrow
  <2> HIDE DEF x
  <2>3. x \in 0..(MaxTime + MaxLocal)
    BY <2>1, <2>2, ClocksAre
  <2> QED BY <2>3 DEF t, x
<1>4. (DeviceTime - LastContact(b) > MaxOffline) \in BOOLEAN
  OBVIOUS
<1> HIDE DEF DeviceTimes
<1> QED BY <1>1, <1>2, <1>3, <1>4 DEF Evaluated, Day

\* What a reading holds: as it was without a bundle; evaluated; or as it was, but for what a later
\* license lifts.
LEMMA DayAfterIs ==
  ASSUME TypeOK, NEW r \in Reader
  PROVE  /\ r.bundle = None => DayAfter(r) = day
         /\ r.bundle # None => r.bundle \in Bundle /\ DayAfter(r) \in Day
         /\ r.bundle # None /\ Evaluates(r) => DayAfter(r) = Evaluated(r.bundle)
         /\ r.bundle # None /\ ~Evaluates(r) =>
              /\ day \in Day
              /\ \/ DayAfter(r) = day
                 \/ /\ r.bundle.license > day.license
                    /\ DayAfter(r).date = day.date
                    /\ DayAfter(r).license = r.bundle.license
                    /\ DayAfter(r).state = IF StateOf(r.bundle.license, DeviceTime) < day.state
                                           THEN StateOf(r.bundle.license, DeviceTime) ELSE day.state
                    /\ DayAfter(r).offline =
                         (day.offline /\ DeviceTime - LastContact(r.bundle) > MaxOffline)
<1>1. CASE r.bundle = None
  BY <1>1 DEF DayAfter
<1>2. CASE r.bundle # None
  <2> DEFINE b == r.bundle
             next == Evaluated(b)
  <2>1. b \in Bundle
    BY <1>2 DEF Reader
  <2>2. /\ next \in Day
        /\ next.state = StateOf(b.license, DeviceTime)
        /\ next.license = b.license
        /\ next.offline = (DeviceTime - LastContact(b) > MaxOffline)
    <3> HIDE DEF b
    <3> QED BY <2>1, EvaluatedIs
  <2>3. CASE Evaluates(r)
    <3>1. DayAfter(r) = next
      BY <1>2, <2>3 DEF DayAfter
    <3> QED BY <1>2, <2>1, <2>2, <2>3, <3>1
  <2>4. CASE ~Evaluates(r)
    <3>1. day \in Day
      BY <2>4 DEF Evaluates, TypeOK
    <3>2. DayAfter(r) = IF next.license > day.license THEN Renewed(next) ELSE day
      BY <1>2, <2>4 DEF DayAfter
    <3>3. /\ Renewed(next) \in Day
          /\ Renewed(next).date = day.date
          /\ Renewed(next).license = next.license
          /\ Renewed(next).state = IF next.state < day.state THEN next.state ELSE day.state
          /\ Renewed(next).offline = (day.offline /\ next.offline)
      <4> HIDE DEF next
      <4> QED BY <2>2, <3>1 DEF Renewed, Day
    <3>4. CASE next.license > day.license
      <4>1. DayAfter(r) = Renewed(next)
        BY <3>2, <3>4
      <4> QED BY <1>2, <2>1, <2>2, <2>4, <3>1, <3>3, <3>4, <4>1
    <3>5. CASE ~(next.license > day.license)
      <4>1. DayAfter(r) = day
        BY <3>2, <3>5
      <4> QED BY <1>2, <2>1, <2>4, <3>1, <4>1
    <3> QED BY <3>4, <3>5
  <2> QED BY <2>3, <2>4
<1> QED BY <1>1, <1>2
-----------------------------------------------------------------------------
(* Types. *)

LEMMA InitTypes == Init => TypeOK
<1> SUFFICES ASSUME Init PROVE TypeOK
  OBVIOUS
<1>1. real \in Times /\ local \in LocalTimes /\ sets \in 0..MaxSets
  BY DeviceLicenseAssumption DEF Init, Times, LocalTimes
<1>2. installed \in Licenses
  <2>1. Len(Starts) \in Nat /\ Len(Starts) # 0 /\ DOMAIN Starts = 1..Len(Starts)
    BY DeviceLicenseAssumption, EmptySeq, LenProperties
  <2> QED BY <2>1 DEF Init, Licenses
<1>3. 0 \in DeviceTimes /\ 0 \in Times
  BY ClocksAre, <1>1 DEF DeviceTimes, Times, LocalTimes
<1>4. since \in [lag : Times, peak : DeviceTimes, moved : BOOLEAN, back : BOOLEAN,
                 evaluated : BOOLEAN]
  BY <1>3 DEF Init
<1> QED BY <1>1, <1>2, <1>3, <1>4 DEF Init, TypeOK

LEMMA TypesKept ==
  ASSUME IInv, [Next]_vars
  PROVE  TypeOK'
<1> USE DEF IInv
<1> DEFINE Since == [lag : Times, peak : DeviceTimes, moved : BOOLEAN, back : BOOLEAN,
                     evaluated : BOOLEAN]
           Kept == guard # None =>
                     /\ guard.server = -1 <=> guard.localAt = -1
                     /\ guard.mark >= guard.localAt
<1>0. /\ real \in Times /\ local \in LocalTimes /\ sets \in 0..MaxSets
      /\ installed \in Licenses
      /\ guard \in Guard \cup {None} /\ Kept
      /\ day \in Day \cup {None}
      /\ bundle \in Bundle \cup {None} /\ refused \in BOOLEAN
      /\ answer \in Answer \cup {None}
      /\ reader \in Reader \cup {None}
      /\ since \in Since
      /\ judged \in DeviceTimes
  BY DEF TypeOK
<1> SUFFICES /\ real' \in Times /\ local' \in LocalTimes /\ sets' \in 0..MaxSets
             /\ installed' \in Licenses
             /\ guard' \in Guard \cup {None} /\ Kept'
             /\ day' \in Day \cup {None}
             /\ bundle' \in Bundle \cup {None} /\ refused' \in BOOLEAN
             /\ answer' \in Answer \cup {None}
             /\ reader' \in Reader \cup {None}
             /\ since' \in Since
             /\ judged' \in DeviceTimes
  BY DEF TypeOK
<1> HIDE DEF Since, Kept, IInv
<1>1. CASE UNCHANGED vars
  BY <1>0, <1>1 DEF vars, clocks, roundVars, history, Kept
<1>2. CASE Tick
  <2>1. real' \in Times /\ local' \in LocalTimes
    <3>1. real \in 0..MaxTime /\ local \in 0..MaxLocal
      BY <1>0 DEF Times, LocalTimes
    <3>2. real < MaxTime /\ local < MaxLocal /\ real' = real + 1 /\ local' = local + 1
      BY <1>2 DEF Tick
    <3>3. real' \in 0..MaxTime /\ local' \in 0..MaxLocal
      BY <3>1, <3>2
    <3> QED BY <3>3 DEF Times, LocalTimes
  <2>2. UNCHANGED <<sets, installed, guard, day, bundle, refused, answer, reader, since, judged>>
    BY <1>2 DEF Tick, roundVars, history
  <2> QED BY <1>0, <2>1, <2>2 DEF Kept
<1>3. CASE SetClock
  <2>1. PICK clock \in Settings \ {local} :
          /\ local' = clock
          /\ since' = [since EXCEPT !.moved = TRUE, !.back = @ \/ clock < local]
    BY <1>3 DEF SetClock
  <2>2. local' \in LocalTimes
    BY DeviceLicenseAssumption, <2>1 DEF LocalTimes
  <2>3. since' \in Since
    <3> DEFINE earlier == since.back \/ clock < local
    <3>1. since' = [since EXCEPT !.moved = TRUE, !.back = earlier]
      BY <2>1
    <3>2. earlier \in BOOLEAN
      BY <1>0 DEF Since
    <3> HIDE DEF earlier
    <3> QED BY <1>0, <3>1, <3>2 DEF Since
  <2>4. sets' \in 0..MaxSets
    <3>1. sets \in 0..MaxSets /\ MaxSets \in Nat /\ sets < MaxSets /\ sets' = sets + 1
      BY <1>0, <1>3 DEF SetClock
    <3> QED BY <3>1
  <2>5. UNCHANGED <<real, installed, guard, day, bundle, refused, answer, reader, judged>>
    BY <1>3 DEF SetClock, roundVars
  <2> QED BY <1>0, <2>2, <2>3, <2>4, <2>5 DEF Kept
<1>4. CASE Install
  <2>1. installed' \in Licenses
    <3>1. Len(Starts) \in Nat /\ DOMAIN Starts = 1..Len(Starts)
      BY DeviceLicenseAssumption, LenProperties
    <3>2. installed \in 1..Len(Starts) /\ installed < Len(Starts) /\ installed' = installed + 1
      BY <1>0, <1>4, <3>1 DEF Install, Licenses
    <3>3. installed' \in 1..Len(Starts)
      BY <3>1, <3>2
    <3> QED BY <3>1, <3>3 DEF Licenses
  <2>2. UNCHANGED <<real, local, sets, guard, day, bundle, refused, answer, reader, since, judged>>
    BY <1>4 DEF Install, clocks, roundVars, history
  <2> QED BY <1>0, <2>1, <2>2 DEF Kept
<1>5. CASE Ask
  <2>1. answer' \in Answer
    <3>1. CASE bundle # None /\ bundle.license = installed /\ ~refused
      <4>1. answer' = [bundle |-> None, damaged |-> FALSE, taken |-> FALSE, time |-> real]
        BY <1>5, <3>1 DEF Ask
      <4> QED BY <1>0, <4>1 DEF Answer
    <3>2. CASE ~(bundle # None /\ bundle.license = installed /\ ~refused)
      <4>1. PICK damaged \in BOOLEAN :
              answer' = [bundle |-> [license |-> installed, issued |-> real],
                         damaged |-> damaged, taken |-> FALSE, time |-> real]
        BY <1>5, <3>2 DEF Ask
      <4>2. [license |-> installed, issued |-> real] \in Bundle
        BY <1>0 DEF Bundle
      <4> QED BY <1>0, <4>1, <4>2 DEF Answer
    <3> QED BY <3>1, <3>2
  <2>2. UNCHANGED <<real, local, sets, installed, guard, day, bundle, refused, reader, since, judged>>
    BY <1>5 DEF Ask, clocks, history
  <2> QED BY <1>0, <2>1, <2>2 DEF Kept
<1>6. CASE Lose
  <2>1. answer' = None
    BY <1>6 DEF Lose
  <2>2. UNCHANGED <<real, local, sets, installed, guard, day, bundle, refused, reader, since, judged>>
    BY <1>6 DEF Lose, clocks, history
  <2> QED BY <1>0, <2>1, <2>2 DEF Kept
<1>7. CASE AcceptBundle
  <2>1. answer \in Answer
    BY <1>0, <1>7 DEF AcceptBundle
  <2>2. answer' \in Answer
    <3>1. answer' = [answer EXCEPT !.taken = TRUE]
      BY <1>7 DEF AcceptBundle
    <3> QED BY <2>1, <3>1 DEF Answer
  <2>3. bundle' \in Bundle \cup {None} /\ refused' \in BOOLEAN
    <3>1. answer.bundle \in Bundle \cup {None} /\ answer.damaged \in BOOLEAN
      BY <2>1 DEF Answer
    <3> QED BY <1>0, <1>7, <3>1 DEF AcceptBundle
  <2>4. UNCHANGED <<real, local, sets, installed, guard, day, reader, since, judged>>
    BY <1>7 DEF AcceptBundle, clocks, history
  <2> QED BY <1>0, <2>2, <2>3, <2>4 DEF Kept
<1>8. CASE RecordServerTime
  <2>1. UNCHANGED <<real, local, sets, installed, bundle, refused, reader, judged>> /\ answer' = None
    BY <1>8 DEF RecordServerTime, clocks
  <2>2. CASE UNCHANGED <<guard, day, since>>
    BY <1>0, <2>1, <2>2 DEF Kept
  <2>3. CASE /\ guard' = Contacted
             /\ day' = IF day = None THEN None ELSE [day EXCEPT !.offline = FALSE]
             /\ since' = Contact
    <3>1. answer \in Answer /\ answer.time \in Times /\ answer.time <= real
      BY <1>0, <1>8 DEF RecordServerTime, IInv, Order, Answer
    <3>2. guard' \in Guard
      BY <1>0, <2>3, <3>1 DEF Contacted, Guard
    <3>3. Kept'
      <4>1. guard'.server = answer.time /\ guard'.localAt = local /\ guard'.mark = local
        BY <2>3 DEF Contacted
      <4>2. answer.time \in 0..MaxTime /\ local \in 0..MaxLocal
        BY <1>0, <3>1 DEF Times, LocalTimes
      <4>3. answer.time # -1 /\ local # -1 /\ local >= local
        BY <4>2
      <4> QED BY <4>1, <4>3 DEF Kept
    <3>4. day' \in Day \cup {None}
      BY <1>0, <2>3 DEF Day
    <3>5. since' \in Since
      <4>1. real - answer.time \in Times /\ answer.time \in DeviceTimes
        <5> DEFINE t == answer.time
        <5>1. /\ real \in 0..MaxTime /\ t \in 0..MaxTime /\ t <= real
              /\ MaxTime \in Nat /\ MaxLocal \in Nat
          BY <1>0, <3>1 DEF Times
        <5> HIDE DEF t
        <5>2. real - t \in 0..MaxTime /\ t \in 0..(MaxTime + MaxLocal)
          BY <5>1
        <5> QED BY <5>2 DEF t, Times, DeviceTimes
      <4> QED BY <2>3, <4>1 DEF Contact, Since
    <3> QED BY <1>0, <2>1, <3>2, <3>3, <3>4, <3>5
  <2> QED BY <1>8, <2>2, <2>3 DEF RecordServerTime
<1>9. CASE LoadBundle
  <2>1. reader' \in Reader
    BY <1>0, <1>9 DEF LoadBundle, Reader
  <2>2. UNCHANGED <<real, local, sets, installed, guard, day, bundle, refused, answer, since, judged>>
    BY <1>9 DEF LoadBundle, clocks, roundVars, history
  <2> QED BY <1>0, <2>1, <2>2 DEF Kept
\* The guard and the history of a reading.
<1>10. ASSUME guard' = Observed
       PROVE  guard' \in Guard /\ Kept'
  <2>1. TypeOK
    BY DEF IInv
  <2>2. CASE guard = None
    <3>1. guard' = [mark |-> local, server |-> -1, localAt |-> -1, behind |-> FALSE]
      BY <1>10, <2>1, <2>2, ObservedIs
    <3>2. local >= -1
      BY <2>1, ClocksAre
    <3> QED BY <1>10, <2>1, <3>1, <3>2, ObservedIs DEF Kept
  <2>3. CASE guard # None
    <3>1. /\ guard' \in Guard
          /\ guard'.server = guard.server /\ guard'.localAt = guard.localAt
          /\ guard'.mark = IF ~MovedBack /\ local >= guard.mark + MarkStep
                           THEN local ELSE guard.mark
      BY <1>10, <2>1, <2>3, ObservedIs
    <3>2. guard'.mark >= guard.localAt
      <4> DEFINE m == guard.mark
                 a == guard.localAt
                 new == guard'.mark
      <4>1. m \in Nat /\ a \in Int /\ a <= m /\ local \in Nat /\ MarkStep \in Nat
        BY <2>1, <2>3, GuardIs, ClocksAre
      <4>2. new = m \/ (new = local /\ local >= m + MarkStep)
        BY <3>1
      <4> HIDE DEF m, a, new
      <4>3. new >= a
        BY <4>1, <4>2
      <4> QED BY <4>3 DEF new, a
    <3> QED BY <1>0, <2>3, <3>1, <3>2 DEF Kept
  <2> QED BY <2>2, <2>3
<1>11. Seen \in Since
  <2>1. DeviceTime \in DeviceTimes
    BY TimeIs DEF IInv
  <2> HIDE DEF DeviceTimes
  <2> QED BY <1>0, <2>1 DEF Seen, Since
<1>12. CASE Resolve
  <2>1. reader \in Reader
    BY <1>0, <1>12 DEF Resolve
  <2>2. guard' = Observed /\ reader' = None
    BY <1>12 DEF Resolve
  <2>3. day' \in Day \cup {None}
    <3>1. day' = DayAfter(reader)
      BY <1>12 DEF Resolve
    <3> QED BY <1>0, <2>1, <3>1, DayAfterIs DEF IInv
  <2>4. since' \in Since
    <3> DEFINE done == Seen.evaluated \/ (reader.bundle # None /\ Evaluates(reader))
    <3>1. since' = [Seen EXCEPT !.evaluated = done]
      BY <1>12 DEF Resolve
    <3>2. done \in BOOLEAN
      BY <1>11 DEF Since
    <3> HIDE DEF done
    <3> QED BY <1>11, <3>1, <3>2 DEF Since
  <2>5. judged' \in DeviceTimes
    BY <1>0, <1>12, TimeIs DEF Resolve, IInv
  <2>6. UNCHANGED <<real, local, sets, installed, bundle, refused, answer>>
    BY <1>12 DEF Resolve, clocks, roundVars
  <2> QED BY <1>0, <1>10, <2>2, <2>3, <2>4, <2>5, <2>6
<1>13. CASE ReadTime
  <2>1. guard' = Observed /\ since' = Seen
    BY <1>13 DEF ReadTime
  <2>2. UNCHANGED <<real, local, sets, installed, day, bundle, refused, answer, reader, judged>>
    BY <1>13 DEF ReadTime, clocks, roundVars
  <2> QED BY <1>0, <1>10, <1>11, <2>1, <2>2
<1> QED BY <1>1, <1>2, <1>3, <1>4, <1>5, <1>6, <1>7, <1>8, <1>9, <1>12, <1>13 DEF Next
-----------------------------------------------------------------------------
(* What the steps do to the clocks, the guard and the history. *)

LEMMA SinceIs ==
  ASSUME TypeOK
  PROVE  /\ since.lag \in Nat /\ since.peak \in Nat
         /\ since.moved \in BOOLEAN /\ since.back \in BOOLEAN /\ since.evaluated \in BOOLEAN
<1>1. since.lag \in 0..MaxTime /\ since.peak \in 0..(MaxTime + MaxLocal)
  BY DEF TypeOK, Times, DeviceTimes
<1>2. since.moved \in BOOLEAN /\ since.back \in BOOLEAN /\ since.evaluated \in BOOLEAN
  BY DEF TypeOK
<1> QED BY <1>1, <1>2

LEMMA ReadingIs ==
  ASSUME TypeOK, Resolve \/ ReadTime
  PROVE  /\ guard' = Observed /\ real' = real /\ local' = local
         /\ since'.moved = since.moved /\ since'.back = since.back /\ since'.lag = since.lag
         /\ since'.peak = IF DeviceTime > since.peak THEN DeviceTime ELSE since.peak
         /\ ReadTime => since'.evaluated = since.evaluated
         /\ Resolve => since'.evaluated =
                         (since.evaluated \/ (reader.bundle # None /\ Evaluates(reader)))
<1> DEFINE Since == [lag : Times, peak : DeviceTimes, moved : BOOLEAN, back : BOOLEAN,
                     evaluated : BOOLEAN]
<1>1. since \in Since
  BY DEF TypeOK
<1>2. /\ Seen.moved = since.moved /\ Seen.back = since.back /\ Seen.lag = since.lag
      /\ Seen.peak = IF DeviceTime > since.peak THEN DeviceTime ELSE since.peak
      /\ Seen.evaluated = since.evaluated
      /\ Seen \in Since
  <2>1. DeviceTime \in DeviceTimes
    BY TimeIs
  <2> HIDE DEF DeviceTimes
  <2> QED BY <1>1, <2>1 DEF Seen
<1>3. CASE ReadTime
  <2>1. guard' = Observed /\ since' = Seen /\ real' = real /\ local' = local
    BY <1>3 DEF ReadTime, clocks
  <2>2. CASE Resolve
    <3>1. reader # None /\ reader' = None /\ reader' = reader
      BY <1>3, <2>2 DEF ReadTime, Resolve
    <3> QED BY <3>1
  <2> QED BY <1>2, <1>3, <2>1, <2>2
<1>4. CASE Resolve /\ ~ReadTime
  <2> DEFINE done == Seen.evaluated \/ (reader.bundle # None /\ Evaluates(reader))
  <2>1. guard' = Observed /\ real' = real /\ local' = local
        /\ since' = [Seen EXCEPT !.evaluated = done]
    BY <1>4 DEF Resolve, clocks
  <2>2. done = (since.evaluated \/ (reader.bundle # None /\ Evaluates(reader)))
    BY <1>2
  <2> HIDE DEF done
  <2>3. /\ since'.moved = Seen.moved /\ since'.back = Seen.back /\ since'.lag = Seen.lag
        /\ since'.peak = Seen.peak /\ since'.evaluated = done
    BY <1>2, <2>1
  <2> QED BY <1>2, <1>4, <2>1, <2>2, <2>3
<1> QED BY <1>3, <1>4

LEMMA ContactIs ==
  ASSUME IInv, RecordServerTime
  PROVE  /\ real' = real /\ local' = local
         /\ \/ UNCHANGED <<guard, day, since>>
            \/ /\ answer.time \in Nat /\ answer.time <= real
               /\ guard' # None
               /\ guard'.mark = local /\ guard'.server = answer.time /\ guard'.localAt = local
               /\ guard'.behind = FALSE
               /\ day' = IF day = None THEN None ELSE [day EXCEPT !.offline = FALSE]
               /\ since'.moved = FALSE /\ since'.back = FALSE /\ since'.evaluated = FALSE
               /\ since'.lag = real - answer.time /\ since'.peak = answer.time
<1>1. real' = real /\ local' = local
  BY DEF RecordServerTime, clocks
<1>2. CASE /\ guard' = Contacted
           /\ day' = IF day = None THEN None ELSE [day EXCEPT !.offline = FALSE]
           /\ since' = Contact
  <2>1. answer \in Answer /\ answer.time <= real
    BY DEF RecordServerTime, IInv, TypeOK, Order
  <2>2. answer.time \in 0..MaxTime /\ local \in LocalTimes /\ answer.time \in Times
    BY <2>1 DEF Answer, IInv, TypeOK, Times
  <2>3. Contacted \in Guard
    BY <2>2 DEF Contacted, Guard
  <2>4. guard' # None
    BY <1>2, <2>3, SomeGuard
  <2>5. /\ guard'.mark = local /\ guard'.server = answer.time /\ guard'.localAt = local
        /\ guard'.behind = FALSE
    BY <1>2 DEF Contacted
  <2>6. /\ since'.moved = FALSE /\ since'.back = FALSE /\ since'.evaluated = FALSE
        /\ since'.lag = real - answer.time /\ since'.peak = answer.time
    BY <1>2 DEF Contact
  <2>7. answer.time \in Nat
    BY <2>2
  <2> QED BY <1>1, <1>2, <2>1, <2>4, <2>5, <2>6, <2>7
<1> QED BY <1>1, <1>2 DEF RecordServerTime

LEMMA SettingIs ==
  ASSUME TypeOK, SetClock
  PROVE  /\ local' \in LocalTimes
         /\ since'.moved = TRUE /\ since'.back = (since.back \/ local' < local)
         /\ since'.lag = since.lag /\ since'.peak = since.peak
         /\ since'.evaluated = since.evaluated
         /\ UNCHANGED <<real, installed, guard, day, bundle, refused, answer, reader, judged>>
<1> DEFINE Since == [lag : Times, peak : DeviceTimes, moved : BOOLEAN, back : BOOLEAN,
                     evaluated : BOOLEAN]
<1>1. since \in Since
  BY DEF TypeOK
<1>2. PICK clock \in Settings \ {local} :
        /\ local' = clock
        /\ since' = [since EXCEPT !.moved = TRUE, !.back = @ \/ clock < local]
  BY DEF SetClock
<1> DEFINE earlier == since.back \/ local' < local
<1>3. since' = [since EXCEPT !.moved = TRUE, !.back = earlier]
  BY <1>2
<1>4. earlier = (since.back \/ local' < local)
  OBVIOUS
<1> HIDE DEF earlier
<1>5. /\ since'.moved = TRUE /\ since'.back = earlier
      /\ since'.lag = since.lag /\ since'.peak = since.peak
      /\ since'.evaluated = since.evaluated
  BY <1>1, <1>3
<1>6. local' \in LocalTimes
  BY DeviceLicenseAssumption, <1>2 DEF LocalTimes
<1>7. UNCHANGED <<real, installed, guard, day, bundle, refused, answer, reader, judged>>
  BY DEF SetClock, roundVars
<1> QED BY <1>4, <1>5, <1>6, <1>7

\* The other steps but Tick leave the clocks, the guard, the day and the history alone.
LEMMA OthersAre ==
  ASSUME UNCHANGED vars \/ Install \/ Ask \/ Lose \/ AcceptBundle \/ LoadBundle
  PROVE  UNCHANGED <<real, local, guard, day, since, judged>>
  BY DEF vars, clocks, history, Install, Ask, Lose, AcceptBundle, LoadBundle

-----------------------------------------------------------------------------
(* The clocks. *)

LEMMA ClocksKept ==
  ASSUME IInv, [Next]_vars
  PROVE  Clocks'
<1> DEFINE On == local - guard.localAt
           Off == real - (guard.server + since.lag)
<1>0. /\ TypeOK
      /\ ~since.moved => ~since.back
      /\ guard # None /\ ~since.back => guard.mark <= local /\ ~guard.behind
      /\ InContact /\ ~since.moved => On = Off
      /\ InContact /\ ~since.back => On >= Off
  BY DEF IInv, Clocks
<1>1. CASE UNCHANGED vars \/ Install \/ Ask \/ Lose \/ AcceptBundle \/ LoadBundle
  <2>1. UNCHANGED <<real, local, guard, since>>
    BY <1>1, OthersAre
  <2> QED BY <1>0, <2>1 DEF Clocks, InContact
<1>2. CASE Tick
  <2>1. real' = real + 1 /\ local' = local + 1 /\ UNCHANGED <<guard, since>>
    BY <1>2 DEF Tick, history
  <2>2. InContact' = InContact
    BY <2>1 DEF InContact
  <2>3. InContact => /\ guard.mark \in Nat /\ guard.localAt \in Int /\ guard.server \in Int
                     /\ guard # None
    BY <1>0, GuardIs DEF InContact
  <2>4. ASSUME InContact
        PROVE  (~since.moved => On' = Off') /\ (~since.back => On' >= Off')
    <3> DEFINE a == guard.localAt
               s == guard.server
               g == since.lag
    <3>1. /\ a \in Int /\ s \in Int /\ g \in Nat /\ real \in Nat /\ local \in Nat
      BY <1>0, <2>3, <2>4, SinceIs, ClocksAre
    <3>2. On' = (local + 1) - a /\ Off' = (real + 1) - (s + g) /\ On = local - a /\ Off = real - (s + g)
      BY <2>1
    <3> HIDE DEF a, s, g, On, Off
    <3>3. (On = Off => On' = Off') /\ (On >= Off => On' >= Off')
      BY <3>1, <3>2
    <3> QED BY <1>0, <2>4, <3>3
  <2>5. guard # None /\ ~since.back => guard.mark <= local + 1
    <3> DEFINE m == guard.mark
    <3>1. guard # None => m \in Nat
      BY <1>0, GuardIs
    <3>2. local \in Nat /\ (guard # None /\ ~since.back => m <= local)
      BY <1>0, ClocksAre
    <3> HIDE DEF m
    <3>3. guard # None /\ ~since.back => m <= local + 1
      BY <3>1, <3>2
    <3> QED BY <3>3 DEF m
  <2> QED BY <1>0, <2>1, <2>2, <2>4, <2>5 DEF Clocks
<1>3. CASE SetClock
  <2>1. /\ local' \in LocalTimes
        /\ since'.moved = TRUE /\ since'.back = (since.back \/ local' < local)
        /\ since'.lag = since.lag
        /\ real' = real /\ guard' = guard
    BY <1>0, <1>3, SettingIs
  <2>2. InContact' = InContact
    BY <2>1 DEF InContact
  <2>3. local' \in Nat /\ local \in Nat /\ real \in Nat
    BY <1>0, <2>1, ClocksAre DEF LocalTimes
  <2>4. ASSUME ~since'.back
        PROVE  ~since.back /\ local' >= local
    <3>1. ~since.back /\ ~(local' < local)
      BY <2>1, <2>4, Zenon
    <3> QED BY <2>3, <3>1
  <2>5. ASSUME InContact, ~since'.back
        PROVE  On' >= Off'
    <3> DEFINE a == guard.localAt
               s == guard.server
               g == since.lag
    <3>1. a \in Int /\ s \in Int /\ g \in Nat
      BY <1>0, <2>5, GuardIs, SinceIs DEF InContact
    <3>2. On' = local' - a /\ Off' = real - (s + g) /\ On = local - a /\ Off = real - (s + g)
      BY <2>1
    <3>3. On >= Off
      BY <1>0, <2>4, <2>5
    <3>4. local' >= local
      BY <2>4, <2>5
    <3> DEFINE on1 == On'
               off1 == Off'
               l1 == local'
    <3>5. /\ l1 \in Nat /\ local \in Nat /\ real \in Nat /\ l1 >= local
          /\ on1 = l1 - a /\ off1 = real - (s + g) /\ On = local - a /\ Off = real - (s + g)
          /\ On >= Off
      BY <2>3, <3>2, <3>3, <3>4
    <3> HIDE DEF a, s, g, On, Off, on1, off1, l1
    <3>6. on1 >= off1
      BY <3>1, <3>5
    <3> QED BY <3>6 DEF on1, off1
  <2>6. guard # None /\ ~since'.back => guard.mark <= local' /\ ~guard.behind
    <3> SUFFICES ASSUME guard # None, ~since'.back
                 PROVE  guard.mark <= local' /\ ~guard.behind
      OBVIOUS
    <3> DEFINE m == guard.mark
               l1 == local'
    <3>1. m \in Nat /\ l1 \in Nat /\ local \in Nat /\ l1 >= local /\ m <= local
      BY <1>0, <2>3, <2>4, GuardIs
    <3>2. ~guard.behind
      BY <1>0, <2>4
    <3> HIDE DEF m, l1
    <3>3. m <= l1
      BY <3>1
    <3> QED BY <3>2, <3>3 DEF m, l1
  <2> QED BY <2>1, <2>2, <2>5, <2>6 DEF Clocks
<1>4. CASE RecordServerTime
  <2>1. CASE UNCHANGED <<guard, day, since>>
    <3>1. UNCHANGED <<real, local, guard, since>>
      BY <1>4, <2>1, ContactIs
    <3> QED BY <1>0, <3>1 DEF Clocks, InContact
  <2>2. CASE ~UNCHANGED <<guard, day, since>>
    <3>1. /\ real' = real /\ local' = local
          /\ answer.time \in Nat /\ answer.time <= real
          /\ guard'.mark = local /\ guard'.server = answer.time /\ guard'.localAt = local
          /\ guard'.behind = FALSE
          /\ since'.moved = FALSE /\ since'.back = FALSE
          /\ since'.lag = real - answer.time
      BY <1>4, <2>2, ContactIs
    <3> DEFINE t == answer.time
               On1 == On'
               Off1 == Off'
    <3>2. /\ t \in Nat /\ t <= real /\ real \in Nat /\ local \in Nat
          /\ On1 = local - local /\ Off1 = real - (t + (real - t))
      BY <1>0, <3>1, ClocksAre
    <3> HIDE DEF t, On1, Off1
    <3>3. On1 = Off1 /\ On1 >= Off1 /\ local <= local
      BY <3>2
    <3> QED BY <3>1, <3>3 DEF Clocks, On1, Off1
  <2> QED BY <2>1, <2>2
<1>5. CASE Resolve \/ ReadTime
  <2>1. /\ guard' = Observed /\ real' = real /\ local' = local
        /\ since'.moved = since.moved /\ since'.back = since.back /\ since'.lag = since.lag
    BY <1>0, <1>5, ReadingIs
  <2>2. InContact' => InContact /\ guard'.server = guard.server /\ guard'.localAt = guard.localAt
    BY <1>0, <2>1, ObservedIs DEF InContact
  <2>3. guard' # None /\ ~since'.back => guard'.mark <= local /\ ~guard'.behind
    <3>1. CASE guard = None
      <4>1. guard' = [mark |-> local, server |-> -1, localAt |-> -1, behind |-> FALSE]
        BY <1>0, <2>1, <3>1, ObservedIs
      <4>2. local <= local
        BY <1>0, ClocksAre
      <4> QED BY <4>1, <4>2
    <3>2. CASE guard # None /\ ~since.back
      <4>1. guard.mark <= local /\ ~guard.behind
        BY <1>0, <3>2
      <4>2. ~MovedBack /\ local <= local
        <5> DEFINE m == guard.mark
        <5>1. m \in Nat /\ local \in Nat /\ Tolerance \in Nat /\ m <= local
          BY <1>0, <3>2, <4>1, GuardIs, ClocksAre
        <5>2. MovedBack <=> local < m - Tolerance
          BY <3>2 DEF MovedBack
        <5> HIDE DEF m
        <5> QED BY <5>1, <5>2
      <4>3. /\ guard'.behind = (guard.behind \/ MovedBack)
            /\ guard'.mark = local \/ guard'.mark = guard.mark
        BY <1>0, <2>1, <3>2, ObservedIs
      <4> QED BY <4>1, <4>2, <4>3
    <3> QED BY <2>1, <3>1, <3>2
  <2>4. InContact' => On' = On /\ Off' = Off
    BY <2>1, <2>2
  <2> QED BY <1>0, <2>1, <2>2, <2>3, <2>4 DEF Clocks
<1> QED BY <1>1, <1>2, <1>3, <1>4, <1>5 DEF Next
-----------------------------------------------------------------------------
(* The latest time read. *)

LEMMA PeakKept ==
  ASSUME IInv, [Next]_vars
  PROVE  Peak'
<1>0. TypeOK /\ Peak
  BY DEF IInv
<1>1. ASSUME guard' = guard, since'.peak = since.peak
      PROVE  Peak'
  BY <1>0, <1>1 DEF Peak, TimeAt
<1>2. CASE UNCHANGED vars \/ Install \/ Ask \/ Lose \/ AcceptBundle \/ LoadBundle
  BY <1>1, <1>2, OthersAre
<1>3. CASE Tick
  BY <1>1, <1>3 DEF Tick, history
<1>4. CASE SetClock
  BY <1>0, <1>1, <1>4, SettingIs
<1>5. CASE RecordServerTime
  <2>1. CASE UNCHANGED <<guard, day, since>>
    BY <1>1, <2>1
  <2>2. CASE ~UNCHANGED <<guard, day, since>>
    <3>1. /\ answer.time \in Nat /\ guard' # None
          /\ guard'.mark = local /\ guard'.server = answer.time /\ guard'.localAt = local
          /\ since'.peak = answer.time
      BY <1>5, <2>2, ContactIs
    <3> DEFINE t == answer.time
               at == TimeAt(guard.mark)'
    <3>2. t \in Nat /\ local \in Nat /\ MarkStep \in Nat /\ MarkStep > 0
      BY <1>0, <3>1, ClocksAre
    <3>3. at = t + (IF local > local THEN local - local ELSE 0)
      <4>1. guard'.server # -1
        BY <3>1, <3>2
      <4> QED BY <3>1, <4>1 DEF TimeAt
    <3>4. since'.peak = t
      BY <3>1
    <3> HIDE DEF t, at
    <3>5. at > t - MarkStep
      BY <3>2, <3>3
    <3> QED BY <3>1, <3>4, <3>5 DEF Peak, at
  <2> QED BY <2>1, <2>2
<1>6. CASE Resolve \/ ReadTime
  <2>1. /\ guard' = Observed /\ local' = local
        /\ since'.peak = IF DeviceTime > since.peak THEN DeviceTime ELSE since.peak
    BY <1>0, <1>6, ReadingIs
  <2>2. guard' # None
    BY <1>0, <2>1, ObservedIs
  <2> DEFINE at == TimeAt(guard.mark)'
             peak == since.peak
             next == since'.peak
             now == DeviceTime
  <2>3. /\ now \in Nat /\ peak \in Nat /\ next = IF now > peak THEN now ELSE peak
        /\ MarkStep \in Nat /\ MarkStep > 0 /\ local \in Nat /\ Tolerance \in Nat
    BY <1>0, <2>1, TimeIs, SinceIs, ClocksAre
  <2>4. CASE guard = None
    <3>1. guard' = [mark |-> local, server |-> -1, localAt |-> -1, behind |-> FALSE]
      BY <1>0, <2>1, <2>4, ObservedIs
    <3>2. at = local
      BY <3>1 DEF TimeAt
    <3>3. now = local
      BY <2>4 DEF DeviceTime, TimeAt, MarkOf
    <3>4. peak = 0
      BY <1>0, <2>4 DEF Peak
    <3> HIDE DEF at, peak, next, now
    <3>5. at > next - MarkStep
      BY <2>3, <3>2, <3>3, <3>4
    <3> QED BY <2>2, <3>5 DEF Peak, at, next
  <2>5. CASE guard # None
    <3> DEFINE m == guard.mark
               k == MarkOf
               tm == TimeAt(m)
    <3>1. /\ m \in LocalTimes /\ k \in LocalTimes /\ local \in LocalTimes /\ m <= k
          /\ m \in Nat /\ k \in Nat
          /\ k = IF local > m THEN local ELSE m
      BY <1>0, <2>5, GuardIs, MarkIs, ClocksAre DEF MarkOf, LocalTimes
    <3>2. tm \in Nat /\ tm <= now /\ now - tm <= k - m
      <4>1. TimeAt(k) = now
        BY DEF DeviceTime
      <4>2. guard # None => m <= m
        BY <3>1
      <4>3. guard # None => guard.mark <= m
        BY <4>2
      <4> HIDE DEF k, now, m
      <4>4. /\ TimeAt(m) \in DeviceTimes /\ TimeAt(m) <= TimeAt(k)
            /\ TimeAt(k) - TimeAt(m) <= k - m
        BY <1>0, <3>1, <4>3, TimeGrows
      <4> QED BY <4>1, <4>4 DEF DeviceTimes
    <3>3. tm > peak - MarkStep
      BY <1>0, <2>5 DEF Peak
    <3>4. /\ guard'.server = guard.server /\ guard'.localAt = guard.localAt
          /\ guard'.mark = IF ~MovedBack /\ local >= m + MarkStep THEN local ELSE m
      BY <1>0, <2>1, <2>5, ObservedIs
    <3>5. CASE ~MovedBack /\ local >= m + MarkStep
      <4>1. k = local
        <5> HIDE DEF m, k
        <5> QED BY <2>3, <3>1, <3>5
      <4>2. at = now
        <5>1. guard'.mark = MarkOf
          BY <3>4, <3>5, <4>1
        <5> QED BY <2>2, <2>5, <3>4, <5>1 DEF TimeAt, DeviceTime
      <4> HIDE DEF at, peak, next, now, m, k, tm
      <4>3. at > next - MarkStep
        BY <2>3, <3>2, <3>3, <4>2
      <4> QED BY <2>2, <4>3 DEF Peak, at, next
    <3>6. CASE ~(~MovedBack /\ local >= m + MarkStep)
      <4>1. at = tm
        <5>1. guard'.mark = guard.mark
          BY <3>4, <3>6
        <5> QED BY <2>2, <2>5, <3>4, <5>1 DEF TimeAt
      <4>2. k - m < MarkStep
        <5>1. MovedBack <=> local < m - Tolerance
          BY <2>5 DEF MovedBack
        <5> HIDE DEF m, k
        <5> QED BY <2>3, <3>1, <3>6, <5>1
      <4> HIDE DEF at, peak, next, now, m, k, tm
      <4>3. at > next - MarkStep
        BY <2>3, <3>1, <3>2, <3>3, <4>1, <4>2
      <4> QED BY <2>2, <4>3 DEF Peak, at, next
    <3> QED BY <3>5, <3>6
  <2> QED BY <2>4, <2>5
<1> QED BY <1>2, <1>3, <1>4, <1>5, <1>6 DEF Next

-----------------------------------------------------------------------------
(* The order of the bundles. *)

LEMMA OrderKept ==
  ASSUME IInv, [Next]_vars
  PROVE  Order'
<1>0. TypeOK /\ Order
  BY DEF IInv
<1>1. /\ installed \in Nat /\ real \in Nat /\ Len(Starts) \in Nat
      /\ DOMAIN Starts = 1..Len(Starts)
  <2>1. Len(Starts) \in Nat /\ DOMAIN Starts = 1..Len(Starts)
    BY DeviceLicenseAssumption, LenProperties
  <2> QED BY <1>0, <2>1, ClocksAre DEF TypeOK, Licenses
<1>2. \A b \in Bundle : b.license \in Nat /\ b.issued \in Nat
  BY <1>1 DEF Bundle, Licenses, Times
<1>3. \A d \in Day : d.license \in Nat
  BY <1>1 DEF Day, Licenses
<1>4. /\ answer # None => answer \in Answer /\ answer.bundle \in Bundle \cup {None}
                          /\ answer.time \in Nat
      /\ bundle # None => bundle \in Bundle
      /\ day # None => day \in Day
      /\ reader # None => reader \in Reader /\ reader.bundle \in Bundle \cup {None}
  BY <1>0 DEF TypeOK, Answer, Times, Reader
<1>5. CASE UNCHANGED vars
  BY <1>0, <1>5 DEF vars, clocks, roundVars, Order
<1>6. CASE Tick
  <2>1. real' = real + 1 /\ UNCHANGED <<installed, answer, bundle, reader, day>>
    BY <1>6 DEF Tick, roundVars
  <2>2. real <= real'
    BY <1>1, <2>1
  <2>3. ASSUME NEW x \in Nat, x <= real
        PROVE  x <= real'
    BY <1>1, <2>1, <2>3
  <2>4. answer # None => answer.time <= real'
    BY <1>0, <1>4, <2>3 DEF Order
  <2>5. answer # None /\ answer.bundle # None => answer.bundle.issued <= real'
    BY <1>0, <1>2, <1>4, <2>3 DEF Order
  <2>6. bundle # None => bundle.issued <= real'
    BY <1>0, <1>2, <1>4, <2>3 DEF Order
  <2> QED BY <1>0, <2>1, <2>4, <2>5, <2>6 DEF Order
<1>7. CASE SetClock
  <2>1. UNCHANGED <<real, installed, answer, bundle, reader, day>>
    BY <1>0, <1>7, SettingIs
  <2> QED BY <1>0, <2>1 DEF Order
<1>8. CASE Install
  <2>1. installed' = installed + 1 /\ UNCHANGED <<real, answer, bundle, reader, day>>
    BY <1>8 DEF Install, clocks, roundVars
  <2>2. ASSUME NEW x \in Nat, x <= installed
        PROVE  x <= installed'
    BY <1>1, <2>1, <2>2
  <2>3. answer # None /\ answer.bundle # None => answer.bundle.license <= installed'
    BY <1>0, <1>2, <1>4, <2>2 DEF Order
  <2>4. bundle # None => bundle.license <= installed'
    BY <1>0, <1>2, <1>4, <2>2 DEF Order
  <2> QED BY <1>0, <2>1, <2>3, <2>4 DEF Order
<1>9. CASE Ask
  <2>1. UNCHANGED <<real, installed, bundle, reader, day>>
    BY <1>9 DEF Ask, clocks
  <2>2. /\ answer'.time = real
        /\ \/ answer'.bundle = None
           \/ answer'.bundle = [license |-> installed, issued |-> real]
    BY <1>9 DEF Ask
  <2>3. real <= real /\ installed <= installed
    BY <1>1
  <2>4. answer'.bundle # None =>
          /\ answer'.bundle.license = installed /\ answer'.bundle.issued = real
    BY <2>2
  <2> QED BY <1>0, <2>1, <2>2, <2>3, <2>4 DEF Order
<1>10. CASE Lose
  <2>1. answer' = None /\ UNCHANGED <<real, installed, bundle, reader, day>>
    BY <1>10 DEF Lose, clocks
  <2> QED BY <1>0, <2>1 DEF Order
<1>11. CASE AcceptBundle
  <2>1. UNCHANGED <<real, installed, reader, day>> /\ answer # None
    BY <1>11 DEF AcceptBundle, clocks
  <2>2. answer' = [answer EXCEPT !.taken = TRUE]
    BY <1>11 DEF AcceptBundle
  <2>3. answer'.time = answer.time /\ answer'.bundle = answer.bundle
    BY <1>4, <2>1, <2>2 DEF Answer
  <2>4. CASE bundle' = bundle
    BY <1>0, <2>1, <2>3, <2>4 DEF Order
  <2>5. CASE bundle' = answer.bundle /\ answer.bundle # None
    <3>1. answer.bundle \in Bundle
      BY <1>4, <2>1, <2>5
    <3>2. answer.bundle.license \in Nat /\ answer.bundle.issued \in Nat
      BY <1>2, <3>1
    <3>3. /\ answer.bundle.license <= answer.bundle.license
          /\ answer.bundle.issued <= answer.bundle.issued
      BY <3>2
    <3>4. ASSUME reader # None, reader.bundle # None
          PROVE  /\ reader.bundle.license <= answer.bundle.license
                 /\ reader.bundle.issued <= answer.bundle.issued
      <4>1. /\ bundle # None
            /\ reader.bundle.license <= bundle.license /\ reader.bundle.issued <= bundle.issued
            /\ bundle.license <= answer.bundle.license /\ bundle.issued <= answer.bundle.issued
        BY <1>0, <2>1, <2>5, <3>4 DEF Order
      <4> DEFINE a == reader.bundle.license
                 b == bundle.license
                 c == answer.bundle.license
                 x == reader.bundle.issued
                 y == bundle.issued
                 z == answer.bundle.issued
      <4>2. a \in Nat /\ b \in Nat /\ c \in Nat /\ x \in Nat /\ y \in Nat /\ z \in Nat
        BY <1>2, <1>4, <3>2, <3>4, <4>1
      <4>3. a <= b /\ b <= c /\ x <= y /\ y <= z
        BY <4>1
      <4> HIDE DEF a, b, c, x, y, z
      <4>4. a <= c /\ x <= z
        BY <4>2, <4>3
      <4> QED BY <4>4 DEF a, c, x, z
    <3>5. ASSUME day # None
          PROVE  day.license <= answer.bundle.license
      <4>1. /\ bundle # None /\ day.license <= bundle.license
            /\ bundle.license <= answer.bundle.license
        BY <1>0, <2>1, <2>5, <3>5 DEF Order
      <4> DEFINE a == day.license
                 b == bundle.license
                 c == answer.bundle.license
      <4>2. a \in Nat /\ b \in Nat /\ c \in Nat
        BY <1>2, <1>3, <1>4, <3>2, <3>5, <4>1
      <4>3. a <= b /\ b <= c
        BY <4>1
      <4> HIDE DEF a, b, c
      <4>4. a <= c
        BY <4>2, <4>3
      <4> QED BY <4>4 DEF a, c
    <3> QED BY <1>0, <2>1, <2>3, <2>5, <3>3, <3>4, <3>5 DEF Order
  <2> QED BY <1>11, <2>4, <2>5 DEF AcceptBundle
<1>12. CASE RecordServerTime
  <2>1. UNCHANGED <<real, installed, bundle, reader>> /\ answer' = None
    BY <1>12 DEF RecordServerTime, clocks
  <2>2. /\ day' # None => day # None
        /\ day # None => day'.license = day.license
    <3>1. day' = day \/ day' = IF day = None THEN None ELSE [day EXCEPT !.offline = FALSE]
      BY <1>12 DEF RecordServerTime
    <3> QED BY <1>4, <3>1 DEF Day
  <2> QED BY <1>0, <2>1, <2>2 DEF Order
<1>13. CASE LoadBundle
  <2>1. UNCHANGED <<real, installed, answer, bundle, day>> /\ reader'.bundle = bundle
    BY <1>13 DEF LoadBundle, clocks, roundVars
  <2>2. bundle # None => bundle.license <= bundle.license /\ bundle.issued <= bundle.issued
    <3>1. \A x \in Nat : x <= x
      OBVIOUS
    <3>2. bundle # None => bundle.license \in Nat /\ bundle.issued \in Nat
      BY <1>2, <1>4
    <3> QED BY <3>1, <3>2
  <2> QED BY <1>0, <2>1, <2>2 DEF Order
<1>14. CASE Resolve
  <2>1. UNCHANGED <<real, installed, answer, bundle>> /\ reader' = None /\ reader # None
        /\ day' = DayAfter(reader)
    BY <1>14 DEF Resolve, clocks, roundVars
  <2>2. ASSUME day' # None
        PROVE  bundle # None /\ day'.license <= bundle.license
    <3>1. CASE day' = day
      BY <1>0, <2>2, <3>1 DEF Order
    <3>2. CASE day' # day
      <4>1. reader \in Reader /\ reader.bundle # None
        BY <1>0, <1>4, <2>1, <3>2, DayAfterIs
      <4>2. reader.bundle \in Bundle
        BY <1>4, <2>1, <4>1
      <4>3. day'.license = reader.bundle.license
        <5>1. CASE Evaluates(reader)
          BY <1>0, <2>1, <4>1, <4>2, <5>1, DayAfterIs, EvaluatedIs
        <5>2. CASE ~Evaluates(reader)
          BY <1>0, <2>1, <3>2, <4>1, <5>2, DayAfterIs
        <5> QED BY <5>1, <5>2
      <4>4. bundle # None /\ reader.bundle.license <= bundle.license
        BY <1>0, <2>1, <4>1 DEF Order
      <4> QED BY <4>3, <4>4
    <3> QED BY <3>1, <3>2
  <2> QED BY <1>0, <2>1, <2>2 DEF Order
<1>15. CASE ReadTime
  <2>1. UNCHANGED <<real, installed, answer, bundle, day, reader>>
    BY <1>15 DEF ReadTime, clocks, roundVars
  <2> QED BY <1>0, <2>1 DEF Order
<1> QED BY <1>5, <1>6, <1>7, <1>8, <1>9, <1>10, <1>11, <1>12, <1>13, <1>14, <1>15 DEF Next
-----------------------------------------------------------------------------
(* The state of the day. *)

LEMMA JudgedKept ==
  ASSUME IInv, [Next]_vars
  PROVE  Judged'
<1>0. TypeOK /\ Judged
  BY DEF IInv
<1>1. ASSUME judged' = judged, day' = None \/ day # None,
             day' # None => day'.license = day.license /\ day'.state = day.state
      PROVE  Judged'
  BY <1>0, <1>1 DEF Judged, StateOf
<1>2. CASE UNCHANGED vars \/ Install \/ Ask \/ Lose \/ AcceptBundle \/ LoadBundle
  <2>1. UNCHANGED <<day, judged>>
    BY <1>2, OthersAre
  <2> QED BY <1>1, <2>1
<1>3. CASE Tick
  BY <1>1, <1>3 DEF Tick, history
<1>4. CASE SetClock
  <2>1. UNCHANGED <<day, judged>>
    BY <1>0, <1>4, SettingIs
  <2> QED BY <1>1, <2>1
<1>5. CASE RecordServerTime
  <2>1. judged' = judged
    BY <1>5 DEF RecordServerTime
  <2>2. day' = day \/ day' = IF day = None THEN None ELSE [day EXCEPT !.offline = FALSE]
    BY <1>5 DEF RecordServerTime
  <2>3. day = None \/ day \in Day
    BY <1>0 DEF TypeOK
  <2> QED BY <1>1, <2>1, <2>2, <2>3 DEF Day
<1>6. CASE ReadTime
  BY <1>1, <1>6 DEF ReadTime
<1>7. CASE Resolve
  <2>1. /\ reader \in Reader /\ day' = DayAfter(reader)
        /\ judged' = IF Judges(reader) THEN DeviceTime ELSE judged
    BY <1>0, <1>7 DEF Resolve, TypeOK
  <2>2. CASE reader.bundle = None
    <3>1. day' = day /\ judged' = judged
      BY <1>0, <2>1, <2>2, DayAfterIs DEF Judges
    <3> QED BY <1>1, <3>1
  <2>3. CASE reader.bundle # None
    <3> DEFINE l == reader.bundle.license
               state == StateOf(l, DeviceTime)
    <3>1. reader.bundle \in Bundle /\ day' \in Day
      BY <1>0, <2>1, <2>3, DayAfterIs
    <3>2. l \in Licenses /\ Len(Starts) \in Nat /\ Licenses = 1..Len(Starts)
      BY <3>1, DeviceLicenseAssumption, LenProperties DEF Bundle, Licenses
    <3>3. l \in 1..l
      <4> HIDE DEF l
      <4>1. l \in 1..Len(Starts)
        BY <3>2
      <4> QED BY <3>2, <4>1
    <3>4. ASSUME judged' = DeviceTime, day'.license = l, day'.state = state
          PROVE  Judged'
      <4> DEFINE t == DeviceTime
      <4>1. judged' = t /\ day'.state = StateOf(l, t)
        BY <3>4
      <4>2. StateOf(l, judged') = StateOf(l, t)
        BY <4>1
      <4> HIDE DEF t
      <4>3. \E k \in 1..day'.license : day'.state = StateOf(k, judged')
        BY <3>3, <3>4, <4>1, <4>2
      <4> QED BY <4>3 DEF Judged, StateOf
    <3>5. CASE Evaluates(reader)
      <4>1. judged' = DeviceTime
        BY <2>1, <2>3, <3>5 DEF Judges
      <4>2. day'.license = l /\ day'.state = state
        BY <1>0, <2>1, <2>3, <3>1, <3>5, DayAfterIs, EvaluatedIs
      <4> QED BY <3>4, <4>1, <4>2
    <3>6. CASE ~Evaluates(reader)
      <4>1. /\ day \in Day
            /\ \/ day' = day
               \/ /\ l > day.license
                  /\ day'.license = l
                  /\ day'.state = IF state < day.state THEN state ELSE day.state
        BY <1>0, <2>1, <2>3, <3>6, DayAfterIs
      <4>2. day.license \in Nat /\ day.state \in 0..4
        <5>1. day.license \in 1..Len(Starts)
          BY <3>2, <4>1 DEF Day
        <5> QED BY <3>2, <4>1, <5>1 DEF Day, States
      <4>3. Judges(reader) <=> day'.state < day.state
        BY <2>1, <2>3, <3>6 DEF Judges
      <4>4. CASE day' = day
        <5>1. judged' = judged
          BY <2>1, <4>2, <4>3, <4>4
        <5>2. day # None
          BY <4>1, SomeOther
        <5> QED BY <1>1, <4>4, <5>1, <5>2
      <4>5. CASE /\ l > day.license /\ day'.license = l
                 /\ state < day.state /\ day'.state = state
        <5>1. judged' = DeviceTime
          BY <2>1, <4>3, <4>5
        <5> QED BY <3>4, <4>5, <5>1
      <4>6. CASE /\ l > day.license /\ day'.license = l
                 /\ ~(state < day.state) /\ day'.state = day.state
        <5>1. judged' = judged
          BY <2>1, <4>2, <4>3, <4>6
        <5>2. PICK k \in 1..day.license : day.state = StateOf(k, judged)
          BY <1>0, <4>1, SomeOther DEF Judged
        <5>3. k \in 1..l
          <6> DEFINE m == day.license
          <6>1. m \in Nat /\ k \in 1..m /\ l > m /\ l \in 1..Len(Starts) /\ Len(Starts) \in Nat
            BY <3>2, <4>2, <4>6, <5>2
          <6> HIDE DEF m, l
          <6> QED BY <6>1
        <5>4. \E j \in 1..day'.license : day'.state = StateOf(j, judged')
          BY <4>6, <5>1, <5>2, <5>3
        <5> QED BY <5>4 DEF Judged, StateOf
      <4> QED BY <4>1, <4>4, <4>5, <4>6
    <3> QED BY <3>5, <3>6
  <2> QED BY <2>2, <2>3
<1> QED BY <1>2, <1>3, <1>4, <1>5, <1>6, <1>7 DEF Next
-----------------------------------------------------------------------------
(* How long a day is offline. *)

\* As long as the local clock is not set back, the device's time is the server's last, and what
\* the local clock ran since.
LEMMA NowIs ==
  TypeOK /\ Clocks /\ InContact /\ ~since.back =>
    /\ guard.server \in Nat /\ guard.localAt \in Nat /\ guard.localAt <= local /\ local \in Nat
    /\ DeviceTime = guard.server + (local - guard.localAt)
    /\ DeviceTime \in Nat
<1> SUFFICES ASSUME TypeOK, Clocks, InContact, ~since.back
             PROVE  /\ guard.server \in Nat /\ guard.localAt \in Nat
                    /\ guard.localAt <= local /\ local \in Nat
                    /\ DeviceTime = guard.server + (local - guard.localAt)
                    /\ DeviceTime \in Nat
  OBVIOUS
<1>1. guard # None /\ guard.server # -1 /\ guard.mark <= local
  BY DEF InContact, Clocks
<1> DEFINE m == guard.mark
           s == guard.server
           a == guard.localAt
<1>2. /\ m \in Nat /\ s \in Int /\ s >= -1 /\ s # -1 /\ a \in Int /\ a >= -1 /\ a # -1 /\ a <= m
      /\ m <= local /\ local \in Nat
  BY <1>1, GuardIs, ClocksAre
<1>3. MarkOf = local
  BY <1>1, MarkIs
<1>4. DeviceTime = s + (IF local > a THEN local - a ELSE 0)
  BY <1>1, <1>3 DEF DeviceTime, TimeAt
<1> HIDE DEF m, s, a
<1>5. s \in Nat /\ a \in Nat /\ a <= local /\ DeviceTime = s + (local - a)
  BY <1>2, <1>4
<1> QED BY <1>2, <1>5, TimeIs DEF s, a

\* The last contact is no earlier for a bundle issued later.
LEMMA ContactGrows ==
  ASSUME TypeOK, NEW b \in Bundle, NEW c \in Bundle, b.issued <= c.issued
  PROVE  LastContact(b) <= LastContact(c)
<1> DEFINE x == b.issued
           y == c.issued
<1>1. x \in Nat /\ y \in Nat /\ x <= y
  BY DEF Bundle, Times
<1>2. CASE guard = None
  BY <1>1, <1>2 DEF LastContact
<1>3. CASE guard # None
  <2> DEFINE gs == guard.server
  <2>1. gs \in Int
    BY <1>3, GuardIs
  <2>2. /\ LastContact(b) = IF gs > x THEN gs ELSE x
        /\ LastContact(c) = IF gs > y THEN gs ELSE y
    BY <1>3 DEF LastContact
  <2> HIDE DEF gs, x, y
  <2> QED BY <1>1, <2>1, <2>2
<1> QED BY <1>2, <1>3

LEMMA OfflineKept ==
  ASSUME IInv, [Next]_vars
  PROVE  Offline'
<1>0. TypeOK /\ Clocks /\ Order /\ Offline
  BY DEF IInv
<1>1. TypeOK' /\ Clocks'
  BY TypesKept, ClocksKept
<1> DEFINE Within(date, contact) ==
             \A t \in Nat : BusinessDate(t) = date => t - contact < MaxOffline + DayLength
<1>2. SUFFICES ASSUME InContact', ~since'.back, since'.evaluated
               PROVE  /\ day' # None /\ day'.date <= BusinessDate(DeviceTime')
                      /\ ~day'.offline => Within(day'.date, LastContact(bundle)')
  BY DEF Offline
<1> HIDE DEF Within
<1>3. /\ guard'.server \in Nat /\ guard'.localAt \in Nat /\ local' \in Nat
      /\ DeviceTime' = guard'.server + (local' - guard'.localAt) /\ DeviceTime' \in Nat
  <2>1. (TypeOK /\ Clocks /\ InContact /\ ~since.back =>
           /\ guard.server \in Nat /\ guard.localAt \in Nat /\ guard.localAt <= local /\ local \in Nat
           /\ DeviceTime = guard.server + (local - guard.localAt)
           /\ DeviceTime \in Nat)'
    BY NowIs, PTL
  <2> QED BY <1>1, <1>2, <2>1
\* Offline of the state before the step, where the contact is the same.
<1>4. ASSUME InContact, ~since.back, since.evaluated
      PROVE  /\ day # None /\ day \in Day /\ day.date \in Nat
             /\ day.date <= BusinessDate(DeviceTime)
             /\ ~day.offline => Within(day.date, LastContact(bundle))
             /\ bundle # None /\ bundle \in Bundle
             /\ DeviceTime = guard.server + (local - guard.localAt) /\ DeviceTime \in Nat
             /\ guard.server \in Nat /\ guard.localAt \in Nat /\ local \in Nat
  <2>1. /\ day # None /\ day.date <= BusinessDate(DeviceTime)
        /\ ~day.offline => Within(day.date, LastContact(bundle))
    BY <1>0, <1>4 DEF Offline, Within
  <2>2. day \in Day /\ bundle # None /\ bundle \in Bundle
    BY <1>0, <2>1 DEF TypeOK, Order
  <2>3. day.date \in Nat
    BY <2>2, ClocksAre DEF Day
  <2> QED BY <1>0, <1>4, <2>1, <2>2, <2>3, NowIs
\* Steps that leave the day and the contact alone.
<1>5. ASSUME InContact, ~since.back, since.evaluated, day' = day,
             guard'.server = guard.server, guard'.localAt = guard.localAt, local <= local',
             bundle' \in Bundle, bundle.issued <= bundle'.issued
      PROVE  /\ day' # None /\ day'.date <= BusinessDate(DeviceTime')
             /\ ~day'.offline => Within(day'.date, LastContact(bundle)')
  <2>1. DeviceTime <= DeviceTime'
    <3> DEFINE s == guard.server
               a == guard.localAt
               l == local
               l1 == local'
               now == DeviceTime
               now1 == DeviceTime'
    <3>1. /\ s \in Nat /\ a \in Nat /\ l \in Nat /\ l1 \in Nat /\ l <= l1
          /\ now = s + (l - a) /\ now1 = s + (l1 - a)
      BY <1>3, <1>4, <1>5
    <3> HIDE DEF s, a, l, l1, now, now1
    <3>2. now <= now1
      BY <3>1
    <3> QED BY <3>2 DEF now, now1
  <2>2. day.date <= BusinessDate(DeviceTime')
    <3> DEFINE now == DeviceTime
               now1 == DeviceTime'
               d == BusinessDate(now)
               d1 == BusinessDate(now1)
               date == day.date
    <3>1. now \in Nat /\ now1 \in Nat /\ now <= now1 /\ date \in Nat /\ date <= d
      BY <1>3, <1>4, <1>5, <2>1
    <3> HIDE DEF now, now1, date
    <3>2. d \in Nat /\ d1 \in Nat /\ d <= d1
      BY <3>1, DateIs, DatesGrow
    <3> HIDE DEF d, d1
    <3>3. date <= d1
      BY <3>1, <3>2
    <3> QED BY <3>3 DEF date, d1, now1
  <2>3. ASSUME ~day.offline
        PROVE  Within(day.date, LastContact(bundle)')
    <3> DEFINE k == LastContact(bundle)
               k1 == LastContact(bundle)'
    <3>1. LastContact(bundle)' = LastContact(bundle')
      <4>1. guard # None /\ guard' # None
        BY <1>2, <1>5 DEF InContact
      <4> QED BY <1>5, <4>1 DEF LastContact
    <3>2. k \in Nat /\ k1 \in Nat /\ k <= k1
      <4>1. bundle \in Bundle /\ bundle' \in Bundle /\ bundle.issued <= bundle'.issued
        BY <1>4, <1>5
      <4>2. LastContact(bundle) \in Nat
        BY <1>0, <4>1, LastContactIs
      <4> DEFINE new == bundle'
      <4>3. new \in Bundle /\ bundle.issued <= new.issued
        BY <4>1
      <4> HIDE DEF new
      <4>4. LastContact(new) \in Nat /\ LastContact(bundle) <= LastContact(new)
        BY <1>0, <4>1, <4>3, LastContactIs, ContactGrows
      <4> QED BY <3>1, <4>2, <4>4 DEF new
    <3>3. Within(day.date, k)
      BY <1>4, <1>5, <2>3
    <3> HIDE DEF k, k1
    <3>4. ASSUME NEW t \in Nat, BusinessDate(t) = day.date
          PROVE  t - k1 < MaxOffline + DayLength
      <4>1. t - k < MaxOffline + DayLength
        BY <3>3, <3>4 DEF Within
      <4>2. MaxOffline \in Nat /\ DayLength \in Nat
        OBVIOUS
      <4> QED BY <3>2, <4>1, <4>2
    <3>5. Within(day.date, k1)
      BY <3>4 DEF Within
    <3> QED BY <3>5 DEF k1
  <2> QED BY <1>4, <1>5, <2>2, <2>3
\* A contact the same as before the step, and a bundle the same or newer.
<1>6. ASSUME since.evaluated, ~since.back, day' = day, guard' = guard, local <= local',
             bundle' = bundle
      PROVE  /\ day' # None /\ day'.date <= BusinessDate(DeviceTime')
             /\ ~day'.offline => Within(day'.date, LastContact(bundle)')
  <2>1. InContact
    BY <1>2, <1>6 DEF InContact
  <2>2. bundle' \in Bundle /\ bundle.issued <= bundle'.issued
    <3>1. bundle \in Bundle
      BY <1>4, <1>6, <2>1
    <3>2. bundle.issued \in Nat
      BY <1>0, <3>1, LastContactIs
    <3> QED BY <1>6, <3>1, <3>2
  <2> QED BY <1>5, <1>6, <2>1, <2>2
<1>7. local \in Nat /\ local <= local
  BY <1>0, ClocksAre
<1>8. CASE UNCHANGED vars \/ Install \/ Ask \/ Lose \/ LoadBundle
  <2>1. UNCHANGED <<real, local, guard, day, since, judged>>
    BY <1>8, OthersAre
  <2>2. bundle' = bundle
    BY <1>8 DEF vars, roundVars, Install, Ask, Lose, LoadBundle
  <2> QED BY <1>2, <1>6, <1>7, <2>1, <2>2
<1>9. CASE Tick
  <2>1. local' = local + 1 /\ UNCHANGED <<guard, day, bundle, since>>
    BY <1>9 DEF Tick, roundVars, history
  <2>2. local <= local'
    BY <1>7, <2>1
  <2> QED BY <1>2, <1>6, <2>1, <2>2
<1>10. CASE SetClock
  <2>1. /\ since'.back = (since.back \/ local' < local)
        /\ since'.evaluated = since.evaluated
        /\ UNCHANGED <<guard, day, bundle>>
    BY <1>0, <1>10, SettingIs
  <2>2. ~since.back /\ ~(local' < local)
    BY <1>2, <2>1, Zenon
  <2>3. local <= local'
    BY <1>3, <1>7, <2>2
  <2> QED BY <1>2, <1>6, <2>1, <2>2, <2>3
<1>11. CASE AcceptBundle
  <2>1. UNCHANGED <<real, local, guard, day, since, judged>>
    BY <1>11, OthersAre
  <2>2. CASE bundle' = bundle
    BY <1>2, <1>6, <1>7, <2>1, <2>2
  <2>3. CASE bundle' = answer.bundle /\ answer.bundle # None
    <3>1. InContact /\ ~since.back /\ since.evaluated
      BY <1>2, <2>1 DEF InContact
    <3>2. answer # None /\ answer \in Answer
      BY <1>0, <1>11 DEF AcceptBundle, TypeOK
    <3>3. bundle' \in Bundle
      BY <2>3, <3>2 DEF Answer
    <3>4. bundle.issued <= bundle'.issued
      BY <1>0, <1>4, <2>3, <3>1, <3>2 DEF Order
    <3> QED BY <1>5, <1>7, <2>1, <3>1, <3>3, <3>4
  <2> QED BY <1>11, <2>2, <2>3 DEF AcceptBundle
<1>12. CASE RecordServerTime
  <2>1. local' = local /\ bundle' = bundle
    BY <1>12 DEF RecordServerTime, clocks
  <2>2. UNCHANGED <<guard, day, since>>
    BY <1>2, <1>12, ContactIs
  <2> QED BY <1>2, <1>6, <1>7, <2>1, <2>2
\* A reading keeps the contact.
<1>13. ASSUME Resolve \/ ReadTime
       PROVE  /\ InContact /\ ~since.back /\ local' = local
              /\ guard'.server = guard.server /\ guard'.localAt = guard.localAt
  <2>1. guard' = Observed /\ local' = local /\ since'.back = since.back
    BY <1>0, <1>13, ReadingIs
  <2>2. InContact
    <3>1. CASE guard = None
      <4>1. guard'.server = -1
        BY <1>0, <2>1, <3>1, ObservedIs
      <4> QED BY <1>2, <4>1 DEF InContact
    <3>2. CASE guard # None
      <4>1. guard'.server = guard.server
        BY <1>0, <2>1, <3>2, ObservedIs
      <4> QED BY <1>2, <3>2, <4>1 DEF InContact
    <3> QED BY <3>1, <3>2
  <2>3. guard # None
    BY <2>2 DEF InContact
  <2> QED BY <1>0, <1>2, <2>1, <2>2, <2>3, ObservedIs
<1>14. CASE ReadTime
  <2>1. since.evaluated
    BY <1>0, <1>2, <1>14, ReadingIs
  <2>2. day' = day /\ bundle' = bundle
    BY <1>14 DEF ReadTime, roundVars
  <2>3. bundle \in Bundle /\ bundle.issued \in Nat
    BY <1>0, <1>4, <1>13, <1>14, <2>1, LastContactIs
  <2>4. bundle' \in Bundle /\ bundle.issued <= bundle'.issued
    BY <2>2, <2>3
  <2> QED BY <1>5, <1>7, <1>13, <1>14, <2>1, <2>2, <2>4
<1>15. CASE Resolve
  <2> DEFINE rb == reader.bundle
             now == DeviceTime
             k == LastContact(bundle)
             kr == LastContact(rb)
  <2>1. /\ reader # None /\ reader \in Reader /\ day' = DayAfter(reader) /\ bundle' = bundle
        /\ since'.evaluated = (since.evaluated \/ (rb # None /\ Evaluates(reader)))
    BY <1>0, <1>15, ReadingIs DEF Resolve, roundVars, TypeOK
  <2>2. /\ InContact /\ ~since.back /\ local' = local
        /\ guard'.server = guard.server /\ guard'.localAt = guard.localAt
    BY <1>13, <1>15
  <2>3. now \in Nat /\ DeviceTime' = now /\ BusinessDate(now) \in Nat
    <3>1. now \in Nat /\ now = guard.server + (local - guard.localAt)
      BY <1>0, <2>2, NowIs
    <3>2. DeviceTime' = now
      BY <1>3, <2>2, <3>1
    <3> HIDE DEF now
    <3> QED BY <3>1, <3>2, DateIs
  <2>4. k = LastContact(bundle)'
    <3>1. guard # None /\ guard' # None
      BY <1>2, <2>2 DEF InContact
    <3> QED BY <2>1, <2>2, <3>1 DEF LastContact
  \* The bundle read is no newer than the one accepted.
  <2>5. ASSUME rb # None, ~(now - kr > MaxOffline), NEW date, date <= BusinessDate(now)
        PROVE  Within(date, k)
    <3>1. rb \in Bundle /\ bundle \in Bundle /\ rb.issued <= bundle.issued
      BY <1>0, <2>1, <2>5 DEF Reader, Order, TypeOK
    <3>2. k \in Nat /\ kr \in Nat /\ kr <= k
      <4> HIDE DEF rb
      <4> QED BY <1>0, <3>1, LastContactIs, ContactGrows
    <3>3. ASSUME NEW t \in Nat, BusinessDate(t) = date
          PROVE  t - k < MaxOffline + DayLength
      <4>1. BusinessDate(t) <= BusinessDate(now)
        BY <2>5, <3>3
      <4>2. now \in Nat /\ ~(now - kr > MaxOffline)
        BY <2>3, <2>5
      <4> HIDE DEF now, k, kr
      <4>3. t < now + DayLength
        BY <4>1, <4>2, <3>3, DatesGrow
      <4>4. MaxOffline \in Nat /\ DayLength \in Nat
        OBVIOUS
      <4> QED BY <3>2, <3>3, <4>2, <4>3, <4>4
    <3> QED BY <3>3 DEF Within
  <2>6. CASE rb # None /\ Evaluates(reader)
    <3>1. /\ day' \in Day /\ day'.date = BusinessDate(now)
          /\ day'.offline = (now - kr > MaxOffline)
      <4>1. rb \in Bundle /\ day' \in Day /\ day' = Evaluated(rb)
        BY <1>0, <2>1, <2>6, DayAfterIs
      <4> HIDE DEF rb
      <4> QED BY <1>0, <4>1, EvaluatedIs
    <3>2. day'.date <= BusinessDate(DeviceTime')
      BY <2>3, <3>1
    <3>3. day'.date <= BusinessDate(now)
      BY <2>3, <3>1
    <3>4. ~day'.offline => Within(day'.date, k)
      BY <2>5, <2>6, <3>1, <3>3
    <3> QED BY <2>4, <3>1, <3>2, <3>4, SomeOther
  <2>7. CASE ~(rb # None /\ Evaluates(reader)) /\ day' = day
    <3>1. since.evaluated
      BY <1>2, <2>1, <2>7
    <3>2. bundle \in Bundle /\ bundle.issued \in Nat
      BY <1>0, <1>4, <2>2, <3>1, LastContactIs
    <3>3. bundle' \in Bundle /\ bundle.issued <= bundle'.issued
      BY <2>1, <3>2
    <3> QED BY <1>5, <1>7, <2>2, <2>7, <3>1, <3>3
  <2>8. CASE rb # None /\ ~Evaluates(reader) /\ day' # day
    <3>1. since.evaluated
      BY <1>2, <2>1, <2>8
    <3>2. /\ day # None /\ day.date <= BusinessDate(now)
          /\ ~day.offline => Within(day.date, k)
      BY <1>4, <2>2, <3>1
    <3>3. /\ day' \in Day /\ day'.date = day.date
          /\ day'.offline = (day.offline /\ now - kr > MaxOffline)
      BY <1>0, <2>1, <2>8, DayAfterIs
    <3>4. ~(now - kr > MaxOffline) => Within(day.date, k)
      BY <2>5, <2>8, <3>2
    <3>5. ~day'.offline => Within(day'.date, k)
      BY <3>2, <3>3, <3>4, Zenon
    <3> QED BY <2>3, <2>4, <3>2, <3>3, <3>5, SomeOther
  <2>9. rb = None => day' = day
    BY <1>0, <2>1, DayAfterIs
  <2> QED BY <2>6, <2>7, <2>8, <2>9
<1> QED BY <1>8, <1>9, <1>10, <1>11, <1>12, <1>14, <1>15 DEF Next
-----------------------------------------------------------------------------
(* The theorems. *)

LEMMA InitInvariant == Init => IInv
<1> SUFFICES ASSUME Init PROVE IInv
  OBVIOUS
<1>1. guard = None /\ day = None /\ bundle = None /\ answer = None /\ reader = None
  BY DEF Init
<1>2. ~since.moved /\ ~since.back /\ ~since.evaluated /\ since.peak = 0
  BY DEF Init
<1>3. ~InContact
  BY <1>1 DEF InContact
<1> QED BY <1>1, <1>2, <1>3, InitTypes DEF IInv, Clocks, Peak, Order, Judged, Offline

\* The inductive invariant holds: the clocks since the last contact, the latest time read, the
\* order of the bundles, and what the day is held of, with the types.
THEOREM Invariant == Spec => []IInv
<1>1. Init => IInv
  BY InitInvariant
<1>2. IInv /\ [Next]_vars => IInv'
  BY TypesKept, ClocksKept, PeakKept, OrderKept, JudgedKept, OfflineKept DEF IInv
<1> QED BY <1>1, <1>2, PTL DEF Spec

\* Types; and the mark is never earlier than the local clock at the last server contact.
THEOREM Types == Spec => []TypeOK
<1>1. IInv => TypeOK
  BY DEF IInv
<1> QED BY <1>1, Invariant, PTL

\* The device's time is not taken back by setting the clock back, it follows the server's from a
\* contact on, and a device is found behind only if its clock was set back (observeClock and
\* recordServerTime), for any tolerances and any settings of the clock.
THEOREM GuardIsKept == Spec => []GuardKeepsTime
<1>1. IInv => GuardKeepsTime
  <2> SUFFICES ASSUME IInv
               PROVE  NeverFallsBack /\ FollowsServer /\ OnlySetBackIsBehind
    BY DEF GuardKeepsTime
  <2>0. TypeOK /\ Clocks /\ Peak
    BY DEF IInv
  <2>1. NeverFallsBack
    <3> SUFFICES ASSUME guard # None
                 PROVE  DeviceTime > since.peak - MarkStep
      BY DEF NeverFallsBack
    <3> DEFINE m == guard.mark
               k == MarkOf
               tm == TimeAt(m)
               now == DeviceTime
               peak == since.peak
    <3>1. m \in LocalTimes /\ k \in LocalTimes /\ m <= k /\ m <= m
      BY <2>0, GuardIs, MarkIs, ClocksAre DEF LocalTimes
    <3>2. TimeAt(k) = now
      BY DEF DeviceTime
    <3>3. guard # None => guard.mark <= m
      BY <3>1
    <3>4. tm \in Nat /\ tm <= now
      <4> HIDE DEF m, k, now
      <4>1. TimeAt(m) \in DeviceTimes /\ TimeAt(m) <= TimeAt(k)
        BY <2>0, <3>1, <3>3, TimeGrows
      <4> QED BY <3>2, <4>1 DEF DeviceTimes
    <3>5. tm > peak - MarkStep /\ peak \in Nat /\ MarkStep \in Nat /\ now \in Nat
      BY <2>0, SinceIs, ClocksAre, TimeIs DEF Peak
    <3> HIDE DEF m, tm, now, peak
    <3>6. now > peak - MarkStep
      BY <3>4, <3>5
    <3> QED BY <3>6 DEF now, peak
  <2>2. FollowsServer
    <3> SUFFICES ASSUME InContact
                 PROVE  /\ ~since.moved => DeviceTime = real - since.lag
                        /\ ~since.back => DeviceTime >= real - since.lag
      BY DEF FollowsServer
    <3>1. ASSUME ~since.back
          PROVE  /\ DeviceTime >= real - since.lag
                 /\ ~since.moved => DeviceTime = real - since.lag
      <4> DEFINE s == guard.server
                 a == guard.localAt
                 g == since.lag
                 now == DeviceTime
      <4>1. /\ s \in Nat /\ a \in Nat /\ local \in Nat /\ now = s + (local - a)
            /\ g \in Nat /\ real \in Nat
        BY <2>0, <3>1, NowIs, SinceIs, ClocksAre
      <4>2. /\ ~since.moved => local - a = real - (s + g)
            /\ local - a >= real - (s + g)
        BY <2>0, <3>1 DEF Clocks
      <4> HIDE DEF s, a, g, now
      <4>3. now >= real - g
        BY <4>1, <4>2
      <4>4. local - a = real - (s + g) => now = real - g
        BY <4>1
      <4> QED BY <4>2, <4>3, <4>4 DEF now, g
    <3>2. ~since.moved => ~since.back
      BY <2>0 DEF Clocks
    <3> QED BY <3>1, <3>2
  <2>3. OnlySetBackIsBehind
    <3> SUFFICES ASSUME ~since.back, Behind
                 PROVE  FALSE
      BY <2>0, SinceIs DEF OnlySetBackIsBehind
    <3>1. guard # None
      BY DEF Behind, MovedBack
    <3>2. guard.mark <= local /\ ~guard.behind
      BY <2>0, <3>1 DEF Clocks
    <3>3. ~MovedBack
      <4> DEFINE m == guard.mark
      <4>1. m \in Nat /\ local \in Nat /\ Tolerance \in Nat /\ m <= local
        BY <2>0, <3>1, <3>2, GuardIs, ClocksAre
      <4>2. MovedBack <=> local < m - Tolerance
        BY <3>1 DEF MovedBack
      <4> HIDE DEF m
      <4> QED BY <4>1, <4>2
    <3> QED BY <3>1, <3>2, <3>3 DEF Behind
  <2> QED BY <2>1, <2>2, <2>3
<1> QED BY <1>1, Invariant, PTL

\* A device that was not set back makes documents no longer than a business day after the
\* read-only date of a license it may have had, or after its maximum offline time (resolve,
\* evaluate and renewed), for any licenses and any days.
THEOREM DocumentsAreWithin == Spec => []DocumentsWithinLicense
<1>1. IInv => DocumentsWithinLicense
  <2> DEFINE r == [opening |-> TRUE, bundle |-> bundle]
             at == real - since.lag
             held == DayAfter(r)
             now == DeviceTime
             k == LastContact(bundle)
  <2> SUFFICES ASSUME IInv, InContact, ~since.back, Restriction(bundle, refused, held) = "none"
               PROVE  /\ Evaluates(r) \/ BusinessDate(judged) >= day.date =>
                           \E l \in 1..bundle.license : at < Starts[l][ReadOnly] + DayLength
                      /\ since.evaluated \/ Evaluates(r) => at - k < MaxOffline + DayLength
    BY DEF DocumentsWithinLicense
  <2>0. TypeOK /\ Clocks /\ Order /\ Judged /\ Offline
    BY DEF IInv
  <2>1. bundle # None /\ held.state # Suspended /\ held.state # ReadOnly /\ ~held.offline
    <3> HIDE DEF held
    <3> QED BY DEF Restriction
  <2>2. bundle \in Bundle /\ r \in Reader /\ r.bundle = bundle
    BY <2>0, <2>1 DEF TypeOK, Reader
  <2>3. held \in Day /\ held.state \in 0..2
    <3>1. held \in Day
      <4> HIDE DEF r
      <4> QED BY <2>0, <2>1, <2>2, DayAfterIs
    <3>2. held.state \in 0..4
      <4> HIDE DEF held
      <4> QED BY <3>1 DEF Day, States
    <3> HIDE DEF held
    <3> QED BY <2>1, <3>1, <3>2 DEF ReadOnly, Suspended
  <2>4. now \in Nat /\ at \in Int /\ at <= now /\ BusinessDate(now) \in Nat
    <3> DEFINE s == guard.server
               a == guard.localAt
               g == since.lag
    <3>1. /\ s \in Nat /\ a \in Nat /\ local \in Nat /\ now = s + (local - a) /\ now \in Nat
          /\ g \in Nat /\ real \in Nat
      BY <2>0, NowIs, SinceIs, ClocksAre
    <3>2. local - a >= real - (s + g) /\ at = real - g
      BY <2>0 DEF Clocks
    <3> HIDE DEF s, a, g, now, at
    <3>3. at \in Int
      BY <3>1, <3>2
    <3>4. at <= now
      BY <3>1, <3>2
    <3> QED BY <3>1, <3>3, <3>4, DateIs
  <2>5. /\ Len(Starts) \in Nat /\ Licenses = 1..Len(Starts)
        /\ bundle.license \in Licenses /\ bundle.license \in Nat
    <3>1. Len(Starts) \in Nat /\ Licenses = 1..Len(Starts)
      BY DeviceLicenseAssumption, LenProperties DEF Licenses
    <3>2. bundle.license \in Licenses
      BY <2>2 DEF Bundle
    <3> QED BY <3>1, <3>2
  <2>6. \A l \in Licenses : Starts[l][ReadOnly] \in Nat
    BY DeviceLicenseAssumption DEF ReadOnly, Licenses
  <2>7. MaxOffline \in Nat /\ DayLength \in Nat /\ DayLength > 0 /\ k \in Nat
    BY <2>0, <2>2, LastContactIs
  \* A time a license was not read-only at, of the date of now or a later one.
  <2>8. ASSUME NEW l \in Licenses, l <= bundle.license, NEW t \in Nat,
               StateOf(l, t) < ReadOnly, now < t + DayLength
        PROVE  \E i \in 1..bundle.license : at < Starts[i][ReadOnly] + DayLength
    <3> DEFINE start == Starts[l][ReadOnly]
    <3>1. start \in Nat /\ t < start
      BY <2>6, <2>8, StateIs
    <3> HIDE DEF start, now, at
    <3>2. at < start + DayLength
      BY <2>4, <2>7, <2>8, <3>1
    <3>3. l \in 1..bundle.license
      <4> DEFINE b == bundle.license
      <4>1. b \in Nat /\ l <= b /\ l \in 1..Len(Starts) /\ Len(Starts) \in Nat
        BY <2>5, <2>8
      <4> HIDE DEF b
      <4>2. l \in 1..b
        BY <4>1
      <4> QED BY <4>2 DEF b
    <3> QED BY <3>2, <3>3 DEF start
  <2>9. bundle.license <= bundle.license /\ now < now + DayLength
    <3> DEFINE b == bundle.license
    <3>1. b \in Nat
      BY <2>5
    <3> HIDE DEF now, b
    <3>2. b <= b /\ now < now + DayLength
      BY <2>4, <2>7, <3>1
    <3> QED BY <3>2 DEF b
  <2>10. ~(now - k > MaxOffline) => at - k < MaxOffline + DayLength
    <3> HIDE DEF now, at, k
    <3> QED BY <2>4, <2>7
  <2>11. CASE Evaluates(r)
    <3>1. /\ held.state = StateOf(bundle.license, now)
          /\ held.offline = (now - k > MaxOffline)
      <4>1. held = Evaluated(bundle)
        <5> HIDE DEF r
        <5> QED BY <2>0, <2>1, <2>2, <2>11, DayAfterIs
      <4> HIDE DEF held
      <4> QED BY <2>0, <2>2, <4>1, EvaluatedIs
    <3>2. StateOf(bundle.license, now) < ReadOnly
      <4> HIDE DEF held
      <4> QED BY <2>3, <3>1 DEF ReadOnly
    <3>3. \E i \in 1..bundle.license : at < Starts[i][ReadOnly] + DayLength
      BY <2>4, <2>5, <2>8, <2>9, <3>2
    <3>4. ~(now - k > MaxOffline)
      BY <2>1, <3>1, Zenon
    <3> QED BY <2>10, <3>3, <3>4
  <2>12. CASE ~Evaluates(r)
    <3>1. day # None /\ day.date = BusinessDate(now)
      BY <2>12 DEF Evaluates
    <3>2. /\ day \in Day
          /\ \/ held = day
             \/ /\ bundle.license > day.license
                /\ held.state = IF StateOf(bundle.license, now) < day.state
                                THEN StateOf(bundle.license, now) ELSE day.state
                /\ held.offline = (day.offline /\ now - k > MaxOffline)
      <4> HIDE DEF r
      <4> QED BY <2>0, <2>1, <2>2, <2>12, DayAfterIs
    <3>3. ASSUME BusinessDate(judged) >= day.date
          PROVE  \E i \in 1..bundle.license : at < Starts[i][ReadOnly] + DayLength
      <4>1. CASE held.state = StateOf(bundle.license, now)
        <5>1. StateOf(bundle.license, now) < ReadOnly
          <6> HIDE DEF held
          <6> QED BY <2>3, <4>1 DEF ReadOnly
        <5> QED BY <2>4, <2>5, <2>8, <2>9, <5>1
      <4>2. CASE held.state = day.state
        <5>1. PICK l \in 1..day.license : day.state = StateOf(l, judged)
          BY <2>0, <3>1 DEF Judged
        <5>2. l \in Licenses /\ l <= bundle.license
          <6> DEFINE d == day.license
                     b == bundle.license
                     n == Len(Starts)
          <6>1. /\ d <= b /\ d \in 1..n /\ b \in 1..n /\ l \in 1..d /\ n \in Nat
            BY <2>0, <2>5, <3>1, <3>2, <5>1 DEF Order, Day
          <6> HIDE DEF d, b, n
          <6>2. d \in Int /\ d <= n /\ b \in Int /\ l \in Int /\ 1 <= l /\ l <= d
            BY <6>1
          <6>3. l \in 1..n /\ l <= b
            BY <6>1, <6>2
          <6> QED BY <2>5, <6>3 DEF b, n
        <5>3. judged \in Nat
          BY <2>0, ClocksAre DEF TypeOK, DeviceTimes
        <5>4. StateOf(l, judged) < ReadOnly
          <6> HIDE DEF held
          <6> QED BY <2>3, <4>2, <5>1 DEF ReadOnly
        <5>5. now < judged + DayLength
          <6> HIDE DEF now
          <6>1. BusinessDate(now) <= BusinessDate(judged)
            BY <2>4, <3>1, <3>3, <5>3, DateIs
          <6> QED BY <2>4, <5>3, <6>1, DatesGrow
        <5> QED BY <2>8, <5>2, <5>3, <5>4, <5>5
      <4> QED BY <3>2, <4>1, <4>2
    <3>4. ASSUME since.evaluated
          PROVE  at - k < MaxOffline + DayLength
      <4>1. CASE ~day.offline
        <5>1. now - k < MaxOffline + DayLength
          BY <2>0, <2>4, <3>1, <3>4, <4>1 DEF Offline
        <5> HIDE DEF now, at, k
        <5> QED BY <2>4, <2>7, <5>1
      <4>2. CASE ~(now - k > MaxOffline)
        BY <2>10, <4>2
      <4>3. ~day.offline \/ ~(now - k > MaxOffline)
        <5> HIDE DEF held, now, k
        <5> QED BY <2>1, <3>2, Zenon
      <4> QED BY <4>1, <4>2, <4>3
    <3> QED BY <2>12, <3>3, <3>4
  <2> QED BY <2>11, <2>12
<1> QED BY <1>1, Invariant, PTL
=============================================================================
