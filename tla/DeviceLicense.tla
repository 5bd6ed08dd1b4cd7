--------------------------- MODULE DeviceLicense ---------------------------
(***************************************************************************)
(* The license on a device: the clock guard, and the state held for the    *)
(* business day (core/tenancy/src/client/device-license.ts).               *)
(*                                                                         *)
(* The local clock runs as fast as the server's, from any offset, and is   *)
(* set to any time.  A sync round brings a bundle and the server's signed  *)
(* time, and may take a while.  A reading of the license loads the bundle  *)
(* first and opens its transaction after, so a round may come in between.  *)
(***************************************************************************)
EXTENDS Integers, Sequences, FiniteSets

CONSTANTS
  Tolerance,   \* CLOCK_TOLERANCE_MS: how far behind the mark the clock may be
  SkewLimit,   \* CLOCK_SKEW_LIMIT_MS: how far from the server's
  MarkStep,    \* MARK_WRITE_STEP_MS: how far the mark moves before it is written again
  DayLength,   \* of a business day
  Starts,      \* for each license, in the order issued: when expiring, grace, read-only and
               \* suspended begin
  MaxOffline,  \* maxOfflineDays, in the same unit of time
  Offset,      \* what the local clock is ahead by at first
  MaxTime,     \* bound: of the server's clock
  MaxLocal,    \* bound: of the local clock
  Settings,    \* bound: what the local clock is set to
  MaxSets      \* bound: how often the local clock is set

ASSUME DeviceLicenseAssumption ==
  /\ Tolerance \in Nat /\ SkewLimit \in Nat /\ DayLength \in Nat \ {0}
  /\ MarkStep \in 1..Tolerance
  /\ Starts \in Seq([1..4 -> Nat]) /\ Starts # <<>>
  /\ \A l \in DOMAIN Starts : \A i, j \in 1..4 : i <= j => Starts[l][i] <= Starts[l][j]
  /\ MaxOffline \in Nat /\ MaxTime \in Nat /\ MaxLocal \in Nat
  /\ Offset \in 0..MaxLocal /\ Settings \subseteq 0..MaxLocal /\ MaxSets \in Nat

VARIABLES
  real,       \* the server's clock
  local,      \* the device's
  sets,       \* how often it was set
  installed,  \* the license installed at the server
  guard,      \* tenancy_clock_guard
  day,        \* tenancy_license_day
  bundle,     \* config_bundle: its license, and when it was issued
  refused,    \* config_bundle_refusal: there is one
  answer,     \* the answer of the server to the round's bundle request
  reader,     \* a reading of the license that has loaded the bundle
  since,      \* history, since the last server contact: see Contact
  judged      \* history: the device's time that the state held for the day is of

clocks == <<real, local, sets>>
roundVars == <<bundle, refused, answer>>
history == <<since, judged>>
vars == <<clocks, installed, guard, day, roundVars, reader, history>>

Licenses == DOMAIN Starts
Times == 0..MaxTime
LocalTimes == 0..MaxLocal
DeviceTimes == 0..(MaxTime + MaxLocal)
None == [none |-> TRUE]

Guard ==
  [mark : LocalTimes, server : Times \cup {-1}, localAt : LocalTimes \cup {-1}, behind : BOOLEAN]

States == 0..4   \* LICENSE_STATES: active, expiring, grace, readOnly, suspended
ReadOnly == 3
Suspended == 4

Day ==
  [date : 0..(MaxTime + MaxLocal), state : States, license : Licenses, offline : BOOLEAN]

Bundle == [license : Licenses, issued : Times]

\* Whether a reading is an opening (a sign-in or an unlock), and the bundle as it was loaded.
Reader == [opening : BOOLEAN, bundle : Bundle \cup {None}]

\* The bundle offered, None when the device has it; damaged or not; and the time it was signed.
Answer == [bundle : Bundle \cup {None}, damaged : BOOLEAN, taken : BOOLEAN, time : Times]

-----------------------------------------------------------------------------
(* The clock guard. *)

MovedBack == guard # None /\ local < guard.mark - Tolerance

\* The mark a reading counts on.
\* (LocalOf, a bug: the local clock as it is.)
LocalOf == local

MarkOf == IF guard = None \/ local > guard.mark THEN local ELSE guard.mark

\* A bug: the device's clock, whatever its offset from the server's.
ClockOf(mark) == mark

\* readingOf: the last server time and the local time elapsed since, or the mark before any.
TimeAt(mark) ==
  IF guard = None \/ guard.server = -1 THEN mark
  ELSE guard.server + (IF mark > guard.localAt THEN mark - guard.localAt ELSE 0)

DeviceTime == TimeAt(MarkOf)

Behind == MovedBack \/ (guard # None /\ guard.behind)

Wrong ==
  /\ guard # None /\ guard.server # -1
  /\ \/ guard.localAt - guard.server > SkewLimit
     \/ guard.server - guard.localAt > SkewLimit

\* A bug: the mark follows the local clock, back within the tolerance too.
FollowsClock ==
  IF guard = None THEN [mark |-> local, server |-> -1, localAt |-> -1, behind |-> FALSE]
  ELSE [guard EXCEPT !.mark = local, !.behind = MovedBack]

\* observeClock: what a reading writes.  The mark moves by whole steps.
Observed ==
  IF guard = None THEN [mark |-> local, server |-> -1, localAt |-> -1, behind |-> FALSE]
  ELSE IF MovedBack THEN [guard EXCEPT !.behind = TRUE]
  ELSE IF local >= guard.mark + MarkStep THEN [guard EXCEPT !.mark = local]
  ELSE guard

Seen == [since EXCEPT !.peak = IF DeviceTime > @ THEN DeviceTime ELSE @]

-----------------------------------------------------------------------------
(* The license of the day. *)

BusinessDate(t) == t \div DayLength

\* licenseState: each boundary instant belongs to the later state.
StateOf(license, t) == Cardinality({i \in 1..4 : t >= Starts[license][i]})

\* lastContact
LastContact(b) ==
  IF guard # None /\ guard.server > b.issued THEN guard.server ELSE b.issued

\* evaluate, at the device's time as read.
Evaluated(b) ==
  [date |-> BusinessDate(DeviceTime), state |-> StateOf(b.license, DeviceTime),
   license |-> b.license, offline |-> DeviceTime - LastContact(b) > MaxOffline]

\* renewed: a license issued later lifts what it improves.
Renewed(next) ==
  [day EXCEPT !.state = IF next.state < @ THEN next.state ELSE @,
              !.offline = @ /\ next.offline,
              !.license = next.license]

\* Whether r evaluates the day: the first time, or a sign-in on another business day.
\* (FirstOnly, a bug: the day is never evaluated again.)
FirstOnly(r) == day = None

Evaluates(r) == day = None \/ (r.opening /\ day.date # BusinessDate(DeviceTime))

\* What a reading holds for the day.
DayAfter(r) ==
  IF r.bundle = None THEN day
  ELSE LET next == Evaluated(r.bundle)
       IN  IF Evaluates(r) THEN next
           ELSE IF next.license > day.license THEN Renewed(next)
           ELSE day

\* Whether r makes the state held the one of its own time.
Judges(r) == r.bundle # None /\ (Evaluates(r) \/ DayAfter(r).state < day.state)

\* restrictionOf, of a reading that loaded b, or that a bundle was refused, and holds d.
Restriction(b, refusal, d) ==
  IF b = None THEN IF refusal THEN "bundleRefused" ELSE "bundleMissing"
  ELSE IF d.state = Suspended THEN "suspended"
  ELSE IF d.state = ReadOnly THEN "readOnly"
  ELSE IF Behind THEN "clockBehind"
  ELSE IF Wrong THEN "clockWrong"
  ELSE IF refusal THEN "bundleRefused"
  ELSE IF d.offline THEN "offlineTooLong"
  ELSE "none"

-----------------------------------------------------------------------------
(* Clocks. *)

Tick ==
  /\ real < MaxTime /\ local < MaxLocal
  /\ real' = real + 1 /\ local' = local + 1
  /\ UNCHANGED <<sets, installed, guard, day, roundVars, reader, history>>

SetClock ==
  /\ sets < MaxSets
  /\ \E clock \in Settings \ {local} :
       /\ local' = clock
       /\ since' = [since EXCEPT !.moved = TRUE, !.back = @ \/ clock < local]
  /\ sets' = sets + 1
  /\ UNCHANGED <<real, installed, guard, day, roundVars, reader, judged>>

-----------------------------------------------------------------------------
(* Sync rounds, one after the other. *)

Install ==
  /\ installed < Len(Starts)
  /\ installed' = installed + 1
  /\ UNCHANGED <<clocks, guard, day, roundVars, reader, history>>

\* The server answers with its bundle, unless the device has it and refused none since, and with
\* its time.
Ask ==
  /\ answer = None
  /\ IF bundle # None /\ bundle.license = installed /\ ~refused
     THEN answer' = [bundle |-> None, damaged |-> FALSE, taken |-> FALSE, time |-> real]
     ELSE \E damaged \in BOOLEAN :
            answer' = [bundle |-> [license |-> installed, issued |-> real],
                       damaged |-> damaged, taken |-> FALSE, time |-> real]
  /\ UNCHANGED <<clocks, installed, guard, day, bundle, refused, reader, history>>

Lose ==
  /\ answer # None
  /\ answer' = None
  /\ UNCHANGED <<clocks, installed, guard, day, bundle, refused, reader, history>>

\* acceptBundle
AcceptBundle ==
  /\ answer # None /\ ~answer.taken
  /\ answer' = [answer EXCEPT !.taken = TRUE]
  /\ IF answer.bundle = None THEN UNCHANGED <<bundle, refused>>
     ELSE /\ refused' = answer.damaged
          /\ bundle' = IF answer.damaged THEN bundle ELSE answer.bundle
  /\ UNCHANGED <<clocks, installed, guard, day, reader, history>>

\* A bug: the mark is the latest time ever seen.
KeepsHighest ==
  [mark |-> IF guard # None /\ guard.mark > local THEN guard.mark ELSE local,
   server |-> answer.time, localAt |-> local, behind |-> FALSE]

\* A bug: a clock moved back is not forgiven.
KeepsBehind ==
  [mark |-> local, server |-> answer.time, localAt |-> local,
   behind |-> guard # None /\ guard.behind]

\* The mark restarts from the local clock, and a clock moved back is forgiven.
Contacted ==
  [mark |-> local, server |-> answer.time, localAt |-> local, behind |-> FALSE]

\* What the history keeps of a contact: how late the server's time was taken; the latest time a
\* reading had since; whether the local clock was set, and set back, since; whether the day was
\* evaluated since.
Contact ==
  [lag |-> real - answer.time, peak |-> answer.time, moved |-> FALSE, back |-> FALSE,
   evaluated |-> FALSE]

\* recordServerTime: a time not later than the last one is ignored.
RecordServerTime ==
  /\ answer # None /\ answer.taken
  /\ answer' = None
  /\ IF guard # None /\ answer.time <= guard.server
     THEN UNCHANGED <<guard, day, since>>
     ELSE /\ guard' = Contacted
          /\ day' = IF day = None THEN None ELSE [day EXCEPT !.offline = FALSE]
          /\ since' = Contact
  /\ UNCHANGED <<clocks, installed, bundle, refused, reader, judged>>

-----------------------------------------------------------------------------
(* Readings. *)

LoadBundle ==
  /\ reader = None
  /\ \E opening \in BOOLEAN :
       reader' = [opening |-> opening, bundle |-> bundle]
  /\ UNCHANGED <<clocks, installed, guard, day, roundVars, history>>

\* resolve: openLicenseDay and deviceLicense.
Resolve ==
  /\ reader # None
  /\ guard' = Observed
  /\ day' = DayAfter(reader)
  /\ reader' = None
  /\ since' = [Seen EXCEPT !.evaluated = @ \/ (reader.bundle # None /\ Evaluates(reader))]
  /\ judged' = IF Judges(reader) THEN DeviceTime ELSE judged
  /\ UNCHANGED <<clocks, installed, roundVars>>

\* deviceTime: the time of a rate set on the device.
ReadTime ==
  /\ guard' = Observed
  /\ since' = Seen
  /\ UNCHANGED <<clocks, installed, day, roundVars, reader, judged>>

-----------------------------------------------------------------------------
Init ==
  /\ real = 0 /\ local = Offset /\ sets = 0
  /\ installed = 1
  /\ guard = None /\ day = None
  /\ bundle = None /\ refused = FALSE /\ answer = None
  /\ reader = None
  /\ since = [lag |-> 0, peak |-> 0, moved |-> FALSE, back |-> FALSE, evaluated |-> FALSE]
  /\ judged = 0

Next ==
  \/ Tick \/ SetClock \/ Install
  \/ Ask \/ Lose \/ AcceptBundle \/ RecordServerTime
  \/ LoadBundle \/ Resolve \/ ReadTime

\* Rounds follow one another, and an answer that is asked for again and again gets through; time
\* passes.
Fairness == WF_vars(Tick) /\ WF_vars(Ask) /\ SF_vars(AcceptBundle) /\ SF_vars(RecordServerTime)

Spec == Init /\ [][Next]_vars

FairSpec == Spec /\ Fairness

-----------------------------------------------------------------------------
(* Properties. *)

InContact == guard # None /\ guard.server # -1

\* Types; and the mark is never earlier than the local clock at the last server contact.
TypeOK ==
  /\ real \in Times /\ local \in LocalTimes /\ sets \in 0..MaxSets
  /\ installed \in Licenses
  /\ guard \in Guard \cup {None}
  /\ guard # None => (guard.server = -1 <=> guard.localAt = -1) /\ guard.mark >= guard.localAt
  /\ day \in Day \cup {None}
  /\ bundle \in Bundle \cup {None} /\ refused \in BOOLEAN
  /\ answer \in Answer \cup {None}
  /\ reader \in Reader \cup {None}
  /\ since \in [lag : Times, peak : DeviceTimes, moved : BOOLEAN, back : BOOLEAN,
                evaluated : BOOLEAN]
  /\ judged \in DeviceTimes

\* Setting the clock back never takes the device's time back by as much as a step of the mark.
NeverFallsBack == guard # None => DeviceTime > since.peak - MarkStep

\* From a server contact on the device's time is the server's, less what the answer took, however
\* wrong the local clock is; setting it ahead makes it later, and only setting it back earlier.
FollowsServer ==
  InContact =>
    /\ ~since.moved => DeviceTime = real - since.lag
    /\ ~since.back => DeviceTime >= real - since.lag

\* A device is found behind only if its clock was set back since the last contact: not because it
\* was ahead and put right before it, and not for being wrong.
OnlySetBackIsBehind == Behind => since.back

\* What the clock guard keeps (core-foundation rule 8, ADR-0021; device-license.ts, observeClock
\* and recordServerTime).
GuardKeepsTime == NeverFallsBack /\ FollowsServer /\ OnlySetBackIsBehind

\* After a sign-in a device makes documents no longer than a business day after the read-only
\* date of every license it may have had, and after its maximum offline time, by the server's
\* clock; unless its clock was set back since the last contact (core-foundation rules 6 and 7;
\* resolve, evaluate and renewed).  What the code does not keep is left out: a day evaluated ahead
\* of its date, when the clock was ahead, is not evaluated again on it, so a state that a renewal
\* lifted before then is held on; and a contact lifts the offline time of such a day.
DocumentsWithinLicense ==
  LET r == [opening |-> TRUE, bundle |-> bundle]
      at == real - since.lag
  IN  InContact /\ ~since.back /\ Restriction(bundle, refused, DayAfter(r)) = "none" =>
        /\ Evaluates(r) \/ BusinessDate(judged) >= day.date =>
             \E l \in 1..bundle.license : at < Starts[l][ReadOnly] + DayLength
        /\ since.evaluated \/ Evaluates(r) => at - LastContact(bundle) < MaxOffline + DayLength

Locked == (guard # None /\ guard.behind) \/ (day # None /\ day.offline)

\* A device read-only because its clock was set back, or for being offline too long, reaches the
\* server and is so no more, a damaged bundle in the same answer notwithstanding.
LocksEnd == Locked /\ real < MaxTime ~> ~Locked
=============================================================================
