------------------------- MODULE DeviceRegistration -------------------------
(***************************************************************************)
(* The devices of a store and the numbers of their documents: the owner's  *)
(* one-time codes, the transaction that registers a device and the         *)
(* revocation (core/access/src/server/devices.ts), what a machine keeps of *)
(* its registration (core/access/src/client/device.ts) and loses in a wipe *)
(* (core/sync/src/client/engine.ts, packages/local-db/src/wipe.ts), and    *)
(* the number a sale takes (modules/sales/src/client/local-sales.ts).      *)
(*                                                                         *)
(* A registration and the device it makes have one name.  When a revoked   *)
(* device may wipe is in PushSync: here it may as soon as it is revoked.   *)
(***************************************************************************)
EXTENDS Integers, FiniteSets

CONSTANTS
  Machines,      \* what the app runs on
  Registrations, \* requests to register a device of one type
  Codes,         \* registration codes
  DocPrefixes,   \* the prefixes of the tenant's documents
  Limit,         \* the devices of the type that the license allows
  MaxSales,      \* bound: sales of a machine between two wipes
  Nothing        \* no registration, code or prefix

ASSUME DeviceRegistrationAssumption ==
  /\ Limit \in Nat /\ MaxSales \in Nat
  /\ Nothing \notin Registrations
  /\ IsFiniteSet(Registrations)

VARIABLES
  codes,      \* registration_codes: not issued, live, used or expired
  server,     \* each registration on the server: a transaction, then the device's row
  asked,      \* the registration whose answer a machine waits for
  device,     \* access_device of each machine: the device it is
  counter,    \* sync_counters "doc:INV" of each machine
  numbers     \* how often each document number was given

vars == <<codes, server, asked, device, counter, numbers>>

Numbers == DocPrefixes \X (1..MaxSales)

\* The code a registration was sent with, and the prefix its device got.
Row ==
  [state : {"unsent", "sent", "late", "coded", "placed", "active", "revoked", "refused"},
   code : Codes \cup {Nothing}, prefix : DocPrefixes \cup {Nothing}]

In(states) == {r \in Registrations : server[r].state \in states}

Devices == In({"active", "revoked"})

-----------------------------------------------------------------------------
(* The owner. *)

\* issueRegistrationCode.
IssueCode(c) ==
  /\ codes[c] = "unissued"
  /\ codes' = [codes EXCEPT ![c] = "live"]
  /\ UNCHANGED <<server, asked, device, counter, numbers>>

\* REGISTRATION_CODE_LIFETIME_MS is over.
CodeExpires(c) ==
  /\ codes[c] = "live"
  /\ codes' = [codes EXCEPT ![c] = "expired"]
  /\ UNCHANGED <<server, asked, device, counter, numbers>>

\* revokeDevice: the device counts no longer against the limit.
Revoke(r) ==
  /\ server[r].state = "active"
  /\ server' = [server EXCEPT ![r].state = "revoked"]
  /\ UNCHANGED <<codes, asked, device, counter, numbers>>

-----------------------------------------------------------------------------
(* A machine. *)

\* registerThisDevice, of a machine that is not registered and waits for no answer.  The server
\* judges the code's expiry by the time the request came, whatever it waits for afterwards.
Ask(m, r, c) ==
  /\ device[m] = Nothing /\ asked[m] = Nothing
  /\ server[r].state = "unsent" /\ codes[c] # "unissued"
  /\ server' = [server EXCEPT ![r].state = IF codes[c] = "expired" THEN "late" ELSE "sent",
                              ![r].code = c]
  /\ asked' = [asked EXCEPT ![m] = r]
  /\ UNCHANGED <<codes, device, counter, numbers>>

\* The answer arrives: the machine is the device from then on.
Keep(m) ==
  /\ asked[m] \in Devices
  /\ device' = [device EXCEPT ![m] = asked[m]]
  /\ asked' = [asked EXCEPT ![m] = Nothing]
  /\ UNCHANGED <<codes, server, counter, numbers>>

\* The registration is refused, its answer is lost, or the app stops before it is kept.
GiveUp(m) ==
  /\ asked[m] # Nothing
  /\ asked' = [asked EXCEPT ![m] = Nothing]
  /\ UNCHANGED <<codes, server, device, counter, numbers>>

\* completeCashSale: the number is the device's prefix and the next of the machine's counter.  The
\* prefix is the caller's, read before the transaction that takes the number; a wipe in between
\* leaves no cart and no department, so that the sale is refused, and the two are read at once here.
\* (LastNumber, a bug: the counter is read before it is stored.)
LastNumber(m) == IF counter[m] = 0 THEN 1 ELSE counter[m]

NextNumber(m) == counter[m] + 1

Sell(m) ==
  /\ device[m] # Nothing /\ counter[m] < MaxSales
  /\ counter' = [counter EXCEPT ![m] = NextNumber(m)]
  /\ numbers' = [numbers EXCEPT ![<<server[device[m]].prefix, NextNumber(m)>>] = @ + 1]
  /\ UNCHANGED <<codes, server, asked, device>>

\* wipeWhenAnswered: the device's row and its counters go, with everything else.
Wipe(m) ==
  /\ device[m] # Nothing /\ server[device[m]].state = "revoked"
  /\ device' = [device EXCEPT ![m] = Nothing]
  /\ counter' = [counter EXCEPT ![m] = 0]
  /\ UNCHANGED <<codes, server, asked, numbers>>

-----------------------------------------------------------------------------
(* The transaction of a registration (registerDevice, READ COMMITTED). *)

\* The code's row is locked by the transaction that uses it up.
CodeFree(c) == \A r \in In({"coded", "placed"}) : server[r].code # c

\* A code works once.
\* (Known, a bug: any code that was issued works.)
Known(c) == codes[c] # "unissued"

Unused(c) == codes[c] # "used"

TakeCode(r) ==
  LET c == server[r].code
  IN  /\ server[r].state = "sent"
      /\ CodeFree(c) /\ Unused(c)
      /\ server' = [server EXCEPT ![r].state = "coded"]
      /\ UNCHANGED <<codes, asked, device, counter, numbers>>

RefuseCode(r) ==
  LET c == server[r].code
  IN  /\ \/ server[r].state = "late"
         \/ server[r].state = "sent" /\ CodeFree(c) /\ ~Unused(c)
      /\ server' = [server EXCEPT ![r].state = "refused"]
      /\ UNCHANGED <<codes, asked, device, counter, numbers>>

\* One registration of the tenant at a time, from pg_advisory_xact_lock to the commit.
\* (LockOpen, a bug: no lock.)
LockOpen == Cardinality(In({"placed"})) <= Cardinality(Registrations)

LockFree == In({"placed"}) = {}

\* checkDeviceLimit: the devices that are not revoked.
\* (WithinOrAt, a bug: one more than the license allows.)
WithinOrAt == Cardinality(In({"active"})) <= Limit

Allowed == Cardinality(In({"active"})) < Limit

\* A prefix that no device ever had.
\* (UnusedNow, a bug: one that no device has any longer.)
UnusedNow == {p \in DocPrefixes : \A r \in In({"active"}) : server[r].prefix # p}

FreePrefixes == {p \in DocPrefixes : \A r \in Devices : server[r].prefix # p}

\* With the lock: the limit is checked, and one of the free prefixes chosen at random.
Place(r) ==
  /\ server[r].state = "coded"
  /\ LockFree /\ Allowed
  /\ \E p \in FreePrefixes :
       server' = [server EXCEPT ![r].state = "placed", ![r].prefix = p]
  /\ UNCHANGED <<codes, asked, device, counter, numbers>>

\* The device's row is inserted; the use of the code commits with it.
Register(r) ==
  /\ server[r].state = "placed"
  /\ server' = [server EXCEPT ![r].state = "active"]
  /\ codes' = [codes EXCEPT ![server[r].code] = "used"]
  /\ UNCHANGED <<asked, device, counter, numbers>>

\* The license, its limit, the prefixes or an error: all is rolled back, the code works still.
Refuse(r) ==
  /\ server[r].state \in {"coded", "placed"}
  /\ server' = [server EXCEPT ![r].state = "refused"]
  /\ UNCHANGED <<codes, asked, device, counter, numbers>>

-----------------------------------------------------------------------------
Init ==
  /\ codes = [c \in Codes |-> "unissued"]
  /\ server = [r \in Registrations |-> [state |-> "unsent", code |-> Nothing, prefix |-> Nothing]]
  /\ asked = [m \in Machines |-> Nothing]
  /\ device = [m \in Machines |-> Nothing]
  /\ counter = [m \in Machines |-> 0]
  /\ numbers = [n \in Numbers |-> 0]

Next ==
  \/ \E c \in Codes : IssueCode(c) \/ CodeExpires(c)
  \/ \E m \in Machines : \E r \in Registrations, c \in Codes : Ask(m, r, c)
  \/ \E m \in Machines : Keep(m) \/ GiveUp(m) \/ Sell(m) \/ Wipe(m)
  \/ \E r \in Registrations :
       TakeCode(r) \/ RefuseCode(r) \/ Place(r) \/ Register(r) \/ Refuse(r) \/ Revoke(r)

Spec == Init /\ [][Next]_vars

-----------------------------------------------------------------------------
(* Properties. *)

\* Types; and one registration of the store at most is between the lock and its commit.
TypeOK ==
  /\ codes \in [Codes -> {"unissued", "live", "used", "expired"}]
  /\ server \in [Registrations -> Row]
  /\ asked \in [Machines -> Registrations \cup {Nothing}]
  /\ device \in [Machines -> Registrations \cup {Nothing}]
  /\ counter \in [Machines -> 0..MaxSales]
  /\ numbers \in [Numbers -> Nat]
  /\ Cardinality(In({"placed"})) <= 1

\* No two documents of the store have one number, whichever machines made them, revoked, wiped and
\* registered again meanwhile (ADR-0020; non-negotiable 8: no prefix is ever given twice).
NumbersUnique == \A n \in Numbers : numbers[n] <= 1

\* The store never has more devices than its license allows, a code makes one device at most
\* ("two devices racing with one code get one registration"), and no two machines are one device.
RegistrationsAllowed ==
  /\ Cardinality(In({"active"})) <= Limit
  /\ \A r, s \in Devices : server[r].code = server[s].code => r = s
  /\ \A m, n \in Machines : device[m] = device[n] => m = n \/ device[m] = Nothing
=============================================================================
