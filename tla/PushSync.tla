------------------------------ MODULE PushSync ------------------------------
(***************************************************************************)
(* The push half of core.sync: the outbox of a device (client/outbox.ts,   *)
(* client/engine.ts), the ingest of its operations on the server           *)
(* (server/push.ts), and the network between them, which loses, delays,    *)
(* duplicates and reorders requests (packages/testing/src/sync-sim).       *)
(*                                                                         *)
(* An operation is named by its device and its deviceSeq: the opId is a    *)
(* fresh UUID made in the local transaction that takes the number, so the  *)
(* two name the same thing.  A device here is one registration: after its  *)
(* wipe a client registers again as another device.                        *)
(***************************************************************************)
EXTENDS Naturals, Sequences, FiniteSets

CONSTANTS
  Devices,      \* the registered devices of one tenant
  MaxOps,       \* bound: operations a device makes
  BatchLimit,   \* PUSH_BATCH_LIMIT, the most operations a push carries
  MaxLate,      \* bound: requests of a device under way that it no longer awaits
  ServerLoses,  \* whether the server may lose the tail of a device's operations, once
  Heals         \* whether the faults may end (needed for liveness alone)

ASSUME PushSyncAssumption ==
  /\ MaxOps \in Nat \ {0}
  /\ BatchLimit \in Nat \ {0}
  /\ MaxLate \in Nat
  /\ ServerLoses \in BOOLEAN /\ Heals \in BOOLEAN

VARIABLES
  outbox,       \* sync_outbox: the state of each operation, "none" while there is no row
  deviceSeq,    \* sync_counters: the last number taken
  phase,        \* "registered", or "wiped" once a revoked device dropped its tables
  toldRevoked,  \* the running round was told that the device is revoked
  received,     \* received_ops: the rows of each device, in commit order
  revoked,      \* devices.revoked_at is set
  calls,        \* push requests under way, on the wire and in the server
  healed,       \* the faults are over (sync-sim: the network is healed)
  sold,         \* history: how many operations the device ever committed
  lost,         \* history: the operations whose rows the server lost
  rowsAtRevoke  \* history: how many rows the device had when its revoke committed

deviceVars == <<outbox, deviceSeq, phase, sold>>
serverVars == <<received, revoked, rowsAtRevoke, lost>>
vars == <<deviceVars, toldRevoked, serverVars, calls, healed>>

Seqs == 1..MaxOps

Outcome == {"accepted", "rejected"}
Answer == {"accepted", "duplicate", "rejected"}
OutboxState == {"none", "pending"} \cup Answer

\* A row of received_ops: its number, how it ended, and whether it was flagged deviceRevoked.
Row == [seq : Seqs, status : Outcome, flagged : BOOLEAN]

\* A push under way.  todo holds the operations still to process, answers those processed;
\* expected, stored and sawRevoked are what the running transaction read ("tx").
Call ==
  [dev : Devices, todo : SUBSET Seqs, step : {"sent", "between", "tx", "done"},
   expected : Nat, stored : Outcome \cup {"none"}, sawRevoked : BOOLEAN, rejecting : BOOLEAN,
   answers : [Seqs -> Answer \cup {"none"}], gap : Nat, revoked : BOOLEAN, awaited : BOOLEAN]

-----------------------------------------------------------------------------
(* What the code reads. *)

Pending(d) == {n \in Seqs : outbox[d][n] = "pending"}

Awaiting(d) == \E c \in calls : c.dev = d /\ c.awaited

Late(d) == {c \in calls : c.dev = d /\ ~c.awaited}

\* The oldest pending operations, as many as a batch takes: its size in bytes may stop it
\* anywhere after the first.
\* (BatchNewest, a bug: the newest ones.)
BatchNewest(d, size) == {n \in Pending(d) : Cardinality({m \in Pending(d) : m > n}) < size}

Batch(d, size) == {n \in Pending(d) : Cardinality({m \in Pending(d) : m < n}) < size}

Oldest(n, S) == n \in S /\ \A m \in S : n <= m

Numbers(d) == {received[d][i].seq : i \in DOMAIN received[d]}

LastSeq(d) == CHOOSE n \in Numbers(d) \cup {0} : \A m \in Numbers(d) \cup {0} : m <= n

Expected(d) == LastSeq(d) + 1

RowOf(d, n) == CHOOSE i \in DOMAIN received[d] : received[d][i].seq = n

StoredOutcome(d, n) == IF n \in Numbers(d) THEN received[d][RowOf(d, n)].status ELSE "none"

\* The call goes on as by; an answer that nobody awaits is gone.
Replace(c, by) == (calls \ {c}) \cup {x \in {by} : x.awaited \/ x.step # "done"}

-----------------------------------------------------------------------------
(* The device. *)

\* enqueueOperation, in the local transaction of the document the operation carries.
Sell(d) ==
  /\ phase[d] = "registered"
  /\ deviceSeq[d] < MaxOps
  /\ deviceSeq' = [deviceSeq EXCEPT ![d] = @ + 1]
  /\ outbox' = [outbox EXCEPT ![d][deviceSeq[d] + 1] = "pending"]
  /\ sold' = [sold EXCEPT ![d] = @ + 1]
  /\ UNCHANGED <<phase, toldRevoked, serverVars, calls, healed>>

NewCall(d, batch) ==
  [dev |-> d, todo |-> batch, step |-> "sent", expected |-> 0, stored |-> "none",
   sawRevoked |-> FALSE, rejecting |-> FALSE, answers |-> [n \in Seqs |-> "none"],
   gap |-> 0, revoked |-> FALSE, awaited |-> TRUE]

\* One batch of push(): the one running round sends it and awaits its answer.
Push(d) ==
  /\ phase[d] = "registered"
  /\ ~Awaiting(d)
  /\ Pending(d) # {}
  /\ \E size \in 1..BatchLimit : calls' = calls \cup {NewCall(d, Batch(d, size))}
  /\ UNCHANGED <<deviceVars, toldRevoked, serverVars, healed>>

\* A bug: an answer given again is not recorded.
AfterFirstAnswer(d, c, n) ==
  IF c.answers[n] \in {"none", "duplicate"} THEN outbox[d][n] ELSE c.answers[n]

\* The answer's results, and the resend a gap asks for, in one local transaction.
AfterAnswer(d, c, n) ==
  LET answered == IF c.answers[n] = "none" THEN outbox[d][n] ELSE c.answers[n]
  IN  IF c.gap > 0 /\ n >= c.gap /\ answered # "none" THEN "pending" ELSE answered

RecordAnswer(c) ==
  /\ c.awaited
  /\ c.step = "done"
  /\ outbox' = [outbox EXCEPT ![c.dev] = [n \in Seqs |-> AfterAnswer(c.dev, c, n)]]
  /\ toldRevoked' = [toldRevoked EXCEPT ![c.dev] = @ \/ c.revoked]
  /\ calls' = calls \ {c}
  /\ UNCHANGED <<deviceSeq, phase, sold, serverVars, healed>>

\* The server refuses the round's pull: a revoked device hears of it with an empty outbox too.
PullRefused(d) ==
  /\ phase[d] = "registered"
  /\ ~Awaiting(d)
  /\ ~toldRevoked[d]
  /\ revoked[d]
  /\ toldRevoked' = [toldRevoked EXCEPT ![d] = TRUE]
  /\ UNCHANGED <<deviceVars, serverVars, calls, healed>>

\* Two bugs: the wipe does not look at the outbox; the wipe forgets the numbers but not the device.
WipeUnchecked(d) ==
  /\ phase[d] = "registered" /\ toldRevoked[d] /\ ~Awaiting(d)
  /\ phase' = [phase EXCEPT ![d] = "wiped"]
  /\ outbox' = [outbox EXCEPT ![d] = [n \in Seqs |-> "none"]]
  /\ deviceSeq' = [deviceSeq EXCEPT ![d] = 0]
  /\ UNCHANGED <<sold, toldRevoked, serverVars, calls, healed>>

WipeKeepsDevice(d) ==
  /\ phase[d] = "registered" /\ toldRevoked[d] /\ ~Awaiting(d) /\ Pending(d) = {}
  /\ outbox' = [outbox EXCEPT ![d] = [n \in Seqs |-> "none"]]
  /\ deviceSeq' = [deviceSeq EXCEPT ![d] = 0]
  /\ UNCHANGED <<phase, sold, toldRevoked, serverVars, calls, healed>>

\* wipeLocalDb: every table dropped in a transaction that first finds nothing pending.
Wipe(d) ==
  /\ phase[d] = "registered"
  /\ toldRevoked[d]
  /\ ~Awaiting(d)
  /\ Pending(d) = {}
  /\ phase' = [phase EXCEPT ![d] = "wiped"]
  /\ outbox' = [outbox EXCEPT ![d] = [n \in Seqs |-> "none"]]
  /\ deviceSeq' = [deviceSeq EXCEPT ![d] = 0]
  /\ UNCHANGED <<sold, toldRevoked, serverVars, calls, healed>>

\* Something is pending: nothing is wiped and the round ends; the next one pushes it.
WipeNotYet(d) ==
  /\ phase[d] = "registered"
  /\ toldRevoked[d]
  /\ ~Awaiting(d)
  /\ Pending(d) # {}
  /\ toldRevoked' = [toldRevoked EXCEPT ![d] = FALSE]
  /\ UNCHANGED <<deviceVars, serverVars, calls, healed>>

-----------------------------------------------------------------------------
(* The server: each operation in a transaction of its own, under the device's lock. *)

\* pg_advisory_xact_lock on the device, held until the transaction ends.
Locked(d) == \E c \in calls : c.dev = d /\ c.step = "tx"

\* A bug: revoked_at as it was when the push was authenticated.
RevokedAtStart(c) == IF c.step = "sent" THEN revoked[c.dev] ELSE c.revoked

RevokedNow(c) == revoked[c.dev]

\* What the transaction reads: the row of operation n, the last number and whether the device is
\* revoked.
Begun(c, n) ==
  [c EXCEPT !.step = "tx", !.expected = Expected(c.dev), !.stored = StoredOutcome(c.dev, n),
            !.sawRevoked = RevokedNow(c)]

\* The transaction of operation n takes the lock, then reads.
Begin(c, n) ==
  /\ c.step \in {"sent", "between"}
  /\ Oldest(n, c.todo)
  /\ ~Locked(c.dev)
  /\ calls' = Replace(c, Begun(c, n))
  /\ UNCHANGED <<deviceVars, toldRevoked, serverVars, healed>>

\* The call once operation n has its answer; the last one answers the request.
Answered(c, n, answer) ==
  [c EXCEPT !.step = IF c.todo = {n} THEN "done" ELSE "between", !.todo = @ \ {n},
            !.answers[n] = answer, !.revoked = @ \/ c.sawRevoked, !.rejecting = FALSE,
            !.expected = 0, !.stored = "none", !.sawRevoked = FALSE]

InTx(c, n) == c.step = "tx" /\ Oldest(n, c.todo)

\* A bug: a repeated operation is answered as if it had been accepted.
DuplicateAlways(c) == "duplicate"

RepeatedAnswer(c) == IF c.stored = "accepted" THEN "duplicate" ELSE "rejected"

\* A known opId gets its stored outcome; a new one on a number taken is rejected (seqTaken).
AnswerKnown(c, n) ==
  /\ InTx(c, n)
  /\ c.stored # "none" \/ n < c.expected
  /\ calls' = Replace(c, Answered(c, n, RepeatedAnswer(c)))
  /\ UNCHANGED <<deviceVars, toldRevoked, serverVars, healed>>

\* The push stops; its answer names the number to resend from.
Stopped(c) ==
  [c EXCEPT !.step = "done", !.todo = {}, !.gap = c.expected, !.revoked = @ \/ c.sawRevoked,
            !.rejecting = FALSE, !.expected = 0, !.sawRevoked = FALSE]

\* A number is missing before n.
AnswerGap(c, n) ==
  /\ InTx(c, n)
  /\ c.stored = "none"
  /\ n > c.expected
  /\ calls' = Replace(c, Stopped(c))
  /\ UNCHANGED <<deviceVars, toldRevoked, serverVars, healed>>

\* The primary key and the unique number of received_ops let the insert through.
Storable(d, n) == n \notin Numbers(d)

Store(c, n, status, flagged) ==
  received' = [received EXCEPT ![c.dev] =
                 Append(@, [seq |-> n, status |-> status, flagged |-> flagged])]

\* A bug: a number may be skipped.
NewEvenPastGap(c, n) == InTx(c, n) /\ c.stored = "none" /\ n >= c.expected

\* An unknown operation with the number that is due.
New(c, n) == InTx(c, n) /\ c.stored = "none" /\ n = c.expected

\* The operation is next and its handler takes it: its document and its row commit together.
Accept(c, n) ==
  /\ New(c, n) /\ ~c.rejecting
  /\ Storable(c.dev, n)
  /\ Store(c, n, "accepted", c.sawRevoked)
  /\ calls' = Replace(c, Answered(c, n, "accepted"))
  /\ UNCHANGED <<deviceVars, toldRevoked, revoked, rowsAtRevoke, lost, healed>>

\* The transaction rolls back and releases the lock; a second one, which checks everything
\* afresh, is to store the rejection.
RolledBack(c) ==
  [c EXCEPT !.step = "between", !.rejecting = TRUE, !.expected = 0, !.sawRevoked = FALSE]

\* The handler throws OperationRejected.
Reject(c, n) ==
  /\ New(c, n) /\ ~c.rejecting
  /\ calls' = Replace(c, RolledBack(c))
  /\ UNCHANGED <<deviceVars, toldRevoked, serverVars, healed>>

StoreRejection(c, n) ==
  /\ New(c, n) /\ c.rejecting
  /\ Storable(c.dev, n)
  /\ Store(c, n, "rejected", FALSE)
  /\ calls' = Replace(c, Answered(c, n, "rejected"))
  /\ UNCHANGED <<deviceVars, toldRevoked, revoked, rowsAtRevoke, lost, healed>>

\* revokeDevice: it takes the row of the device, not the lock of its operations.
Revoke(d) ==
  /\ ~revoked[d]
  /\ revoked' = [revoked EXCEPT ![d] = TRUE]
  /\ rowsAtRevoke' = [rowsAtRevoke EXCEPT ![d] = Len(received[d])]
  /\ UNCHANGED <<deviceVars, toldRevoked, received, lost, calls, healed>>

-----------------------------------------------------------------------------
(* Faults. *)

\* The round that awaits c, if one does, ends without an answer.
RoundEnds(c) == toldRevoked' = [toldRevoked EXCEPT ![c.dev] = @ /\ ~c.awaited]

\* The request or its answer is lost, or the server fails (a 5xx, a crash): what the call
\* committed stays, its running transaction rolls back.
Lose(c) ==
  /\ ~healed
  /\ calls' = calls \ {c}
  /\ RoundEnds(c)
  /\ UNCHANGED <<deviceVars, serverVars, healed>>

Unawaited(c) == [c EXCEPT !.awaited = FALSE]

\* The device stops waiting (SYNC_REQUEST_TIMEOUT_MS, or the app restarts) for a request that
\* may still arrive, or be running.
GiveUp(c) ==
  /\ ~healed
  /\ c.awaited
  /\ Cardinality(Late(c.dev)) < MaxLate
  /\ calls' = Replace(c, Unawaited(c))
  /\ RoundEnds(c)
  /\ UNCHANGED <<deviceVars, serverVars, healed>>

\* A request reaches the server twice; the device takes one of the two answers.
Duplicate(c) ==
  /\ ~healed
  /\ c.awaited
  /\ c.step = "sent"
  /\ Cardinality(Late(c.dev)) < MaxLate
  /\ calls' = calls \cup {Unawaited(c)}
  /\ UNCHANGED <<deviceVars, toldRevoked, serverVars, healed>>

\* The app restarts, or the pull fails, after the round heard of the revoke.
ForgetRevoke(d) ==
  /\ ~healed
  /\ toldRevoked[d] /\ ~Awaiting(d)
  /\ toldRevoked' = [toldRevoked EXCEPT ![d] = FALSE]
  /\ UNCHANGED <<deviceVars, serverVars, calls, healed>>

\* The calls a restarting server serves for d.
Serving(d) == {c \in calls : c.dev = d /\ c.step \in {"between", "tx"}}

\* The server comes back without a device's rows after the first k; the calls it was serving
\* are gone, while requests and answers on the wire may still arrive.
LoseTail(d, k) ==
  /\ ServerLoses /\ ~healed
  /\ lost[d] = {}
  /\ k < Len(received[d])
  /\ received' = [received EXCEPT ![d] = SubSeq(@, 1, k)]
  /\ lost' = [lost EXCEPT ![d] = {received[d][i].seq : i \in (k + 1)..Len(received[d])}]
  /\ rowsAtRevoke' = [rowsAtRevoke EXCEPT ![d] = IF @ < k THEN @ ELSE k]
  /\ calls' = calls \ Serving(d)
  /\ toldRevoked' = [toldRevoked EXCEPT ![d] = @ /\ \A c \in Serving(d) : ~c.awaited]
  /\ UNCHANGED <<deviceVars, revoked, healed>>

\* From here on requests arrive, once, and are answered in time.
Heal ==
  /\ Heals /\ ~healed
  /\ healed' = TRUE
  /\ UNCHANGED <<deviceVars, toldRevoked, serverVars, calls>>

-----------------------------------------------------------------------------
Init ==
  /\ outbox = [d \in Devices |-> [n \in Seqs |-> "none"]]
  /\ deviceSeq = [d \in Devices |-> 0]
  /\ phase = [d \in Devices |-> "registered"]
  /\ toldRevoked = [d \in Devices |-> FALSE]
  /\ received = [d \in Devices |-> <<>>]
  /\ revoked = [d \in Devices |-> FALSE]
  /\ calls = {}
  /\ healed = FALSE
  /\ sold = [d \in Devices |-> 0]
  /\ lost = [d \in Devices |-> {}]
  /\ rowsAtRevoke = [d \in Devices |-> 0]

HearRevoke(d) == PullRefused(d) \/ Wipe(d) \/ WipeNotYet(d)

ServerStep(c) ==
  \E n \in Seqs :
    \/ Begin(c, n)
    \/ AnswerKnown(c, n) \/ AnswerGap(c, n)
    \/ Accept(c, n) \/ Reject(c, n) \/ StoreRejection(c, n)

Fault(c) == Lose(c) \/ GiveUp(c) \/ Duplicate(c)

Next ==
  \/ \E d \in Devices : Sell(d) \/ Push(d) \/ HearRevoke(d) \/ Revoke(d)
  \/ \E d \in Devices : ForgetRevoke(d)
  \/ \E d \in Devices, k \in 0..MaxOps : LoseTail(d, k)
  \/ \E c \in calls : RecordAnswer(c) \/ ServerStep(c) \/ Fault(c)
  \/ Heal

Spec == Init /\ [][Next]_vars

\* Rounds follow one another (a timer, and every write to the outbox, start one) and each one
\* pushes before it pulls; the server works on what reached it; the network heals in the end, as
\* sync-sim's converge() has it.
Fairness ==
  /\ WF_vars(Heal)
  /\ \A d \in Devices : WF_vars(healed /\ Push(d)) /\ WF_vars(healed /\ HearRevoke(d))
  /\ \A d \in Devices : WF_vars(healed /\ \E c \in calls : c.dev = d /\ ServerStep(c))
  /\ \A d \in Devices : WF_vars(healed /\ \E c \in calls : c.dev = d /\ RecordAnswer(c))

FairSpec == Spec /\ Fairness

-----------------------------------------------------------------------------
(* Properties. *)

TypeOK ==
  /\ outbox \in [Devices -> [Seqs -> OutboxState]]
  /\ deviceSeq \in [Devices -> 0..MaxOps]
  /\ phase \in [Devices -> {"registered", "wiped"}]
  /\ toldRevoked \in [Devices -> BOOLEAN]
  /\ received \in [Devices -> Seq(Row)]
  /\ revoked \in [Devices -> BOOLEAN]
  /\ calls \subseteq Call
  /\ healed \in BOOLEAN
  /\ sold \in [Devices -> 0..MaxOps]
  /\ lost \in [Devices -> SUBSET Seqs]
  /\ rowsAtRevoke \in [Devices -> Nat]

\* The server records the operations of a device once each, in the order the device made them
\* and without a hole, whatever the network does to the pushes that carry them, and whatever
\* tail of them it once lost (push.ts: opId and deviceSeq checked in each transaction).
RecordedOnceInOrder ==
  \A d \in Devices : \A i \in DOMAIN received[d] : received[d][i].seq = i

\* What the outbox says of an operation is what the server recorded of it, also when the answer
\* was lost and given again, when a late copy of the push ran first, or when the rejection was
\* stored by a second transaction; unless the server has lost that row since.
OutboxAgrees ==
  \A d \in Devices, n \in Seqs :
    outbox[d][n] \in Answer /\ n \notin lost[d] =>
      StoredOutcome(d, n) = IF outbox[d][n] = "rejected" THEN "rejected" ELSE "accepted"

\* A revoked device wipes its data only when the server has every operation it ever committed,
\* a sale made between the last push and the wipe included (engine.ts: wipeWhenAnswered).
WipeLosesNothing ==
  \A d \in Devices :
    phase[d] = "wiped" => \A n \in 1..sold[d] : n \in Numbers(d) \cup lost[d]

\* Every sale accepted after a revoke is flagged deviceRevoked, and none accepted before it,
\* except the one whose transaction had read revoked_at when the revoke committed.
FlaggedSinceRevoke ==
  \A d \in Devices : \A i \in DOMAIN received[d] :
    received[d][i].status = "accepted" =>
      /\ received[d][i].flagged => revoked[d] /\ i > rowsAtRevoke[d]
      /\ revoked[d] /\ i > rowsAtRevoke[d] + 1 => received[d][i].flagged

\* What a transaction read of its device is still so when it stores: the lock is what keeps a
\* second copy of the operation from being answered 5xx by the primary key.
ReadsHoldUnderLock ==
  \A c \in calls, n \in Seqs :
    New(c, n) => Storable(c.dev, n)

\* A revoked device is told so and wipes its data in the end (core-foundation rule 23), although
\* it keeps selling until then.
RevokedDeviceWipes ==
  \A d \in Devices : revoked[d] ~> phase[d] = "wiped"

-----------------------------------------------------------------------------
(* Refinement: what push promises, without the network, the locks and the retries. *)

Promise == INSTANCE ExactlyOnce WITH
  made <- sold,
  book <- [d \in Devices |-> [i \in DOMAIN received[d] |-> received[d][i].status]],
  gone <- [d \in Devices |-> phase[d] = "wiped"]

\* While the server loses nothing, push implements the exactly-once book of ExactlyOnce: every
\* operation a device commits is recorded, once and in order, also those it commits between its
\* revoke and its wipe (ADR-0020).
KeepsPromise == Promise!Spec /\ Promise!EntersInTheEnd
=============================================================================
