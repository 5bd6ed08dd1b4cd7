--------------------------- MODULE PushSyncProofs ---------------------------
(***************************************************************************)
(* Safety of PushSync for every set of devices and every bound; which      *)
(* operations it flags after a revoke; and that it implements ExactlyOnce  *)
(* while the server loses nothing.                                         *)
(***************************************************************************)
EXTENDS PushSync, TLAPS, SequenceTheorems, FiniteSetTheorems

USE PushSyncAssumption

-----------------------------------------------------------------------------
(* The inductive invariant. *)

\* The rows of a device are numbered, so what the transaction of an operation reads is a matter
\* of how many there are.
TxReads ==
  \A c \in calls : c.step = "tx" =>
    /\ c.expected = Expected(c.dev)
    /\ \A n \in c.todo : Oldest(n, c.todo) => c.stored = StoredOutcome(c.dev, n)

OneTx ==
  \A c1, c2 \in calls :
    c1.dev = c2.dev /\ c1.step = "tx" /\ c2.step = "tx" => c1 = c2

\* An answer says what the row says, unless the server has lost the row since.
AnswersAgree ==
  \A c \in calls, n \in Seqs :
    c.answers[n] \in Answer /\ n \notin lost[c.dev] =>
      StoredOutcome(c.dev, n) = IF c.answers[n] = "rejected" THEN "rejected" ELSE "accepted"

\* The outbox of a registered device has every operation it ever made.
OutboxComplete ==
  \A d \in Devices : phase[d] = "registered" =>
    /\ deviceSeq[d] = sold[d]
    /\ \A n \in 1..sold[d] : outbox[d][n] # "none"

IInv ==
  /\ TypeOK
  /\ RecordedOnceInOrder
  /\ TxReads
  /\ OneTx
  /\ AnswersAgree
  /\ OutboxAgrees
  /\ OutboxComplete
  /\ WipeLosesNothing

-----------------------------------------------------------------------------
(* What the operators return. *)

\* Operation numbers are natural numbers, and so is the bound.
LEMMA SeqsNat == Seqs \subseteq Nat /\ MaxOps \in Nat
  BY DEF Seqs

\* Under the order of the rows, a device's numbers are the first ones.
LEMMA NumbersAre ==
  ASSUME TypeOK, RecordedOnceInOrder, NEW d \in Devices
  PROVE  /\ Len(received[d]) \in Nat
         /\ DOMAIN received[d] = 1..Len(received[d])
         /\ Numbers(d) = 1..Len(received[d])
<1>1. received[d] \in Seq(Row)
  BY DEF TypeOK
<1>2. /\ Len(received[d]) \in Nat
      /\ DOMAIN received[d] = 1..Len(received[d])
  BY <1>1
<1>3. \A i \in 1..Len(received[d]) : received[d][i].seq = i
  BY <1>2 DEF RecordedOnceInOrder
<1> QED
  BY <1>2, <1>3 DEF Numbers

\* The number the server expects next is the one after the rows it has.
LEMMA ExpectedIs ==
  ASSUME TypeOK, RecordedOnceInOrder, NEW d \in Devices
  PROVE  Expected(d) = Len(received[d]) + 1
<1> DEFINE last == Len(received[d])
           S == Numbers(d) \cup {0}
<1>1. last \in Nat /\ S = 0..last
  BY NumbersAre
<1>2. last \in S /\ \A m \in S : m <= last
  BY <1>1
<1>3. \A n \in S : (\A m \in S : m <= n) => n = last
  BY <1>1
<1>4. LastSeq(d) = last
  BY <1>2, <1>3 DEF LastSeq
<1> QED
  BY <1>4 DEF Expected

\* A stored outcome is that of the one row with the operation's number.
LEMMA StoredIs ==
  ASSUME TypeOK, RecordedOnceInOrder, NEW d \in Devices, NEW n \in Seqs
  PROVE  StoredOutcome(d, n) =
           IF n <= Len(received[d]) THEN received[d][n].status ELSE "none"
<1>1. /\ Len(received[d]) \in Nat
      /\ DOMAIN received[d] = 1..Len(received[d])
      /\ Numbers(d) = 1..Len(received[d])
  BY NumbersAre
<1>2. n \in Nat \ {0}
  BY DEF Seqs
<1>3. ASSUME n <= Len(received[d])
      PROVE  RowOf(d, n) = n
  <2>1. n \in DOMAIN received[d] /\ received[d][n].seq = n
    BY <1>1, <1>2, <1>3 DEF RecordedOnceInOrder
  <2>2. \A i \in DOMAIN received[d] : received[d][i].seq = n => i = n
    BY DEF RecordedOnceInOrder
  <2> QED
    BY <2>1, <2>2 DEF RowOf
<1> QED
  BY <1>1, <1>2, <1>3 DEF StoredOutcome

\* What is stored for an operation is an outcome or nothing.
LEMMA StoredType ==
  ASSUME TypeOK, RecordedOnceInOrder, NEW d \in Devices, NEW n \in Seqs
  PROVE  StoredOutcome(d, n) \in Outcome \cup {"none"}
<1>1. received[d] \in Seq(Row)
  BY DEF TypeOK
<1>2. ASSUME n <= Len(received[d])
      PROVE  received[d][n].status \in Outcome
  <2>1. n \in 1..Len(received[d])
    BY <1>1, <1>2 DEF Seqs
  <2>2. received[d][n] \in Row
    BY <1>1, <2>1, ElementOfSeq
  <2> QED
    BY <2>2 DEF Row
<1> QED
  BY <1>2, StoredIs

-----------------------------------------------------------------------------
(* What becomes of a call. *)

\* A call starts as a request on its way.
LEMMA NewCallIs ==
  ASSUME NEW d \in Devices, NEW batch \in SUBSET Seqs
  PROVE  /\ NewCall(d, batch) \in Call
         /\ NewCall(d, batch).dev = d
         /\ NewCall(d, batch).step = "sent"
         /\ NewCall(d, batch).todo = batch
         /\ \A n \in Seqs : NewCall(d, batch).answers[n] = "none"
  BY DEF NewCall, Call, Answer, Outcome

\* A call in a transaction keeps what it carries and holds what it read.
LEMMA BegunIs ==
  ASSUME TypeOK, RecordedOnceInOrder, NEW c \in Call, NEW n \in Seqs
  PROVE  /\ Begun(c, n) \in Call
         /\ Begun(c, n).dev = c.dev
         /\ Begun(c, n).step = "tx"
         /\ Begun(c, n).todo = c.todo
         /\ Begun(c, n).expected = Expected(c.dev)
         /\ Begun(c, n).stored = StoredOutcome(c.dev, n)
         /\ Begun(c, n).answers = c.answers
<1>1. c.dev \in Devices
  BY DEF Call
<1>2. Expected(c.dev) \in Nat
  BY <1>1, ExpectedIs, NumbersAre
<1>3. StoredOutcome(c.dev, n) \in Outcome \cup {"none"}
  BY <1>1, StoredType
<1>4. RevokedNow(c) \in BOOLEAN
  BY <1>1 DEF RevokedNow, TypeOK
<1> QED
  BY <1>2, <1>3, <1>4 DEF Begun, Call

\* An answered call is a call.
LEMMA AnsweredTyped ==
  ASSUME NEW c \in Call, NEW step \in {"between", "done"}, NEW todo \in SUBSET Seqs,
         NEW answers \in [Seqs -> Answer \cup {"none"}], NEW told \in BOOLEAN
  PROVE  [c EXCEPT !.step = step, !.todo = todo, !.answers = answers, !.revoked = told,
                   !.rejecting = FALSE, !.expected = 0, !.stored = "none",
                   !.sawRevoked = FALSE] \in Call
  BY DEF Call

\* Answering a call either goes on to its next operation or ends it.
LEMMA AnsweredIs ==
  ASSUME NEW c \in Call, NEW n \in Seqs, NEW a \in Answer
  PROVE  /\ Answered(c, n, a) \in Call
         /\ Answered(c, n, a).dev = c.dev
         /\ Answered(c, n, a).step # "tx"
         /\ Answered(c, n, a).todo \subseteq c.todo
         /\ Answered(c, n, a).answers = [c.answers EXCEPT ![n] = a]
<1> DEFINE answers == [c.answers EXCEPT ![n] = a]
           todo == c.todo \ {n}
           told == c.revoked \/ c.sawRevoked
           step == IF c.todo = {n} THEN "done" ELSE "between"
<1>1. answers \in [Seqs -> Answer \cup {"none"}]
  BY DEF Call
<1>2. todo \in SUBSET Seqs
  BY DEF Call
<1>3. told \in BOOLEAN
  OBVIOUS
<1>4. step \in {"between", "done"}
  OBVIOUS
<1>5. Answered(c, n, a) =
        [c EXCEPT !.step = step, !.todo = todo, !.answers = answers, !.revoked = told,
                  !.rejecting = FALSE, !.expected = 0, !.stored = "none", !.sawRevoked = FALSE]
  BY DEF Answered, Call
<1>6. Answered(c, n, a) \in Call
  <2> HIDE DEF answers, todo, told, step
  <2>1. [c EXCEPT !.step = step, !.todo = todo, !.answers = answers, !.revoked = told,
                  !.rejecting = FALSE, !.expected = 0, !.stored = "none",
                  !.sawRevoked = FALSE] \in Call
    BY <1>1, <1>2, <1>3, <1>4, AnsweredTyped
  <2> QED
    BY <1>5, <2>1
<1>7. Answered(c, n, a).dev = c.dev
  BY DEF Answered, Call
<1>8. Answered(c, n, a).step = step /\ Answered(c, n, a).todo = todo
  BY DEF Answered, Call
<1>9. Answered(c, n, a).answers = answers
  BY DEF Answered, Call
<1> QED
  BY <1>4, <1>6, <1>7, <1>8, <1>9

\* A call stopped at a gap keeps the answers it has.
LEMMA StoppedIs ==
  ASSUME NEW c \in Call
  PROVE  /\ Stopped(c) \in Call
         /\ Stopped(c).dev = c.dev
         /\ Stopped(c).step # "tx"
         /\ Stopped(c).todo \subseteq c.todo
         /\ Stopped(c).answers = c.answers
  BY DEF Stopped, Call

\* A rejected call waits for its second transaction, and reads again there.
LEMMA RolledBackIs ==
  ASSUME NEW c \in Call
  PROVE  /\ RolledBack(c) \in Call
         /\ RolledBack(c).dev = c.dev
         /\ RolledBack(c).step # "tx"
         /\ RolledBack(c).todo = c.todo
         /\ RolledBack(c).answers = c.answers
  BY DEF RolledBack, Call

\* A call nobody waits for is the same call.
LEMMA UnawaitedIs ==
  ASSUME NEW c \in Call
  PROVE  /\ Unawaited(c) \in Call
         /\ Unawaited(c).dev = c.dev
         /\ Unawaited(c).step = c.step
         /\ Unawaited(c).todo = c.todo
         /\ Unawaited(c).expected = c.expected
         /\ Unawaited(c).stored = c.stored
         /\ Unawaited(c).answers = c.answers
  BY DEF Unawaited, Call

\* Replacing a call takes one out of the network and puts one in.
LEMMA ReplaceIs ==
  ASSUME NEW c, NEW by
  PROVE  Replace(c, by) \subseteq (calls \ {c}) \cup {by}
  BY DEF Replace

\* Replacing a call leaves calls.
LEMMA ReplaceTyped ==
  ASSUME TypeOK, NEW c, NEW by \in Call
  PROVE  Replace(c, by) \subseteq Call
  BY DEF Replace, TypeOK

\* A call in its transaction and what it read under the lock.
LEMMA InTxIs ==
  ASSUME TypeOK, RecordedOnceInOrder, TxReads, NEW c \in calls, NEW n \in Seqs, InTx(c, n)
  PROVE  /\ c \in Call /\ c.dev \in Devices
         /\ c.expected = Len(received[c.dev]) + 1
         /\ c.stored = StoredOutcome(c.dev, n)
<1>1. c \in Call /\ c.dev \in Devices
  BY DEF TypeOK, Call
<1>2. n \in c.todo /\ Oldest(n, c.todo) /\ c.step = "tx"
  BY DEF InTx, Oldest
<1> QED
  BY <1>1, <1>2, ExpectedIs DEF TxReads

\* The answer to an operation seen before is the stored one.
LEMMA RepeatedAnswerIs ==
  ASSUME NEW c
  PROVE  RepeatedAnswer(c) \in Answer
  BY DEF RepeatedAnswer, Answer

-----------------------------------------------------------------------------
(* Types. *)

\* The invariant holds before anything happened.
LEMMA InitInv == Init => IInv
<1> SUFFICES ASSUME Init PROVE IInv
  OBVIOUS
<1>1. TypeOK
  <2>1. \A d \in Devices : received[d] = <<>> /\ <<>> \in Seq(Row)
    BY DEF Init
  <2>2. received \in [Devices -> Seq(Row)]
    BY <2>1 DEF Init
  <2>3. outbox \in [Devices -> [Seqs -> OutboxState]]
    BY DEF Init, OutboxState
  <2>4. /\ deviceSeq \in [Devices -> 0..MaxOps] /\ sold \in [Devices -> 0..MaxOps]
        /\ rowsAtRevoke \in [Devices -> Nat]
    BY DEF Init
  <2>5. lost \in [Devices -> SUBSET Seqs]
    BY DEF Init
  <2> QED
    BY <2>2, <2>3, <2>4, <2>5 DEF Init, TypeOK
<1>2. \A d \in Devices : DOMAIN received[d] = {}
  BY DEF Init
<1>3. RecordedOnceInOrder
  BY <1>2 DEF RecordedOnceInOrder
<1>4. TxReads /\ OneTx /\ AnswersAgree
  BY DEF Init, TxReads, OneTx, AnswersAgree
<1>5. OutboxAgrees
  BY DEF Init, OutboxAgrees, Answer
<1>6. OutboxComplete /\ WipeLosesNothing
  BY DEF Init, OutboxComplete, WipeLosesNothing
<1> QED
  BY <1>1, <1>3, <1>4, <1>5, <1>6 DEF IInv

\* Every step keeps the types.
LEMMA TypeStep ==
  ASSUME IInv, [Next]_vars
  PROVE  TypeOK'
<1> USE DEF IInv
<1>1. ASSUME NEW d \in Devices, Sell(d) PROVE TypeOK'
  <2>1. deviceSeq[d] = sold[d] /\ deviceSeq[d] + 1 \in 0..MaxOps /\ deviceSeq[d] + 1 \in Seqs
    BY <1>1 DEF Sell, OutboxComplete, TypeOK, Seqs
  <2>2. outbox' \in [Devices -> [Seqs -> OutboxState]]
    BY <1>1, <2>1 DEF Sell, TypeOK, OutboxState
  <2>3. deviceSeq' \in [Devices -> 0..MaxOps] /\ sold' \in [Devices -> 0..MaxOps]
    BY <1>1, <2>1 DEF Sell, TypeOK
  <2> QED
    BY <1>1, <2>2, <2>3 DEF Sell, TypeOK, serverVars
<1>2. ASSUME NEW d \in Devices, Push(d) PROVE TypeOK'
  <2>1. \A size \in 1..BatchLimit : NewCall(d, Batch(d, size)) \in Call
    BY NewCallIs DEF Batch, Pending
  <2>2. calls' \subseteq Call
    BY <1>2, <2>1 DEF Push, TypeOK
  <2> QED
    BY <1>2, <2>2 DEF Push, TypeOK, deviceVars, serverVars
<1>3. ASSUME NEW d \in Devices, PullRefused(d) PROVE TypeOK'
  BY <1>3 DEF PullRefused, TypeOK, deviceVars, serverVars
<1>4. ASSUME NEW d \in Devices, Wipe(d) PROVE TypeOK'
  BY <1>4 DEF Wipe, TypeOK, serverVars, OutboxState
<1>5. ASSUME NEW d \in Devices, WipeNotYet(d) PROVE TypeOK'
  BY <1>5 DEF WipeNotYet, TypeOK, deviceVars, serverVars
<1>6. ASSUME NEW d \in Devices, Revoke(d) PROVE TypeOK'
  <2>1. Len(received[d]) \in Nat
    BY NumbersAre
  <2> QED
    BY <1>6, <2>1 DEF Revoke, TypeOK, deviceVars
<1>7. ASSUME NEW d \in Devices, ForgetRevoke(d) PROVE TypeOK'
  BY <1>7 DEF ForgetRevoke, TypeOK, deviceVars, serverVars
<1>8. ASSUME NEW d \in Devices, NEW k \in 0..MaxOps, LoseTail(d, k) PROVE TypeOK'
  <2>1. received[d] \in Seq(Row) /\ Len(received[d]) \in Nat /\ k \in Nat /\ k < Len(received[d])
    BY <1>8, NumbersAre DEF TypeOK, LoseTail
  <2>2. SubSeq(received[d], 1, k) \in Seq(Row)
    BY <2>1
  <2>3. {received[d][i].seq : i \in (k + 1)..Len(received[d])} \subseteq Seqs
    <3>1. \A i \in (k + 1)..Len(received[d]) : received[d][i] \in Row
      BY <2>1
    <3> QED
      BY <3>1 DEF Row
  <2>4. toldRevoked' \in [Devices -> BOOLEAN]
    BY <1>8 DEF LoseTail, TypeOK
  <2>5. rowsAtRevoke' \in [Devices -> Nat]
    BY <1>8, <2>1 DEF LoseTail, TypeOK
  <2> QED
    BY <1>8, <2>2, <2>3, <2>4, <2>5 DEF LoseTail, TypeOK, deviceVars
<1>9. ASSUME NEW c \in calls, RecordAnswer(c) PROVE TypeOK'
  <2>1. c \in Call /\ c.dev \in Devices
    BY DEF TypeOK, Call
  <2>2. \A n \in Seqs : AfterAnswer(c.dev, c, n) \in OutboxState
    BY <2>1 DEF AfterAnswer, OutboxState, Answer, TypeOK, Call
  <2>3. outbox' \in [Devices -> [Seqs -> OutboxState]]
    BY <1>9, <2>2 DEF RecordAnswer, TypeOK
  <2>4. toldRevoked' \in [Devices -> BOOLEAN]
    BY <1>9 DEF RecordAnswer, TypeOK
  <2> QED
    BY <1>9, <2>3, <2>4 DEF RecordAnswer, TypeOK, serverVars
<1>10. ASSUME NEW c \in calls, NEW n \in Seqs, Begin(c, n) PROVE TypeOK'
  <2>1. calls' \subseteq Call
    <3>1. Begun(c, n) \in Call
      BY BegunIs DEF TypeOK
    <3> QED
      BY <1>10, <3>1, ReplaceTyped DEF Begin
  <2> QED
    BY <1>10, <2>1 DEF Begin, TypeOK, deviceVars, serverVars
<1>11. ASSUME NEW c \in calls, NEW n \in Seqs, AnswerKnown(c, n) PROVE TypeOK'
  <2>1. calls' \subseteq Call
    <3>1. Answered(c, n, RepeatedAnswer(c)) \in Call
      BY AnsweredIs, RepeatedAnswerIs DEF TypeOK
    <3> QED
      BY <1>11, <3>1, ReplaceTyped DEF AnswerKnown
  <2> QED
    BY <1>11, <2>1 DEF AnswerKnown, TypeOK, deviceVars, serverVars
<1>12. ASSUME NEW c \in calls, NEW n \in Seqs, AnswerGap(c, n) PROVE TypeOK'
  <2>1. calls' \subseteq Call
    <3>1. Stopped(c) \in Call
      BY StoppedIs DEF TypeOK
    <3> QED
      BY <1>12, <3>1, ReplaceTyped DEF AnswerGap
  <2> QED
    BY <1>12, <2>1 DEF AnswerGap, TypeOK, deviceVars, serverVars
<1>13. ASSUME NEW c \in calls, NEW n \in Seqs, NEW status \in Outcome, NEW flagged \in BOOLEAN,
              Store(c, n, status, flagged)
       PROVE  received' \in [Devices -> Seq(Row)]
  <2>1. c.dev \in Devices /\ received[c.dev] \in Seq(Row)
    BY DEF TypeOK, Call
  <2>2. [seq |-> n, status |-> status, flagged |-> flagged] \in Row
    BY DEF Row
  <2>3. Append(received[c.dev], [seq |-> n, status |-> status, flagged |-> flagged]) \in Seq(Row)
    BY <2>1, <2>2
  <2> QED
    BY <1>13, <2>3 DEF Store, TypeOK
<1>14. ASSUME NEW c \in calls, NEW n \in Seqs, Accept(c, n) PROVE TypeOK'
  <2>1. received' \in [Devices -> Seq(Row)]
    BY <1>13, <1>14 DEF Accept, Outcome, TypeOK, Call
  <2>2. calls' \subseteq Call
    <3>1. Answered(c, n, "accepted") \in Call
      BY AnsweredIs DEF TypeOK, Answer
    <3> QED
      BY <1>14, <3>1, ReplaceTyped DEF Accept
  <2> QED
    BY <1>14, <2>1, <2>2 DEF Accept, TypeOK, deviceVars
<1>15. ASSUME NEW c \in calls, NEW n \in Seqs, Reject(c, n) PROVE TypeOK'
  <2>1. calls' \subseteq Call
    <3>1. RolledBack(c) \in Call
      BY RolledBackIs DEF TypeOK
    <3> QED
      BY <1>15, <3>1, ReplaceTyped DEF Reject
  <2> QED
    BY <1>15, <2>1 DEF Reject, TypeOK, deviceVars, serverVars
<1>16. ASSUME NEW c \in calls, NEW n \in Seqs, StoreRejection(c, n) PROVE TypeOK'
  <2>1. received' \in [Devices -> Seq(Row)]
    BY <1>13, <1>16 DEF StoreRejection, Outcome
  <2>2. calls' \subseteq Call
    <3>1. Answered(c, n, "rejected") \in Call
      BY AnsweredIs DEF TypeOK, Answer
    <3> QED
      BY <1>16, <3>1, ReplaceTyped DEF StoreRejection
  <2> QED
    BY <1>16, <2>1, <2>2 DEF StoreRejection, TypeOK, deviceVars
<1>17. ASSUME NEW c \in calls, RoundEnds(c) PROVE toldRevoked' \in [Devices -> BOOLEAN]
  BY <1>17 DEF RoundEnds, TypeOK
<1>18. ASSUME NEW c \in calls, Lose(c) PROVE TypeOK'
  BY <1>17, <1>18 DEF Lose, TypeOK, deviceVars, serverVars
<1>19. ASSUME NEW c \in calls, GiveUp(c) PROVE TypeOK'
  <2>1. calls' \subseteq Call
    <3>1. Unawaited(c) \in Call
      BY UnawaitedIs DEF TypeOK
    <3> QED
      BY <1>19, <3>1, ReplaceTyped DEF GiveUp
  <2> QED
    BY <1>17, <1>19, <2>1 DEF GiveUp, TypeOK, deviceVars, serverVars
<1>20. ASSUME NEW c \in calls, Duplicate(c) PROVE TypeOK'
  <2>1. calls' \subseteq Call
    BY <1>20, UnawaitedIs DEF Duplicate, TypeOK
  <2> QED
    BY <1>20, <2>1 DEF Duplicate, TypeOK, deviceVars, serverVars
<1>21. CASE Heal
  BY <1>21 DEF Heal, TypeOK, deviceVars, serverVars
<1>22. CASE UNCHANGED vars
  BY <1>22 DEF vars, TypeOK, deviceVars, serverVars
<1> QED
  BY <1>1, <1>2, <1>3, <1>4, <1>5, <1>6, <1>7, <1>8, <1>9, <1>10, <1>11, <1>12, <1>14, <1>15,
     <1>16, <1>18, <1>19, <1>20, <1>21, <1>22
  DEF Next, HearRevoke, ServerStep, Fault

-----------------------------------------------------------------------------
(* The rows. *)

\* What a step does to the rows of the devices.
LEMMA RowsStep ==
  ASSUME IInv, [Next]_vars
  PROVE  \/ received' = received /\ lost' = lost
         \/ \E c \in calls, n \in Seqs, status \in Outcome, flagged \in BOOLEAN :
              /\ New(c, n) /\ Store(c, n, status, flagged) /\ lost' = lost
              /\ calls' = Replace(c, Answered(c, n, status))
         \/ \E d \in Devices, k \in 0..MaxOps : LoseTail(d, k)
<1> DEFINE Same == received' = received /\ lost' = lost
           Stored == \E c \in calls, n \in Seqs, status \in Outcome, flagged \in BOOLEAN :
                       /\ New(c, n) /\ Store(c, n, status, flagged) /\ lost' = lost
                       /\ calls' = Replace(c, Answered(c, n, status))
<1>1. ASSUME NEW d \in Devices, Sell(d) \/ Push(d) \/ HearRevoke(d) \/ Revoke(d) \/ ForgetRevoke(d)
      PROVE  Same
  BY <1>1 DEF Sell, Push, HearRevoke, PullRefused, Wipe, WipeNotYet, Revoke, ForgetRevoke, serverVars
<1>2. ASSUME NEW c \in calls, RecordAnswer(c) \/ Fault(c)
      PROVE  Same
  BY <1>2 DEF RecordAnswer, Fault, Lose, GiveUp, Duplicate, serverVars
<1>3. ASSUME NEW c \in calls, NEW n \in Seqs,
             Begin(c, n) \/ AnswerKnown(c, n) \/ AnswerGap(c, n) \/ Reject(c, n)
      PROVE  Same
  BY <1>3 DEF Begin, AnswerKnown, AnswerGap, Reject, serverVars
<1>4. ASSUME NEW c \in calls, NEW n \in Seqs, Accept(c, n)
      PROVE  Stored
  <2>1. c.sawRevoked \in BOOLEAN
    BY DEF IInv, TypeOK, Call
  <2>2. /\ New(c, n) /\ Store(c, n, "accepted", c.sawRevoked) /\ lost' = lost
        /\ calls' = Replace(c, Answered(c, n, "accepted"))
    BY <1>4 DEF Accept
  <2> QED
    BY <2>1, <2>2 DEF Outcome
<1>5. ASSUME NEW c \in calls, NEW n \in Seqs, StoreRejection(c, n)
      PROVE  Stored
  <2>1. /\ New(c, n) /\ Store(c, n, "rejected", FALSE) /\ lost' = lost
        /\ calls' = Replace(c, Answered(c, n, "rejected"))
    BY <1>5 DEF StoreRejection
  <2> QED
    BY <2>1 DEF Outcome
<1>6. ASSUME Heal \/ UNCHANGED vars
      PROVE  Same
  BY <1>6 DEF Heal, vars, serverVars
<1> QED
  BY <1>1, <1>2, <1>3, <1>4, <1>5, <1>6 DEF Next, ServerStep

\* A row that is stored is the next one.
LEMMA StoreIs ==
  ASSUME IInv, NEW c \in calls, NEW n \in Seqs, NEW status \in Outcome, NEW flagged \in BOOLEAN,
         New(c, n), Store(c, n, status, flagged)
  PROVE  /\ c.dev \in Devices /\ n = Len(received[c.dev]) + 1
         /\ Len(received'[c.dev]) = n
         /\ received'[c.dev][n] = [seq |-> n, status |-> status, flagged |-> flagged]
         /\ \A i \in 1..Len(received[c.dev]) : received'[c.dev][i] = received[c.dev][i]
         /\ \A d \in Devices \ {c.dev} : received'[d] = received[d]
<1> USE DEF IInv
<1>1. c.dev \in Devices /\ n = Len(received[c.dev]) + 1
  BY InTxIs DEF New
<1>2. received[c.dev] \in Seq(Row) /\ Len(received[c.dev]) \in Nat
  BY <1>1, NumbersAre DEF TypeOK
<1>3. received'[c.dev] = Append(received[c.dev], [seq |-> n, status |-> status, flagged |-> flagged])
  BY <1>1 DEF Store, TypeOK
<1>4. [seq |-> n, status |-> status, flagged |-> flagged] \in Row
  BY DEF Row
<1>5. \A d \in Devices \ {c.dev} : received'[d] = received[d]
  BY DEF Store, TypeOK
<1> QED
  BY <1>1, <1>2, <1>3, <1>4, <1>5

\* Losing rows leaves the first of them.
LEMMA LoseTailIs ==
  ASSUME IInv, NEW d \in Devices, NEW k \in 0..MaxOps, LoseTail(d, k)
  PROVE  /\ k \in Nat /\ k < Len(received[d]) /\ Len(received'[d]) = k
         /\ \A i \in 1..k : received'[d][i] = received[d][i]
         /\ lost[d] = {} /\ \A i \in (k + 1)..Len(received[d]) : i \in lost'[d]
         /\ \A e \in Devices \ {d} : received'[e] = received[e] /\ lost'[e] = lost[e]
<1> USE DEF IInv
<1>1. received[d] \in Seq(Row) /\ Len(received[d]) \in Nat /\ k \in Nat /\ k < Len(received[d])
  BY NumbersAre DEF TypeOK, LoseTail
<1>2. received'[d] = SubSeq(received[d], 1, k)
  BY DEF LoseTail, TypeOK
<1>3. \A i \in 1..Len(received[d]) : received[d][i].seq = i
  BY <1>1 DEF RecordedOnceInOrder
<1>4. lost'[d] = {received[d][i].seq : i \in (k + 1)..Len(received[d])}
  BY DEF LoseTail, TypeOK
<1>5. \A i \in (k + 1)..Len(received[d]) : i \in lost'[d]
  BY <1>1, <1>3, <1>4
<1>6. Len(received'[d]) = k /\ \A i \in 1..k : received'[d][i] = received[d][i]
  BY <1>1, <1>2
<1> QED
  BY <1>1, <1>5, <1>6 DEF LoseTail, TypeOK

\* Every step keeps the rows numbered from the first on, each once.
LEMMA OrderStep ==
  ASSUME IInv, [Next]_vars
  PROVE  RecordedOnceInOrder'
<1> USE DEF IInv
<1>1. TypeOK'
  BY TypeStep
<1>2. \A d \in Devices : DOMAIN received'[d] = 1..Len(received'[d])
  BY <1>1 DEF TypeOK
<1>3. \A d \in Devices : \A i \in 1..Len(received[d]) : received[d][i].seq = i
  BY NumbersAre DEF RecordedOnceInOrder
<1>4. CASE received' = received
  BY <1>4 DEF RecordedOnceInOrder
<1>5. ASSUME NEW c \in calls, NEW n \in Seqs, NEW status \in Outcome, NEW flagged \in BOOLEAN,
             New(c, n), Store(c, n, status, flagged)
      PROVE  RecordedOnceInOrder'
  <2>1. \A d \in Devices \ {c.dev} : received'[d] = received[d]
    BY <1>5, StoreIs
  <2>2. Len(received[c.dev]) \in Nat
    BY <1>5, StoreIs, NumbersAre
  <2>3. \A i \in 1..Len(received'[c.dev]) : received'[c.dev][i].seq = i
    <3>1. /\ c.dev \in Devices /\ n = Len(received[c.dev]) + 1 /\ Len(received'[c.dev]) = n
          /\ received'[c.dev][n] = [seq |-> n, status |-> status, flagged |-> flagged]
          /\ \A i \in 1..Len(received[c.dev]) : received'[c.dev][i] = received[c.dev][i]
      BY <1>5, StoreIs
    <3>2. \A i \in 1..n : i = n \/ i \in 1..Len(received[c.dev])
      BY <2>2, <3>1
    <3> QED
      BY <1>3, <3>1, <3>2
  <2> QED
    BY <1>2, <1>3, <2>1, <2>3 DEF RecordedOnceInOrder
<1>6. ASSUME NEW d \in Devices, NEW k \in 0..MaxOps, LoseTail(d, k)
      PROVE  RecordedOnceInOrder'
  <2>1. Len(received[d]) \in Nat
    BY NumbersAre
  <2> QED
    BY <1>2, <1>3, <1>6, <2>1, LoseTailIs DEF RecordedOnceInOrder
<1> QED
  BY <1>4, <1>5, <1>6, RowsStep

\* What the rows of a device tell: the number that is due, and how each operation ended.
RowsTell ==
  \A d \in Devices :
    /\ Len(received[d]) \in Nat
    /\ Expected(d) = Len(received[d]) + 1
    /\ \A n \in Seqs :
        /\ n \in Numbers(d) <=> n <= Len(received[d])
        /\ StoredOutcome(d, n) = IF n <= Len(received[d]) THEN received[d][n].status ELSE "none"
        /\ StoredOutcome(d, n) # "none" <=> n <= Len(received[d])

\* Ordered rows tell, by their number, which operations are stored.
LEMMA RowsSay == TypeOK /\ RecordedOnceInOrder => RowsTell
<1> SUFFICES ASSUME TypeOK, RecordedOnceInOrder PROVE RowsTell
  OBVIOUS
<1>1. \A d \in Devices : Len(received[d]) \in Nat /\ Expected(d) = Len(received[d]) + 1
  BY ExpectedIs, NumbersAre
<1>2. ASSUME NEW d \in Devices, NEW n \in Seqs
      PROVE  /\ n \in Numbers(d) <=> n <= Len(received[d])
             /\ StoredOutcome(d, n) =
                  IF n <= Len(received[d]) THEN received[d][n].status ELSE "none"
             /\ StoredOutcome(d, n) # "none" <=> n <= Len(received[d])
  <2>1. n \in Numbers(d) <=> n <= Len(received[d])
    BY <1>1, NumbersAre DEF Seqs
  <2>2. StoredOutcome(d, n) = IF n <= Len(received[d]) THEN received[d][n].status ELSE "none"
    BY StoredIs
  <2>3. ASSUME n <= Len(received[d])
        PROVE  received[d][n].status # "none"
    <3>1. received[d] \in Seq(Row) /\ n \in 1..Len(received[d])
      BY <1>1, <2>3 DEF TypeOK, Seqs
    <3>2. received[d][n] \in Row
      BY <3>1, ElementOfSeq
    <3> QED
      BY <3>2 DEF Row, Outcome
  <2> QED
    BY <2>1, <2>2, <2>3
<1> QED
  BY <1>1, <1>2 DEF RowsTell

\* The same of the rows after a step.
LEMMA RowsSayNext ==
  ASSUME IInv, [Next]_vars
  PROVE  RowsTell /\ RowsTell'
<1>1. TypeOK' /\ RecordedOnceInOrder'
  BY TypeStep, OrderStep
<1>2. TypeOK' /\ RecordedOnceInOrder' => RowsTell'
  BY RowsSay, PTL
<1> QED
  BY <1>1, <1>2, RowsSay DEF IInv

\* A row stays as it is, unless the server loses it.
LEMMA RowsStay ==
  ASSUME IInv, [Next]_vars, NEW d \in Devices
  PROVE  /\ lost[d] \subseteq lost'[d]
         /\ \A n \in Seqs : StoredOutcome(d, n) # "none" /\ n \notin lost'[d] =>
              StoredOutcome(d, n)' = StoredOutcome(d, n)
<1> USE DEF IInv
<1>1. RowsTell /\ RowsTell'
  BY RowsSayNext
<1>2. CASE received' = received /\ lost' = lost
  BY <1>1, <1>2 DEF RowsTell
<1>3. ASSUME NEW c \in calls, NEW m \in Seqs, NEW status \in Outcome, NEW flagged \in BOOLEAN,
             New(c, m), Store(c, m, status, flagged), lost' = lost
      PROVE  \A n \in Seqs : n <= Len(received[d]) =>
               n <= Len(received'[d]) /\ received'[d][n] = received[d][n]
  <2>1. Len(received[d]) \in Nat
    BY <1>1 DEF RowsTell
  <2>2. CASE d = c.dev
    <3>1. /\ Len(received'[d]) = Len(received[d]) + 1
          /\ \A i \in 1..Len(received[d]) : received'[d][i] = received[d][i]
      BY <1>3, <2>2, StoreIs
    <3> QED
      BY <2>1, <3>1 DEF Seqs
  <2>3. CASE d # c.dev
    BY <1>3, <2>1, <2>3, StoreIs, ZenonT(40)
  <2> QED
    BY <2>2, <2>3
<1>4. ASSUME NEW e \in Devices, NEW k \in 0..MaxOps, LoseTail(e, k)
      PROVE  /\ lost[d] \subseteq lost'[d]
             /\ \A n \in Seqs : n <= Len(received[d]) /\ n \notin lost'[d] =>
                  n <= Len(received'[d]) /\ received'[d][n] = received[d][n]
  <2>1. CASE d = e
    <3>1. Len(received[d]) \in Nat
      BY <1>1 DEF RowsTell
    <3>2. ASSUME NEW n \in Seqs, n <= Len(received[d]), n \notin lost'[d]
          PROVE  n \in 1..k
      BY <1>4, <2>1, <3>1, <3>2, LoseTailIs DEF Seqs
    <3> QED
      BY <1>4, <2>1, <3>2, LoseTailIs
  <2>2. CASE d # e
    BY <1>4, <2>2, LoseTailIs
  <2> QED
    BY <2>1, <2>2
<1>5. ASSUME \A n \in Seqs : n <= Len(received[d]) /\ n \notin lost'[d] =>
               n <= Len(received'[d]) /\ received'[d][n] = received[d][n]
      PROVE  \A n \in Seqs : StoredOutcome(d, n) # "none" /\ n \notin lost'[d] =>
               StoredOutcome(d, n)' = StoredOutcome(d, n)
  BY <1>1, <1>5 DEF RowsTell
<1> QED
  BY <1>2, <1>3, <1>4, <1>5, RowsStep

-----------------------------------------------------------------------------
(* The transactions under the lock. *)

\* A call in its transaction was in it before the step, or began it.
LEMMA TxComesFrom ==
  ASSUME IInv, [Next]_vars
  PROVE  \/ \A x \in calls' : x.step = "tx" => x \in calls
         \/ \E c \in calls : GiveUp(c)
         \/ \E c \in calls, n \in Seqs : Begin(c, n)
<1> USE DEF IInv
<1> DEFINE Old == \A x \in calls' : x.step = "tx" => x \in calls
<1>1. ASSUME NEW d \in Devices, Sell(d) \/ HearRevoke(d) \/ Revoke(d) \/ ForgetRevoke(d)
      PROVE  Old
  BY <1>1 DEF Sell, HearRevoke, PullRefused, Wipe, WipeNotYet, Revoke, ForgetRevoke
<1>2. ASSUME NEW d \in Devices, Push(d)
      PROVE  Old
  <2>1. \A size \in 1..BatchLimit : NewCall(d, Batch(d, size)).step # "tx"
    BY DEF NewCall
  <2> QED
    BY <1>2, <2>1 DEF Push
<1>3. ASSUME NEW d \in Devices, NEW k \in 0..MaxOps, LoseTail(d, k)
      PROVE  Old
  BY <1>3 DEF LoseTail
<1>4. ASSUME NEW c \in calls, RecordAnswer(c) \/ Lose(c)
      PROVE  Old
  BY <1>4 DEF RecordAnswer, Lose
<1>5. ASSUME NEW c \in calls, Duplicate(c)
      PROVE  Old
  <2>1. Unawaited(c).step # "tx"
    BY <1>5, UnawaitedIs DEF Duplicate, TypeOK
  <2> QED
    BY <1>5, <2>1 DEF Duplicate
<1>6. ASSUME NEW c \in calls, NEW by, calls' = Replace(c, by), by.step # "tx"
      PROVE  Old
  BY <1>6, ReplaceIs
<1>7. ASSUME NEW c \in calls, NEW n \in Seqs, NEW a \in Answer,
             calls' = Replace(c, Answered(c, n, a))
      PROVE  Old
  <2>1. Answered(c, n, a).step # "tx"
    BY AnsweredIs, ZenonT(40) DEF TypeOK
  <2> QED
    BY <1>6, <1>7, <2>1
<1>8. ASSUME NEW c \in calls, NEW n \in Seqs,
             AnswerKnown(c, n) \/ Accept(c, n) \/ StoreRejection(c, n)
      PROVE  Old
  <2>1. RepeatedAnswer(c) \in Answer /\ "accepted" \in Answer /\ "rejected" \in Answer
    BY RepeatedAnswerIs DEF Answer
  <2>2. \E a \in Answer : calls' = Replace(c, Answered(c, n, a))
    BY <1>8, <2>1 DEF AnswerKnown, Accept, StoreRejection
  <2> QED
    BY <1>7, <2>2
<1>9. ASSUME NEW c \in calls, NEW n \in Seqs, AnswerGap(c, n) \/ Reject(c, n)
      PROVE  Old
  <2>1. Stopped(c).step # "tx" /\ RolledBack(c).step # "tx"
    BY StoppedIs, RolledBackIs DEF TypeOK
  <2> QED
    BY <1>6, <1>9, <2>1 DEF AnswerGap, Reject
<1>10. ASSUME Heal \/ UNCHANGED vars
       PROVE  Old
  BY <1>10 DEF Heal, vars
<1> QED
  BY <1>1, <1>2, <1>3, <1>4, <1>5, <1>8, <1>9, <1>10 DEF Next, ServerStep, Fault

\* No row of its device changes while a transaction runs, but by its own step.
LEMMA RowsOfTx ==
  ASSUME IInv, [Next]_vars, NEW x \in calls, x \in calls', x.step = "tx"
  PROVE  received'[x.dev] = received[x.dev]
<1> USE DEF IInv
<1>1. x.dev \in Devices
  BY DEF TypeOK, Call
<1>2. ASSUME NEW c \in calls, NEW n \in Seqs, NEW status \in Outcome, NEW flagged \in BOOLEAN,
             New(c, n), Store(c, n, status, flagged), calls' = Replace(c, Answered(c, n, status))
      PROVE  received'[x.dev] = received[x.dev]
  <2>1. CASE x.dev = c.dev
    <3>1. c.step = "tx"
      BY <1>2 DEF New, InTx
    <3>2. x = c
      BY <2>1, <3>1 DEF OneTx
    <3>3. Answered(c, n, status).step # "tx"
      <4>1. c \in Call /\ status \in Answer
        BY DEF TypeOK, Outcome, Answer
      <4> QED
        BY <4>1, AnsweredIs
    <3> QED
      BY <1>2, <3>2, <3>3, ReplaceIs
  <2>2. CASE x.dev # c.dev
    BY <1>1, <1>2, <2>2, StoreIs
  <2> QED
    BY <2>1, <2>2
<1>3. ASSUME NEW d \in Devices, NEW k \in 0..MaxOps, LoseTail(d, k)
      PROVE  received'[x.dev] = received[x.dev]
  <2>1. x.dev # d
    BY <1>3 DEF LoseTail, Serving
  <2> QED
    BY <1>1, <1>3, <2>1, LoseTailIs
<1> QED
  BY <1>2, <1>3, RowsStep

\* Every step keeps what transactions read true.
LEMMA TxStep ==
  ASSUME IInv, [Next]_vars
  PROVE  TxReads' /\ OneTx'
<1> USE DEF IInv
<1>1. RowsTell /\ RowsTell'
  BY RowsSayNext
<1>2. calls \subseteq Call /\ calls' \subseteq Call
  BY TypeStep DEF TypeOK
<1> DEFINE Reads(x) == /\ x.expected = Expected(x.dev)
                       /\ \A n \in x.todo : Oldest(n, x.todo) => x.stored = StoredOutcome(x.dev, n)
           ReadsNext(x) ==
             /\ x.expected = Expected(x.dev)'
             /\ \A n \in x.todo : Oldest(n, x.todo) => x.stored = StoredOutcome(x.dev, n)'
<1>3. ASSUME NEW x \in Call, Reads(x), received'[x.dev] = received[x.dev]
      PROVE  ReadsNext(x)
  BY <1>1, <1>3 DEF RowsTell, Call
<1>4. ASSUME \A x \in calls' : x.step = "tx" => x \in calls
      PROVE  TxReads' /\ OneTx'
  <2>1. ASSUME NEW x \in calls', x.step = "tx"
        PROVE  ReadsNext(x)
    <3>1. x \in calls /\ x \in Call
      BY <1>2, <1>4, <2>1
    <3>2. Reads(x)
      BY <2>1, <3>1 DEF TxReads
    <3>3. received'[x.dev] = received[x.dev]
      BY <2>1, <3>1, RowsOfTx
    <3> QED
      BY <1>3, <3>1, <3>2, <3>3
  <2>2. OneTx'
    BY <1>4 DEF OneTx
  <2> QED
    BY <2>1, <2>2 DEF TxReads
<1>5. ASSUME NEW c \in calls, GiveUp(c)
      PROVE  TxReads' /\ OneTx'
  <2>1. received' = received
    BY <1>5 DEF GiveUp, serverVars
  <2>2. calls' \subseteq (calls \ {c}) \cup {Unawaited(c)}
    BY <1>5, ReplaceIs DEF GiveUp
  <2>3. /\ Unawaited(c) \in Call /\ Unawaited(c).dev = c.dev /\ Unawaited(c).step = c.step
        /\ Unawaited(c).todo = c.todo /\ Unawaited(c).expected = c.expected
        /\ Unawaited(c).stored = c.stored
    BY <1>2, UnawaitedIs
  <2>4. ASSUME NEW x \in calls', x.step = "tx"
        PROVE  ReadsNext(x)
    <3>1. x \in Call /\ Reads(x)
      BY <1>2, <2>2, <2>3, <2>4 DEF TxReads
    <3> QED
      BY <1>3, <2>1, <3>1
  <2>5. OneTx'
    BY <2>2, <2>3 DEF OneTx
  <2> QED
    BY <2>4, <2>5 DEF TxReads
<1>6. ASSUME NEW c \in calls, NEW n \in Seqs, Begin(c, n)
      PROVE  TxReads' /\ OneTx'
  <2>1. received' = received
    BY <1>6 DEF Begin, serverVars
  <2>2. calls' \subseteq (calls \ {c}) \cup {Begun(c, n)}
    BY <1>6, ReplaceIs DEF Begin
  <2>3. /\ Begun(c, n) \in Call /\ Begun(c, n).dev = c.dev
        /\ Begun(c, n).todo = c.todo /\ Begun(c, n).expected = Expected(c.dev)
        /\ Begun(c, n).stored = StoredOutcome(c.dev, n)
    BY <1>2, BegunIs
  <2>4. \A y \in calls : y.dev = c.dev => y.step # "tx"
    BY <1>6 DEF Begin, Locked
  <2>5. Reads(Begun(c, n))
    <3>1. \A m \in c.todo : Oldest(m, c.todo) => m = n
      <4>1. c.todo \subseteq Nat
        BY <1>2 DEF Call, Seqs
      <4> QED
        BY <1>6, <4>1 DEF Begin, Oldest
    <3> QED
      BY <2>3, <3>1
  <2>6. ASSUME NEW x \in calls', x.step = "tx"
        PROVE  ReadsNext(x)
    <3>1. x \in Call /\ Reads(x)
      BY <1>2, <2>2, <2>3, <2>5, <2>6 DEF TxReads
    <3> QED
      BY <1>3, <2>1, <3>1
  <2>7. OneTx'
    BY <2>2, <2>3, <2>4 DEF OneTx
  <2> QED
    BY <2>6, <2>7 DEF TxReads
<1> QED
  BY <1>4, <1>5, <1>6, TxComesFrom

-----------------------------------------------------------------------------
(* The answers. *)

\* The answer and the row of operation n of device d agree after the step.
AgreesNext(d, n, answer) ==
  answer \in Answer /\ n \notin lost'[d] =>
    StoredOutcome(d, n)' = IF answer = "rejected" THEN "rejected" ELSE "accepted"

\* Whatever agreed before still does.
LEMMA AgreementStays ==
  ASSUME IInv, [Next]_vars, NEW d \in Devices, NEW n \in Seqs, NEW answer,
         answer \in Answer /\ n \notin lost[d] =>
           StoredOutcome(d, n) = IF answer = "rejected" THEN "rejected" ELSE "accepted"
  PROVE  AgreesNext(d, n, answer)
  BY RowsStay DEF AgreesNext

\* The answer a transaction gives agrees with the row it leaves.
LEMMA AnswerGiven ==
  ASSUME IInv, [Next]_vars, NEW c \in calls, NEW n \in Seqs
  PROVE  /\ AnswerKnown(c, n) => AgreesNext(c.dev, n, RepeatedAnswer(c))
         /\ Accept(c, n) => AgreesNext(c.dev, n, "accepted")
         /\ StoreRejection(c, n) => AgreesNext(c.dev, n, "rejected")
<1> USE DEF IInv
<1>1. RowsTell /\ RowsTell'
  BY RowsSayNext
<1>2. c \in Call /\ c.dev \in Devices
  BY DEF TypeOK, Call
<1>3. ASSUME AnswerKnown(c, n)
      PROVE  AgreesNext(c.dev, n, RepeatedAnswer(c))
  <2>1. /\ c.expected = Len(received[c.dev]) + 1
        /\ c.stored = StoredOutcome(c.dev, n)
    BY <1>3, InTxIs DEF AnswerKnown
  <2>2. c.stored # "none"
    BY <1>1, <1>2, <1>3, <2>1 DEF AnswerKnown, RowsTell, Seqs
  <2>3. c.stored \in Outcome
    BY <1>2, <2>2 DEF Call
  <2>4. StoredOutcome(c.dev, n) =
          IF RepeatedAnswer(c) = "rejected" THEN "rejected" ELSE "accepted"
    BY <2>1, <2>3 DEF RepeatedAnswer, Outcome
  <2> QED
    BY <1>2, <2>4, AgreementStays
<1>4. ASSUME NEW status \in Outcome, NEW flagged \in BOOLEAN,
             New(c, n), Store(c, n, status, flagged)
      PROVE  StoredOutcome(c.dev, n)' = status
  <2>1. /\ Len(received'[c.dev]) = n
        /\ received'[c.dev][n] = [seq |-> n, status |-> status, flagged |-> flagged]
    BY <1>4, StoreIs
  <2> QED
    BY <1>1, <1>2, <2>1 DEF RowsTell, Seqs
<1>5. ASSUME Accept(c, n)
      PROVE  AgreesNext(c.dev, n, "accepted")
  <2>1. c.sawRevoked \in BOOLEAN
    BY <1>2 DEF Call
  <2>2. New(c, n) /\ Store(c, n, "accepted", c.sawRevoked)
    BY <1>5 DEF Accept
  <2>3. StoredOutcome(c.dev, n)' = "accepted"
    BY <1>4, <2>1, <2>2 DEF Outcome
  <2> QED
    BY <2>3 DEF AgreesNext
<1>6. ASSUME StoreRejection(c, n)
      PROVE  AgreesNext(c.dev, n, "rejected")
  <2>1. New(c, n) /\ Store(c, n, "rejected", FALSE)
    BY <1>6 DEF StoreRejection
  <2>2. StoredOutcome(c.dev, n)' = "rejected"
    BY <1>4, <2>1 DEF Outcome
  <2> QED
    BY <2>2 DEF AgreesNext
<1> QED
  BY <1>3, <1>5, <1>6

\* Every step keeps the answers under way in agreement with the rows.
LEMMA AnswersStep ==
  ASSUME IInv, [Next]_vars
  PROVE  AnswersAgree'
<1> USE DEF IInv
<1>1. calls \subseteq Call
  BY DEF TypeOK
<1> DEFINE Agrees(x) == \A n \in Seqs : AgreesNext(x.dev, n, x.answers[n])
<1>2. ASSUME NEW c \in calls, NEW x, x.dev = c.dev, x.answers = c.answers
      PROVE  Agrees(x)
  <2>1. c.dev \in Devices
    BY <1>1 DEF Call
  <2>2. ASSUME NEW n \in Seqs
        PROVE  AgreesNext(c.dev, n, c.answers[n])
    BY <2>1, AgreementStays DEF AnswersAgree
  <2> QED
    BY <1>2, <2>2
<1>3. ASSUME NEW c \in calls, NEW by, by.dev = c.dev, by.answers = c.answers,
             calls' \subseteq calls \cup {by}
      PROVE  \A x \in calls' : Agrees(x)
  <2>1. Agrees(by)
    BY <1>2, <1>3
  <2>2. \A x \in calls : Agrees(x)
    BY <1>2
  <2> QED
    BY <1>3, <2>1, <2>2
<1>4. ASSUME NEW c \in calls, NEW n \in Seqs, NEW a \in Answer, AgreesNext(c.dev, n, a),
             calls' = Replace(c, Answered(c, n, a))
      PROVE  \A x \in calls' : Agrees(x)
  <2>1. /\ Answered(c, n, a).dev = c.dev
        /\ Answered(c, n, a).answers = [c.answers EXCEPT ![n] = a]
    BY <1>1, AnsweredIs
  <2>2. c.answers \in [Seqs -> Answer \cup {"none"}]
    BY <1>1 DEF Call
  <2>3. ASSUME NEW m \in Seqs
        PROVE  AgreesNext(c.dev, m, Answered(c, n, a).answers[m])
    <3>1. AgreesNext(c.dev, m, c.answers[m])
      BY <1>2
    <3>2. Answered(c, n, a).answers[m] = IF m = n THEN a ELSE c.answers[m]
      BY <2>1, <2>2
    <3> QED
      BY <1>4, <3>1, <3>2
  <2>4. Agrees(Answered(c, n, a))
    BY <2>1, <2>3
  <2>5. \A x \in calls : Agrees(x)
    BY <1>2
  <2> QED
    BY <1>4, <2>4, <2>5, ReplaceIs
<1>5. ASSUME NEW d \in Devices, Sell(d) \/ HearRevoke(d) \/ Revoke(d) \/ ForgetRevoke(d)
      PROVE  calls' \subseteq calls
  BY <1>5 DEF Sell, HearRevoke, PullRefused, Wipe, WipeNotYet, Revoke, ForgetRevoke
<1>6. ASSUME NEW d \in Devices, NEW k \in 0..MaxOps, LoseTail(d, k)
      PROVE  calls' \subseteq calls
  BY <1>6 DEF LoseTail
<1>7. ASSUME NEW c \in calls, RecordAnswer(c) \/ Lose(c)
      PROVE  calls' \subseteq calls
  BY <1>7 DEF RecordAnswer, Lose
<1>8. ASSUME Heal \/ UNCHANGED vars
      PROVE  calls' \subseteq calls
  BY <1>8 DEF Heal, vars
<1>9. ASSUME NEW d \in Devices, Push(d)
      PROVE  \A x \in calls' : Agrees(x)
  <2>1. PICK size \in 1..BatchLimit : calls' = calls \cup {NewCall(d, Batch(d, size))}
    BY <1>9 DEF Push
  <2>2. Batch(d, size) \in SUBSET Seqs
    BY DEF Batch, Pending
  <2>3. \A n \in Seqs : NewCall(d, Batch(d, size)).answers[n] = "none"
    BY <2>2, NewCallIs
  <2>4. Agrees(NewCall(d, Batch(d, size)))
    BY <2>3 DEF AgreesNext, Answer
  <2> QED
    BY <1>2, <2>1, <2>4
<1>10. ASSUME NEW c \in calls, NEW n \in Seqs,
              AnswerKnown(c, n) \/ Accept(c, n) \/ StoreRejection(c, n)
       PROVE  \A x \in calls' : Agrees(x)
  <2>1. RepeatedAnswer(c) \in Answer /\ "accepted" \in Answer /\ "rejected" \in Answer
    BY RepeatedAnswerIs DEF Answer
  <2>2. \E a \in Answer : AgreesNext(c.dev, n, a) /\ calls' = Replace(c, Answered(c, n, a))
    BY <1>10, <2>1, AnswerGiven DEF AnswerKnown, Accept, StoreRejection
  <2> QED
    BY <1>4, <2>2
<1>11. ASSUME NEW c \in calls, NEW n \in Seqs, Begin(c, n)
       PROVE  \A x \in calls' : Agrees(x)
  <2>1. Begun(c, n).dev = c.dev /\ Begun(c, n).answers = c.answers
    BY <1>1, BegunIs
  <2> QED
    BY <1>3, <1>11, <2>1, ReplaceIs DEF Begin
<1>12. ASSUME NEW c \in calls, NEW n \in Seqs, AnswerGap(c, n)
       PROVE  \A x \in calls' : Agrees(x)
  <2>1. Stopped(c).dev = c.dev /\ Stopped(c).answers = c.answers
    BY <1>1, StoppedIs
  <2> QED
    BY <1>3, <1>12, <2>1, ReplaceIs DEF AnswerGap
<1>13. ASSUME NEW c \in calls, NEW n \in Seqs, Reject(c, n)
       PROVE  \A x \in calls' : Agrees(x)
  <2>1. RolledBack(c).dev = c.dev /\ RolledBack(c).answers = c.answers
    BY <1>1, RolledBackIs
  <2> QED
    BY <1>3, <1>13, <2>1, ReplaceIs DEF Reject
<1>14. ASSUME NEW c \in calls, GiveUp(c) \/ Duplicate(c)
       PROVE  \A x \in calls' : Agrees(x)
  <2>1. Unawaited(c).dev = c.dev /\ Unawaited(c).answers = c.answers
    BY <1>1, UnawaitedIs
  <2>2. calls' \subseteq calls \cup {Unawaited(c)}
    BY <1>14, ReplaceIs DEF GiveUp, Duplicate
  <2> QED
    BY <1>3, <2>1, <2>2
<1>15. ASSUME calls' \subseteq calls
       PROVE  \A x \in calls' : Agrees(x)
  BY <1>2, <1>15
<1>16. \A x \in calls' : Agrees(x)
  BY <1>5, <1>6, <1>7, <1>8, <1>9, <1>10, <1>11, <1>12, <1>13, <1>14, <1>15
  DEF Next, ServerStep, Fault
<1> QED
  BY <1>16 DEF AnswersAgree, AgreesNext

-----------------------------------------------------------------------------
(* The outbox and the wipe. *)

\* What a step does to the tables of the devices.
LEMMA DeviceStep ==
  ASSUME [Next]_vars
  PROVE  \/ UNCHANGED deviceVars
         \/ \E d \in Devices : Sell(d) \/ Wipe(d)
         \/ \E c \in calls : RecordAnswer(c)
<1>1. ASSUME NEW d \in Devices, Push(d) \/ PullRefused(d) \/ WipeNotYet(d) \/ Revoke(d) \/ ForgetRevoke(d)
      PROVE  UNCHANGED deviceVars
  BY <1>1 DEF Push, PullRefused, WipeNotYet, Revoke, ForgetRevoke
<1>2. ASSUME NEW d \in Devices, NEW k \in 0..MaxOps, LoseTail(d, k)
      PROVE  UNCHANGED deviceVars
  BY <1>2 DEF LoseTail
<1>3. ASSUME NEW c \in calls, ServerStep(c) \/ Fault(c)
      PROVE  UNCHANGED deviceVars
  BY <1>3 DEF ServerStep, Begin, AnswerKnown, AnswerGap, Accept, Reject, StoreRejection,
              Fault, Lose, GiveUp, Duplicate
<1>4. ASSUME Heal \/ UNCHANGED vars
      PROVE  UNCHANGED deviceVars
  BY <1>4 DEF Heal, vars
<1> QED
  BY <1>1, <1>2, <1>3, <1>4 DEF Next, HearRevoke

\* Every step keeps the outbox in agreement with the rows.
LEMMA OutboxStep ==
  ASSUME IInv, [Next]_vars
  PROVE  OutboxAgrees'
<1> USE DEF IInv
<1>1. ASSUME NEW d \in Devices, NEW n \in Seqs
      PROVE  AgreesNext(d, n, outbox[d][n])
  BY AgreementStays DEF OutboxAgrees
<1> DEFINE Goal == \A d \in Devices, n \in Seqs : AgreesNext(d, n, outbox'[d][n])
<1>2. ASSUME UNCHANGED deviceVars
      PROVE  Goal
  BY <1>1, <1>2 DEF deviceVars
<1>3. ASSUME NEW e \in Devices, Sell(e)
      PROVE  Goal
  <2>1. \A d \in Devices, n \in Seqs : outbox'[d][n] \in {outbox[d][n], "pending"}
    BY <1>3 DEF Sell, TypeOK
  <2>2. "pending" \notin Answer
    BY DEF Answer
  <2> QED
    BY <1>1, <2>1, <2>2 DEF AgreesNext
<1>4. ASSUME NEW e \in Devices, Wipe(e)
      PROVE  Goal
  <2>1. \A d \in Devices, n \in Seqs : outbox'[d][n] \in {outbox[d][n], "none"}
    BY <1>4 DEF Wipe, TypeOK
  <2>2. "none" \notin Answer
    BY DEF Answer
  <2> QED
    BY <1>1, <2>1, <2>2 DEF AgreesNext
<1>5. ASSUME NEW c \in calls, RecordAnswer(c)
      PROVE  Goal
  <2>1. c \in Call /\ c.dev \in Devices
    BY DEF TypeOK, Call
  <2>2. \A n \in Seqs : AgreesNext(c.dev, n, c.answers[n])
    BY <2>1, AgreementStays DEF AnswersAgree
  <2>3. \A d \in Devices, n \in Seqs :
          outbox'[d][n] = IF d = c.dev THEN AfterAnswer(d, c, n) ELSE outbox[d][n]
    BY <1>5 DEF RecordAnswer, TypeOK
  <2>4. \A n \in Seqs : AfterAnswer(c.dev, c, n) \in {outbox[c.dev][n], c.answers[n], "pending"}
    BY DEF AfterAnswer
  <2>5. "pending" \notin Answer
    BY DEF Answer
  <2> QED
    BY <1>1, <2>1, <2>2, <2>3, <2>4, <2>5 DEF AgreesNext
<1>6. Goal
  BY <1>2, <1>3, <1>4, <1>5, DeviceStep
<1> QED
  BY <1>6 DEF OutboxAgrees, AgreesNext

\* Every step keeps the rows and the outbox together complete.
LEMMA CompleteStep ==
  ASSUME IInv, [Next]_vars
  PROVE  OutboxComplete'
<1> USE DEF IInv
<1>1. CASE UNCHANGED deviceVars
  BY <1>1 DEF deviceVars, OutboxComplete
<1>2. ASSUME NEW e \in Devices, Sell(e)
      PROVE  OutboxComplete'
  <2>1. deviceSeq[e] = sold[e] /\ sold[e] \in Nat /\ sold[e] + 1 \in Seqs
    BY <1>2 DEF Sell, OutboxComplete, TypeOK, Seqs
  <2>2. \A d \in Devices : phase'[d] = phase[d]
    BY <1>2 DEF Sell
  <2>3. \A d \in Devices \ {e} :
          deviceSeq'[d] = deviceSeq[d] /\ sold'[d] = sold[d] /\ outbox'[d] = outbox[d]
    BY <1>2 DEF Sell, TypeOK
  <2>4. deviceSeq'[e] = sold[e] + 1 /\ sold'[e] = sold[e] + 1
    BY <1>2, <2>1 DEF Sell, TypeOK
  <2>5. outbox'[e] = [outbox[e] EXCEPT ![sold[e] + 1] = "pending"]
    BY <1>2, <2>1 DEF Sell, TypeOK
  <2>6. ASSUME NEW n \in 1..(sold[e] + 1)
        PROVE  outbox'[e][n] # "none"
    <3>1. n \in Seqs
      BY <2>1 DEF Seqs
    <3>2. outbox[e] \in [Seqs -> OutboxState]
      BY DEF TypeOK
    <3>3. CASE n = sold[e] + 1
      BY <2>5, <3>1, <3>2, <3>3
    <3>4. CASE n # sold[e] + 1
      <4>1. n \in 1..sold[e]
        BY <2>1, <3>4
      <4>2. outbox[e][n] # "none"
        BY <1>2, <4>1 DEF Sell, OutboxComplete
      <4> QED
        BY <2>5, <3>1, <3>2, <3>4, <4>2
    <3> QED
      BY <3>3, <3>4
  <2> QED
    BY <2>2, <2>3, <2>4, <2>6 DEF OutboxComplete
<1>3. ASSUME NEW e \in Devices, Wipe(e)
      PROVE  OutboxComplete'
  <2>1. phase'[e] = "wiped"
    BY <1>3 DEF Wipe, TypeOK
  <2>2. \A d \in Devices \ {e} :
          /\ phase'[d] = phase[d] /\ deviceSeq'[d] = deviceSeq[d] /\ sold'[d] = sold[d]
          /\ outbox'[d] = outbox[d]
    BY <1>3 DEF Wipe, TypeOK
  <2> QED
    BY <2>1, <2>2 DEF OutboxComplete
<1>4. ASSUME NEW c \in calls, RecordAnswer(c)
      PROVE  OutboxComplete'
  <2>1. \A d \in Devices, n \in Seqs :
          outbox'[d][n] = IF d = c.dev THEN AfterAnswer(d, c, n) ELSE outbox[d][n]
    BY <1>4 DEF RecordAnswer, TypeOK
  <2>2. \A n \in Seqs : outbox[c.dev][n] # "none" => AfterAnswer(c.dev, c, n) # "none"
    BY DEF AfterAnswer
  <2>3. \A d \in Devices : 1..sold[d] \subseteq Seqs
    BY DEF TypeOK, Seqs
  <2> QED
    BY <1>4, <2>1, <2>2, <2>3 DEF RecordAnswer, OutboxComplete
<1> QED
  BY <1>1, <1>2, <1>3, <1>4, DeviceStep

\* Every step keeps what a wipe left behind at the server.
LEMMA WipeStep ==
  ASSUME IInv, [Next]_vars
  PROVE  WipeLosesNothing'
<1> USE DEF IInv
<1>1. RowsTell /\ RowsTell'
  BY RowsSayNext
<1>2. \A d \in Devices : sold[d] \in Nat /\ 1..sold[d] \subseteq Seqs
  BY DEF TypeOK, Seqs
<1>3. ASSUME NEW d \in Devices, NEW n \in Seqs, n \in Numbers(d) \cup lost[d]
      PROVE  n \in Numbers(d)' \cup lost'[d]
  BY <1>1, <1>3, RowsStay DEF RowsTell
<1>4. ASSUME NEW d \in Devices, phase[d] = "wiped"
      PROVE  \A n \in 1..sold[d] : n \in Numbers(d)' \cup lost'[d]
  BY <1>2, <1>3, <1>4 DEF WipeLosesNothing
<1>5. CASE UNCHANGED deviceVars
  BY <1>4, <1>5 DEF deviceVars, WipeLosesNothing
<1>6. ASSUME NEW e \in Devices, Sell(e)
      PROVE  WipeLosesNothing'
  <2>1. \A d \in Devices : phase'[d] = "wiped" => phase[d] = "wiped" /\ sold'[d] = sold[d]
    BY <1>6 DEF Sell, TypeOK
  <2> QED
    BY <1>4, <2>1 DEF WipeLosesNothing
<1>7. ASSUME NEW e \in Devices, Wipe(e)
      PROVE  WipeLosesNothing'
  <2>1. ASSUME NEW n \in 1..sold[e]
        PROVE  n \in Numbers(e) \cup lost[e]
    <3>1. n \in Seqs
      BY <1>2
    <3>2. outbox[e][n] # "none" /\ outbox[e][n] # "pending"
      BY <1>7, <3>1 DEF Wipe, OutboxComplete, Pending
    <3>3. outbox[e][n] \in Answer
      BY <3>1, <3>2 DEF TypeOK, OutboxState
    <3>4. n \notin lost[e] => StoredOutcome(e, n) # "none"
      BY <3>1, <3>3 DEF OutboxAgrees
    <3> QED
      BY <1>1, <3>1, <3>4 DEF RowsTell
  <2>2. \A n \in 1..sold[e] : n \in Numbers(e)' \cup lost'[e]
    BY <1>2, <1>3, <2>1
  <2>3. \A d \in Devices \ {e} : phase'[d] = phase[d]
    BY <1>7 DEF Wipe, TypeOK
  <2>4. sold' = sold
    BY <1>7 DEF Wipe
  <2> QED
    BY <1>4, <2>2, <2>3, <2>4 DEF WipeLosesNothing
<1>8. ASSUME NEW c \in calls, RecordAnswer(c)
      PROVE  WipeLosesNothing'
  BY <1>4, <1>8 DEF RecordAnswer, WipeLosesNothing
<1> QED
  BY <1>5, <1>6, <1>7, <1>8, DeviceStep

-----------------------------------------------------------------------------
(* The theorems. *)

\* The inductive invariant holds throughout (outbox.ts, engine.ts and push.ts together).
THEOREM Invariance == Spec => []IInv
<1>1. Init => IInv
  BY InitInv
<1>2. IInv /\ [Next]_vars => IInv'
  BY TypeStep, OrderStep, TxStep, AnswersStep, OutboxStep, CompleteStep, WipeStep DEF IInv
<1> QED
  BY <1>1, <1>2, PTL DEF Spec

\* Every variable keeps its type: in particular no operation gets a number beyond those made.
THEOREM TypeCorrect == Spec => []TypeOK
<1>1. IInv => TypeOK
  BY DEF IInv
<1> QED
  BY <1>1, Invariance, PTL

\* For any number of devices and operations, any loss, delay, duplication and reordering of
\* pushes and any single loss of rows, the server records the operations of a device once each
\* and in order (processOperation).
THEOREM OnceInOrder == Spec => []RecordedOnceInOrder
<1>1. IInv => RecordedOnceInOrder
  BY DEF IInv
<1> QED
  BY <1>1, Invariance, PTL

\* The device's outbox never contradicts the server's record of an operation (recordResults).
THEOREM OutboxTruthful == Spec => []OutboxAgrees
<1>1. IInv => OutboxAgrees
  BY DEF IInv
<1> QED
  BY <1>1, Invariance, PTL

\* A wiped device left nothing behind that the server did not have (wipeWhenAnswered).
THEOREM NothingLostByWipe == Spec => []WipeLosesNothing
<1>1. IInv => WipeLosesNothing
  BY DEF IInv
<1> QED
  BY <1>1, Invariance, PTL

\* The primary key never refuses an operation that the checks under the lock let through
\* (processOperation, received_ops_device_seq).
THEOREM LockSuffices == Spec => []ReadsHoldUnderLock
<1>1. IInv => ReadsHoldUnderLock
  <2> SUFFICES ASSUME IInv, NEW c \in calls, NEW n \in Seqs, New(c, n)
               PROVE  Storable(c.dev, n)
    BY DEF ReadsHoldUnderLock
  <2>1. c.dev \in Devices /\ n = Len(received[c.dev]) + 1
    BY InTxIs DEF New, IInv
  <2>2. RowsTell
    BY RowsSay DEF IInv
  <2> QED
    BY <2>1, <2>2 DEF Storable, RowsTell
<1> QED
  BY <1>1, Invariance, PTL

-----------------------------------------------------------------------------
(* The flags of a revoke. *)

\* A device had no more rows when it was revoked than it has now.
RevokeCounted == \A d \in Devices : rowsAtRevoke[d] <= Len(received[d])

\* A transaction that has not seen the revoke is the first one of its device to store since.
SeesRevoke ==
  \A c \in calls : c.step = "tx" =>
    /\ c.sawRevoked => revoked[c.dev]
    /\ revoked[c.dev] /\ ~c.sawRevoked => rowsAtRevoke[c.dev] = Len(received[c.dev])

FlagInv == IInv /\ RevokeCounted /\ SeesRevoke /\ FlaggedSinceRevoke

\* What a step does to rows and revokes.
LEMMA RowsFrom ==
  ASSUME [Next]_vars
  PROVE  \/ received' = received /\ revoked' = revoked /\ rowsAtRevoke' = rowsAtRevoke
         \/ \E d \in Devices : Revoke(d)
         \/ \E c \in calls, n \in Seqs : Accept(c, n) \/ StoreRejection(c, n)
         \/ \E d \in Devices, k \in 0..MaxOps : LoseTail(d, k)
<1> DEFINE Same == received' = received /\ revoked' = revoked /\ rowsAtRevoke' = rowsAtRevoke
<1>1. ASSUME NEW d \in Devices, Sell(d) \/ Push(d) \/ HearRevoke(d) \/ ForgetRevoke(d)
      PROVE  Same
  BY <1>1 DEF Sell, Push, HearRevoke, PullRefused, Wipe, WipeNotYet, ForgetRevoke, serverVars
<1>2. ASSUME NEW c \in calls, RecordAnswer(c) \/ Fault(c)
      PROVE  Same
  BY <1>2 DEF RecordAnswer, Fault, Lose, GiveUp, Duplicate, serverVars
<1>3. ASSUME NEW c \in calls, NEW n \in Seqs,
             Begin(c, n) \/ AnswerKnown(c, n) \/ AnswerGap(c, n) \/ Reject(c, n)
      PROVE  Same
  BY <1>3 DEF Begin, AnswerKnown, AnswerGap, Reject, serverVars
<1>4. ASSUME Heal \/ UNCHANGED vars
      PROVE  Same
  BY <1>4 DEF Heal, vars, serverVars
<1> HIDE DEF Same
<1>5. Same \/ (\E d \in Devices : Revoke(d))
           \/ (\E c \in calls, n \in Seqs : Accept(c, n) \/ StoreRejection(c, n))
           \/ (\E d \in Devices, k \in 0..MaxOps : LoseTail(d, k))
  BY <1>1, <1>2, <1>3, <1>4 DEF Next, ServerStep
<1> QED
  BY <1>5 DEF Same

\* The row a transaction stores tells whether it saw the revoke, if the operation is accepted.
LEMMA StoredRow ==
  ASSUME IInv, NEW c \in calls, NEW n \in Seqs, Accept(c, n) \/ StoreRejection(c, n)
  PROVE  /\ c.dev \in Devices /\ c.step = "tx" /\ n = Len(received[c.dev]) + 1
         /\ Len(received[c.dev]) \in Nat /\ Len(received'[c.dev]) = n
         /\ received'[c.dev][n].status = "accepted" =>
              received'[c.dev][n].flagged = c.sawRevoked
         /\ \A i \in 1..Len(received[c.dev]) : received'[c.dev][i] = received[c.dev][i]
         /\ \A d \in Devices \ {c.dev} : received'[d] = received[d]
         /\ revoked' = revoked /\ rowsAtRevoke' = rowsAtRevoke
<1>1. New(c, n) /\ c.step = "tx" /\ revoked' = revoked /\ rowsAtRevoke' = rowsAtRevoke
  BY DEF Accept, StoreRejection, New, InTx
<1>2. c.sawRevoked \in BOOLEAN
  BY DEF IInv, TypeOK, Call
<1>3. "accepted" \in Outcome /\ "rejected" \in Outcome
  BY DEF Outcome
<1>4. \/ Store(c, n, "accepted", c.sawRevoked)
      \/ Store(c, n, "rejected", FALSE)
  BY DEF Accept, StoreRejection
<1>5. Len(received[c.dev]) \in Nat
  <2>1. c.dev \in Devices
    BY DEF IInv, TypeOK, Call
  <2> QED BY <2>1, NumbersAre DEF IInv
<1>6. ASSUME NEW status \in Outcome, NEW flagged \in BOOLEAN, Store(c, n, status, flagged)
      PROVE  /\ c.dev \in Devices /\ n = Len(received[c.dev]) + 1 /\ Len(received'[c.dev]) = n
             /\ received'[c.dev][n].status = status /\ received'[c.dev][n].flagged = flagged
             /\ \A i \in 1..Len(received[c.dev]) : received'[c.dev][i] = received[c.dev][i]
             /\ \A d \in Devices \ {c.dev} : received'[d] = received[d]
  <2>1. /\ c.dev \in Devices /\ n = Len(received[c.dev]) + 1 /\ Len(received'[c.dev]) = n
        /\ received'[c.dev][n] = [seq |-> n, status |-> status, flagged |-> flagged]
        /\ \A i \in 1..Len(received[c.dev]) : received'[c.dev][i] = received[c.dev][i]
        /\ \A d \in Devices \ {c.dev} : received'[d] = received[d]
    BY <1>1, <1>6, StoreIs
  <2> QED BY <2>1
<1>7. CASE Store(c, n, "accepted", c.sawRevoked)
  BY <1>1, <1>2, <1>3, <1>5, <1>6, <1>7
<1>8. CASE Store(c, n, "rejected", FALSE)
  <2>1. received'[c.dev][n].status # "accepted"
    BY <1>3, <1>6, <1>8
  <2> QED BY <1>1, <1>3, <1>5, <1>6, <1>8, <2>1
<1> QED
  BY <1>4, <1>7, <1>8

\* The types that these proofs need of rows and revokes.
LEMMA RevokeTypes ==
  ASSUME IInv, NEW d \in Devices
  PROVE  /\ rowsAtRevoke[d] \in Nat /\ revoked[d] \in BOOLEAN
         /\ received[d] \in Seq(Row) /\ Len(received[d]) \in Nat
         /\ DOMAIN received[d] = 1..Len(received[d])
  BY NumbersAre DEF IInv, TypeOK

\* Losing rows brings what was counted at the revoke down with them.
LEMMA LoseTailCounts ==
  ASSUME IInv, NEW d \in Devices, NEW k \in 0..MaxOps, LoseTail(d, k)
  PROVE  /\ rowsAtRevoke'[d] = IF rowsAtRevoke[d] < k THEN rowsAtRevoke[d] ELSE k
         /\ \A e \in Devices \ {d} : rowsAtRevoke'[e] = rowsAtRevoke[e]
         /\ revoked' = revoked
         /\ \A c \in calls' : c \in calls /\ (c.step = "tx" => c.dev # d)
  BY DEF LoseTail, Serving, IInv, TypeOK

\* Rows stored since a revoke are counted from it.
LEMMA CountedStep ==
  ASSUME FlagInv, [Next]_vars
  PROVE  RevokeCounted'
<1> USE DEF FlagInv, RevokeCounted
<1>1. CASE received' = received /\ revoked' = revoked /\ rowsAtRevoke' = rowsAtRevoke
  BY <1>1
<1>2. ASSUME NEW e \in Devices, Revoke(e)
      PROVE  RevokeCounted'
  <2>1. received' = received
    BY <1>2 DEF Revoke
  <2>2. \A d \in Devices : rowsAtRevoke'[d] = IF d = e THEN Len(received[d]) ELSE rowsAtRevoke[d]
    BY <1>2 DEF Revoke, IInv, TypeOK
  <2> QED BY <2>1, <2>2, RevokeTypes
<1>3. ASSUME NEW c \in calls, NEW n \in Seqs, Accept(c, n) \/ StoreRejection(c, n)
      PROVE  RevokeCounted'
  <2> TAKE d \in Devices
  <2>1. CASE d = c.dev
    BY <1>3, <2>1, StoredRow, RevokeTypes
  <2>2. CASE d # c.dev
    BY <1>3, <2>2, StoredRow
  <2> QED BY <2>1, <2>2
<1>4. ASSUME NEW e \in Devices, NEW k \in 0..MaxOps, LoseTail(e, k)
      PROVE  RevokeCounted'
  <2> TAKE d \in Devices
  <2>1. CASE d = e
    BY <1>4, <2>1, LoseTailCounts, LoseTailIs, RevokeTypes
  <2>2. CASE d # e
    BY <1>4, <2>2, LoseTailCounts, LoseTailIs
  <2> QED BY <2>1, <2>2
<1> QED
  BY <1>1, <1>2, <1>3, <1>4, RowsFrom

\* A transaction that has not seen the revoke stays the first to store since: the others wait for
\* its lock.
LEMMA SeesStep ==
  ASSUME FlagInv, [Next]_vars
  PROVE  SeesRevoke'
<1> USE DEF FlagInv
<1> DEFINE Sees(x) ==
             /\ x.sawRevoked => revoked[x.dev]
             /\ revoked[x.dev] /\ ~x.sawRevoked => rowsAtRevoke[x.dev] = Len(received[x.dev])
           SeesNext(x) ==
             /\ x.sawRevoked => revoked'[x.dev]
             /\ revoked'[x.dev] /\ ~x.sawRevoked => rowsAtRevoke'[x.dev] = Len(received'[x.dev])
<1>1. calls \subseteq Call
  BY DEF IInv, TypeOK
<1>2. ASSUME NEW x \in calls, x \in calls', x.step = "tx"
      PROVE  SeesNext(x)
  <2>1. Sees(x) /\ x.dev \in Devices /\ received'[x.dev] = received[x.dev]
    BY <1>1, <1>2, RowsOfTx DEF SeesRevoke, Call
  <2>2. CASE received' = received /\ revoked' = revoked /\ rowsAtRevoke' = rowsAtRevoke
    BY <2>1, <2>2
  <2>3. ASSUME NEW d \in Devices, Revoke(d)
        PROVE  SeesNext(x)
    <3>1. \A e \in Devices :
            /\ revoked'[e] = (e = d \/ revoked[e])
            /\ rowsAtRevoke'[e] = IF e = d THEN Len(received[e]) ELSE rowsAtRevoke[e]
      BY <2>3 DEF Revoke, IInv, TypeOK
    <3> QED BY <2>1, <3>1
  <2>4. ASSUME NEW c \in calls, NEW n \in Seqs, Accept(c, n) \/ StoreRejection(c, n)
        PROVE  SeesNext(x)
    BY <2>1, <2>4, StoredRow
  <2>5. ASSUME NEW d \in Devices, NEW k \in 0..MaxOps, LoseTail(d, k)
        PROVE  SeesNext(x)
    BY <1>2, <2>1, <2>5, LoseTailCounts
  <2> QED
    BY <2>2, <2>3, <2>4, <2>5, RowsFrom
<1>3. CASE \A x \in calls' : x.step = "tx" => x \in calls
  BY <1>2, <1>3 DEF SeesRevoke
<1>4. ASSUME NEW c \in calls, GiveUp(c)
      PROVE  SeesRevoke'
  <2>1. received' = received /\ revoked' = revoked /\ rowsAtRevoke' = rowsAtRevoke
    BY <1>4 DEF GiveUp, serverVars
  <2>2. calls' \subseteq (calls \ {c}) \cup {Unawaited(c)}
    BY <1>4, ReplaceIs DEF GiveUp
  <2>3. Unawaited(c).dev = c.dev /\ Unawaited(c).step = c.step
        /\ Unawaited(c).sawRevoked = c.sawRevoked
    BY <1>1 DEF Unawaited, Call
  <2> QED BY <2>1, <2>2, <2>3 DEF SeesRevoke
<1>5. ASSUME NEW c \in calls, NEW n \in Seqs, Begin(c, n)
      PROVE  SeesRevoke'
  <2>1. received' = received /\ revoked' = revoked /\ rowsAtRevoke' = rowsAtRevoke
    BY <1>5 DEF Begin, serverVars
  <2>2. calls' \subseteq (calls \ {c}) \cup {Begun(c, n)}
    BY <1>5, ReplaceIs DEF Begin
  <2>3. Begun(c, n).dev = c.dev /\ Begun(c, n).sawRevoked = revoked[c.dev]
    BY <1>1 DEF Begun, RevokedNow, Call
  <2> QED BY <2>1, <2>2, <2>3 DEF SeesRevoke
<1> QED
  BY <1>3, <1>4, <1>5, TxComesFrom

\* What is flagged is what was accepted since the revoke.
LEMMA FlagStep ==
  ASSUME FlagInv, [Next]_vars
  PROVE  FlaggedSinceRevoke'
<1> USE DEF FlagInv
<1> DEFINE Flagged(row, i, since, gone) ==
             row.status = "accepted" =>
               /\ row.flagged => gone /\ i > since
               /\ gone /\ i > since + 1 => row.flagged
<1>1. ASSUME NEW d \in Devices, NEW i \in 1..Len(received[d])
      PROVE  Flagged(received[d][i], i, rowsAtRevoke[d], revoked[d])
  <2>1. i \in DOMAIN received[d]
    BY RevokeTypes
  <2> QED BY <2>1 DEF FlaggedSinceRevoke
<1>2. \A d \in Devices : DOMAIN received'[d] = 1..Len(received'[d])
  <2>1. TypeOK'
    BY TypeStep
  <2> QED BY <2>1 DEF TypeOK
<1> SUFFICES ASSUME NEW d \in Devices, NEW i \in 1..Len(received'[d])
             PROVE  Flagged(received'[d][i], i, rowsAtRevoke'[d], revoked'[d])
  BY <1>2 DEF FlaggedSinceRevoke
<1>3. CASE received' = received /\ revoked' = revoked /\ rowsAtRevoke' = rowsAtRevoke
  BY <1>1, <1>3
<1>4. ASSUME NEW e \in Devices, Revoke(e)
      PROVE  Flagged(received'[d][i], i, rowsAtRevoke'[d], revoked'[d])
  <2>1. received' = received /\ ~revoked[e]
    BY <1>4 DEF Revoke
  <2>2. CASE d = e
    <3>1. rowsAtRevoke'[d] = Len(received[d]) /\ revoked'[d] = TRUE
      BY <1>4, <2>2 DEF Revoke, IInv, TypeOK
    <3>2. received[d][i].status = "accepted" => ~received[d][i].flagged
      BY <1>1, <2>1, <2>2
    <3> QED BY <2>1, <3>1, <3>2, RevokeTypes
  <2>3. CASE d # e
    <3>1. rowsAtRevoke'[d] = rowsAtRevoke[d] /\ revoked'[d] = revoked[d]
      BY <1>4, <2>3 DEF Revoke, IInv, TypeOK
    <3> QED BY <1>1, <2>1, <3>1
  <2> QED BY <2>2, <2>3
<1>5. ASSUME NEW c \in calls, NEW n \in Seqs, Accept(c, n) \/ StoreRejection(c, n)
      PROVE  Flagged(received'[d][i], i, rowsAtRevoke'[d], revoked'[d])
  <2>1. rowsAtRevoke'[d] = rowsAtRevoke[d] /\ revoked'[d] = revoked[d]
    BY <1>5, StoredRow
  <2>2. CASE d # c.dev
    BY <1>1, <1>5, <2>1, <2>2, StoredRow
  <2>3. CASE d = c.dev /\ i # n
    <3>1. i \in 1..Len(received[d]) /\ received'[d][i] = received[d][i]
      BY <1>5, <2>3, StoredRow
    <3> QED BY <1>1, <2>1, <3>1
  <2>4. CASE d = c.dev /\ i = n
    <3>1. /\ c.step = "tx" /\ n = Len(received[d]) + 1
          /\ received'[d][i].status = "accepted" => received'[d][i].flagged = c.sawRevoked
      BY <1>5, <2>4, StoredRow
    <3>2. /\ c.sawRevoked => revoked[d]
          /\ revoked[d] /\ ~c.sawRevoked => rowsAtRevoke[d] = Len(received[d])
      BY <2>4, <3>1 DEF SeesRevoke
    <3>3. rowsAtRevoke[d] <= Len(received[d]) /\ rowsAtRevoke[d] \in Nat /\ Len(received[d]) \in Nat
      BY RevokeTypes DEF RevokeCounted
    <3> QED BY <2>1, <2>4, <3>1, <3>2, <3>3
  <2> QED BY <2>2, <2>3, <2>4
<1>6. ASSUME NEW e \in Devices, NEW k \in 0..MaxOps, LoseTail(e, k)
      PROVE  Flagged(received'[d][i], i, rowsAtRevoke'[d], revoked'[d])
  <2>1. revoked'[d] = revoked[d]
    BY <1>6, LoseTailCounts
  <2>2. CASE d # e
    BY <1>1, <1>6, <2>1, <2>2, LoseTailIs, LoseTailCounts
  <2>3. CASE d = e
    <3>1. /\ i \in 1..k /\ i \in 1..Len(received[d]) /\ received'[d][i] = received[d][i]
          /\ rowsAtRevoke'[d] = IF rowsAtRevoke[d] < k THEN rowsAtRevoke[d] ELSE k
      BY <1>6, <2>3, LoseTailIs, LoseTailCounts, RevokeTypes
    <3>2. Flagged(received[d][i], i, rowsAtRevoke[d], revoked[d])
      BY <1>1, <3>1
    <3>3. rowsAtRevoke[d] \in Nat /\ k \in Nat
      BY RevokeTypes
    <3> QED BY <2>1, <3>1, <3>2, <3>3
  <2> QED BY <2>2, <2>3
<1> QED
  BY <1>3, <1>4, <1>5, <1>6, RowsFrom

\* The flags of the operations of a revoked device are true throughout (push.ts, flag
\* deviceRevoked; devices.ts, revokeDevice).
THEOREM FlagsTellTheRevoke == Spec => []FlaggedSinceRevoke
<1>1. Init => RevokeCounted /\ SeesRevoke /\ FlaggedSinceRevoke
  BY DEF Init, RevokeCounted, SeesRevoke, FlaggedSinceRevoke
<1>2. FlagInv /\ IInv' /\ [Next]_vars => FlagInv'
  BY CountedStep, SeesStep, FlagStep DEF FlagInv
<1>3. Init => FlagInv
  BY <1>1, InitInv DEF FlagInv
<1>4. FlagInv => FlaggedSinceRevoke
  BY DEF FlagInv
<1> QED
  BY <1>2, <1>3, <1>4, Invariance, PTL DEF Spec

-----------------------------------------------------------------------------
(* The promise. *)

\* Nobody speaks of an operation the device has not made.
Made ==
  /\ \A d \in Devices, n \in Seqs : outbox[d][n] # "none" => n <= sold[d]
  /\ \A c \in calls :
       /\ \A n \in c.todo : n <= sold[c.dev]
       /\ \A n \in Seqs : c.answers[n] # "none" => n <= sold[c.dev]
  /\ \A d \in Devices : Len(received[d]) <= sold[d]

NothingLost == \A d \in Devices : lost[d] = {}

PromiseInv == IInv /\ Made /\ NothingLost

\* What a device has sold is a number, and grows.
LEMMA SoldGrows ==
  ASSUME IInv, [Next]_vars, NEW d \in Devices
  PROVE  sold[d] \in Nat /\ sold'[d] \in Nat /\ sold[d] <= sold'[d]
<1>1. sold[d] \in Nat /\ sold'[d] \in Nat
  BY TypeStep DEF IInv, TypeOK
<1>2. CASE UNCHANGED deviceVars
  BY <1>1, <1>2 DEF deviceVars
<1>3. ASSUME NEW e \in Devices, Sell(e) \/ Wipe(e)
      PROVE  sold[d] <= sold'[d]
  BY <1>1, <1>3 DEF Sell, Wipe, IInv, TypeOK
<1>4. ASSUME NEW c \in calls, RecordAnswer(c)
      PROVE  sold[d] <= sold'[d]
  BY <1>1, <1>4 DEF RecordAnswer
<1> QED
  BY <1>1, <1>2, <1>3, <1>4, DeviceStep

\* A call after a step was one before it, asked no more, answered one operation more, or is new.
LEMMA CallsFrom ==
  ASSUME IInv, [Next]_vars, NEW x \in calls'
  PROVE  \/ \E c \in calls : x.dev = c.dev /\ x.todo \subseteq c.todo /\ x.answers = c.answers
         \/ \E c \in calls : \E n \in c.todo, a \in Answer :
              x.dev = c.dev /\ x.todo \subseteq c.todo /\ x.answers = [c.answers EXCEPT ![n] = a]
         \/ \E d \in Devices, size \in 1..BatchLimit : x = NewCall(d, Batch(d, size))
<1> DEFINE Kept == \E c \in calls : x.dev = c.dev /\ x.todo \subseteq c.todo /\ x.answers = c.answers
           Told == \E c \in calls : \E n \in c.todo, a \in Answer :
                     x.dev = c.dev /\ x.todo \subseteq c.todo /\ x.answers = [c.answers EXCEPT ![n] = a]
           Fresh == \E d \in Devices, size \in 1..BatchLimit : x = NewCall(d, Batch(d, size))
<1>1. calls \subseteq Call
  BY DEF IInv, TypeOK
<1>2. ASSUME x \in calls
      PROVE  Kept
  BY <1>2
<1>3. ASSUME NEW d \in Devices, Sell(d) \/ HearRevoke(d) \/ Revoke(d) \/ ForgetRevoke(d)
      PROVE  Kept
  BY <1>2, <1>3 DEF Sell, HearRevoke, PullRefused, Wipe, WipeNotYet, Revoke, ForgetRevoke
<1>4. ASSUME NEW d \in Devices, Push(d)
      PROVE  Kept \/ Fresh
  <2>1. PICK size \in 1..BatchLimit : calls' = calls \cup {NewCall(d, Batch(d, size))}
    BY <1>4 DEF Push
  <2>2. x \in calls \/ x = NewCall(d, Batch(d, size))
    BY <2>1
  <2> HIDE DEF Kept
  <2> QED BY <1>2, <2>2
<1>5. ASSUME NEW d \in Devices, NEW k \in 0..MaxOps, LoseTail(d, k)
      PROVE  Kept
  BY <1>2, <1>5 DEF LoseTail
<1>6. ASSUME NEW c \in calls, RecordAnswer(c) \/ Lose(c)
      PROVE  Kept
  BY <1>2, <1>6 DEF RecordAnswer, Lose
<1>7. ASSUME NEW c \in calls, GiveUp(c) \/ Duplicate(c)
      PROVE  Kept
  <2>1. x \in calls \/ x = Unawaited(c)
    BY <1>7, ReplaceIs DEF GiveUp, Duplicate
  <2>2. Unawaited(c).dev = c.dev /\ Unawaited(c).todo = c.todo /\ Unawaited(c).answers = c.answers
    BY <1>1, UnawaitedIs
  <2> QED BY <1>2, <2>1, <2>2
<1>8. ASSUME NEW c \in calls, NEW by, calls' = Replace(c, by),
             by.dev = c.dev, by.todo \subseteq c.todo, by.answers = c.answers
      PROVE  Kept
  <2>1. x \in calls \/ x = by
    BY <1>8, ReplaceIs
  <2> QED BY <1>2, <1>8, <2>1
<1>9. ASSUME NEW c \in calls, NEW n \in Seqs, Begin(c, n)
      PROVE  Kept
  <2>1. /\ Begun(c, n).dev = c.dev /\ Begun(c, n).todo = c.todo
        /\ Begun(c, n).answers = c.answers
    BY <1>1, BegunIs DEF IInv
  <2> QED BY <1>8, <1>9, <2>1 DEF Begin
<1>10. ASSUME NEW c \in calls, NEW n \in Seqs, AnswerGap(c, n) \/ Reject(c, n)
       PROVE  Kept
  <2>1. /\ Stopped(c).dev = c.dev /\ Stopped(c).todo \subseteq c.todo
        /\ Stopped(c).answers = c.answers
    BY <1>1, StoppedIs
  <2>2. /\ RolledBack(c).dev = c.dev /\ RolledBack(c).todo = c.todo
        /\ RolledBack(c).answers = c.answers
    BY <1>1, RolledBackIs
  <2> QED BY <1>8, <1>10, <2>1, <2>2 DEF AnswerGap, Reject
<1>11. ASSUME NEW c \in calls, NEW n \in Seqs,
              AnswerKnown(c, n) \/ Accept(c, n) \/ StoreRejection(c, n)
       PROVE  Kept \/ Told
  <2>1. RepeatedAnswer(c) \in Answer /\ "accepted" \in Answer /\ "rejected" \in Answer
    BY RepeatedAnswerIs DEF Answer
  <2>2. PICK a \in Answer : calls' = Replace(c, Answered(c, n, a))
    BY <1>11, <2>1 DEF AnswerKnown, Accept, StoreRejection
  <2>3. x \in calls \/ x = Answered(c, n, a)
    BY <2>2, ReplaceIs
  <2>4. n \in c.todo
    BY <1>11 DEF AnswerKnown, Accept, StoreRejection, New, InTx, Oldest
  <2>5. /\ Answered(c, n, a).dev = c.dev /\ Answered(c, n, a).todo \subseteq c.todo
        /\ Answered(c, n, a).answers = [c.answers EXCEPT ![n] = a]
    BY <1>1, AnsweredIs
  <2>6. CASE x = Answered(c, n, a)
    BY <2>4, <2>5, <2>6
  <2> HIDE DEF Kept
  <2> QED BY <1>2, <2>3, <2>6
<1>12. ASSUME Heal \/ UNCHANGED vars
       PROVE  Kept
  BY <1>2, <1>12 DEF Heal, vars
<1> HIDE DEF Kept, Told, Fresh
<1>13. Kept \/ Told \/ Fresh
  BY <1>3, <1>4, <1>5, <1>6, <1>7, <1>9, <1>10, <1>11, <1>12 DEF Next, ServerStep, Fault
<1> QED
  BY <1>13 DEF Kept, Told, Fresh

\* An operation that is spoken of is made before its number is taken by anybody.
LEMMA MadeStep ==
  ASSUME IInv, Made, [Next]_vars
  PROVE  Made'
<1> USE DEF IInv
<1> DEFINE InOutbox == \A d \in Devices, n \in Seqs : outbox'[d][n] # "none" => n <= sold'[d]
<1>1. \A d \in Devices, n \in Seqs : n <= sold[d] => n <= sold'[d]
  BY SoldGrows DEF Seqs
<1>2. calls \subseteq Call
  BY DEF TypeOK
<1>3. InOutbox
  <2>1. CASE UNCHANGED deviceVars
    BY <1>1, <2>1 DEF deviceVars, Made
  <2>2. ASSUME NEW e \in Devices, Sell(e)
        PROVE  InOutbox
    <3>1. deviceSeq[e] = sold[e] /\ sold[e] \in Nat /\ sold[e] + 1 \in Seqs
      BY <2>2 DEF Sell, OutboxComplete, TypeOK, Seqs
    <3>2. sold'[e] = sold[e] + 1
      BY <2>2 DEF Sell, TypeOK
    <3>3. \A d \in Devices, n \in Seqs :
            outbox'[d][n] = IF d = e /\ n = sold[e] + 1 THEN "pending" ELSE outbox[d][n]
      BY <2>2, <3>1 DEF Sell, TypeOK
    <3> QED BY <1>1, <3>1, <3>2, <3>3 DEF Made
  <2>3. ASSUME NEW e \in Devices, Wipe(e)
        PROVE  InOutbox
    <3>1. \A d \in Devices, n \in Seqs : outbox'[d][n] \in {outbox[d][n], "none"}
      BY <2>3 DEF Wipe, TypeOK
    <3> QED BY <1>1, <3>1 DEF Made
  <2>4. ASSUME NEW c \in calls, RecordAnswer(c)
        PROVE  InOutbox
    <3>1. c.dev \in Devices
      BY <1>2 DEF Call
    <3>2. \A d \in Devices, n \in Seqs :
            outbox'[d][n] = IF d = c.dev THEN AfterAnswer(d, c, n) ELSE outbox[d][n]
      BY <2>4 DEF RecordAnswer, TypeOK
    <3>3. \A n \in Seqs : outbox[c.dev][n] = "none" /\ c.answers[n] = "none" =>
                            AfterAnswer(c.dev, c, n) = "none"
      BY DEF AfterAnswer
    <3>4. \A n \in Seqs : AfterAnswer(c.dev, c, n) # "none" => n <= sold[c.dev]
      BY <3>1, <3>3 DEF Made
    <3> QED BY <1>1, <3>1, <3>2, <3>4 DEF Made
  <2> QED BY <2>1, <2>2, <2>3, <2>4, DeviceStep
<1>4. ASSUME NEW x \in calls'
      PROVE  /\ \A n \in x.todo : n <= sold'[x.dev]
             /\ \A n \in Seqs : x.answers[n] # "none" => n <= sold'[x.dev]
  <2> DEFINE Goal == /\ \A n \in x.todo : n <= sold'[x.dev]
                     /\ \A n \in Seqs : x.answers[n] # "none" => n <= sold'[x.dev]
  <2>1. ASSUME NEW c \in calls, x.dev = c.dev, x.todo \subseteq c.todo, x.answers = c.answers
        PROVE  Goal
    <3>1. c.dev \in Devices /\ c.todo \subseteq Seqs
      BY <1>2 DEF Call
    <3> QED BY <1>1, <2>1, <3>1 DEF Made
  <2>2. ASSUME NEW c \in calls, NEW n \in c.todo, NEW a \in Answer,
               x.dev = c.dev, x.todo \subseteq c.todo, x.answers = [c.answers EXCEPT ![n] = a]
        PROVE  Goal
    <3>1. /\ c.dev \in Devices /\ c.todo \subseteq Seqs
          /\ c.answers \in [Seqs -> Answer \cup {"none"}]
      BY <1>2 DEF Call
    <3>2. \A m \in Seqs : x.answers[m] = IF m = n THEN a ELSE c.answers[m]
      BY <2>2, <3>1
    <3> QED BY <1>1, <2>2, <3>1, <3>2 DEF Made
  <2>3. ASSUME NEW d \in Devices, NEW size \in 1..BatchLimit, x = NewCall(d, Batch(d, size))
        PROVE  Goal
    <3>1. Batch(d, size) \in SUBSET Seqs /\ \A n \in Batch(d, size) : outbox[d][n] # "none"
      BY DEF Batch, Pending
    <3>2. x.dev = d /\ x.todo = Batch(d, size) /\ \A n \in Seqs : x.answers[n] = "none"
      BY <2>3, <3>1, NewCallIs
    <3> QED BY <1>1, <3>1, <3>2 DEF Made
  <2> QED BY <2>1, <2>2, <2>3, CallsFrom
<1>5. ASSUME NEW d \in Devices
      PROVE  Len(received'[d]) <= sold'[d]
  <2>1. /\ Len(received[d]) <= sold[d] /\ Len(received[d]) \in Nat
        /\ sold[d] \in Nat /\ sold'[d] \in Nat /\ sold[d] <= sold'[d]
    BY SoldGrows, NumbersAre DEF Made
  <2>2. CASE received' = received
    BY <2>1, <2>2
  <2>3. ASSUME NEW c \in calls, NEW n \in Seqs, NEW status \in Outcome, NEW flagged \in BOOLEAN,
               New(c, n), Store(c, n, status, flagged)
        PROVE  Len(received'[d]) <= sold'[d]
    <3>1. CASE d = c.dev
      <4>1. n \in c.todo
        BY <2>3 DEF New, InTx, Oldest
      <4>2. n <= sold[d] /\ n \in Nat
        BY <3>1, <4>1 DEF Made, Seqs
      <4>3. Len(received'[d]) = n
        BY <2>3, <3>1, StoreIs
      <4> QED BY <2>1, <4>2, <4>3
    <3>2. CASE d # c.dev
      <4>1. received'[d] = received[d]
        BY <2>3, <3>2, StoreIs
      <4> QED BY <2>1, <4>1
    <3> QED BY <3>1, <3>2
  <2>4. ASSUME NEW e \in Devices, NEW k \in 0..MaxOps, LoseTail(e, k)
        PROVE  Len(received'[d]) <= sold'[d]
    <3>1. CASE d = e
      BY <2>1, <2>4, <3>1, LoseTailIs
    <3>2. CASE d # e
      BY <2>1, <2>4, <3>2, LoseTailIs
    <3> QED BY <3>1, <3>2
  <2> QED BY <2>2, <2>3, <2>4, RowsStep
<1> QED
  BY <1>3, <1>4, <1>5 DEF Made

\* A server that loses nothing loses nothing.
LEMMA LossStep ==
  ASSUME IInv, NothingLost, ~ServerLoses, [Next]_vars
  PROVE  NothingLost'
<1>1. ASSUME NEW d \in Devices, NEW k \in 0..MaxOps, LoseTail(d, k)
      PROVE  FALSE
  BY <1>1 DEF LoseTail
<1> QED
  BY <1>1, RowsStep DEF NothingLost

\* The rows of each device as the promise has them: how its operations ended.
Book == [d \in Devices |-> [i \in DOMAIN received[d] |-> received[d][i].status]]

\* The book of a device is a sequence of outcomes.
LEMMA BookIs ==
  ASSUME TypeOK, NEW d \in Devices
  PROVE  /\ Book[d] \in Seq(Outcome) /\ Len(Book[d]) = Len(received[d])
         /\ Len(received[d]) \in Nat
         /\ \A i \in 1..Len(received[d]) : Book[d][i] = received[d][i].status
<1>1. received[d] \in Seq(Row) /\ DOMAIN received[d] = 1..Len(received[d]) /\ Len(received[d]) \in Nat
  BY DEF TypeOK
<1>2. Book[d] = [i \in 1..Len(received[d]) |-> received[d][i].status]
  BY <1>1 DEF Book
<1>3. \A i \in 1..Len(received[d]) : received[d][i].status \in Outcome
  <2>1. \A i \in 1..Len(received[d]) : received[d][i] \in Row
    BY <1>1, ElementOfSeq
  <2> QED BY <2>1 DEF Row
<1> QED BY <1>1, <1>2, <1>3

\* Storing a row appends its outcome to the book.
LEMMA BookGrows ==
  ASSUME IInv, [Next]_vars, NEW c \in calls, NEW n \in Seqs, NEW status \in Outcome,
         NEW flagged \in BOOLEAN, New(c, n), Store(c, n, status, flagged)
  PROVE  c.dev \in Devices /\ Book' = [Book EXCEPT ![c.dev] = Append(Book[c.dev], status)]
<1> DEFINE d == c.dev
           A == Append(Book[d], status)
           k == Len(received[d])
<1>1. /\ d \in Devices /\ n = k + 1 /\ Len(received'[d]) = n
      /\ received'[d][n] = [seq |-> n, status |-> status, flagged |-> flagged]
      /\ \A i \in 1..k : received'[d][i] = received[d][i]
      /\ \A e \in Devices \ {d} : received'[e] = received[e]
  BY StoreIs
<1>2. /\ Book[d] \in Seq(Outcome) /\ Len(Book[d]) = k /\ k \in Nat
      /\ \A i \in 1..k : Book[d][i] = received[d][i].status
  BY <1>1, BookIs DEF IInv
<1>3. /\ Book'[d] \in Seq(Outcome) /\ Len(Book'[d]) = n
      /\ \A i \in 1..n : Book'[d][i] = received'[d][i].status
  <2>1. TypeOK'
    BY TypeStep
  <2>2. received'[d] \in Seq(Row)
    BY <1>1, <2>1 DEF TypeOK
  <2>3. DOMAIN received'[d] = 1..n
    BY <1>1, <2>2
  <2>4. Book'[d] = [i \in 1..n |-> received'[d][i].status]
    BY <1>1, <2>3 DEF Book
  <2>5. \A i \in 1..n : received'[d][i].status \in Outcome
    <3>1. \A i \in 1..n : received'[d][i] \in Row
      BY <1>1, <2>2, ElementOfSeq
    <3> QED BY <3>1 DEF Row
  <2>6. n \in Nat
    BY DEF Seqs
  <2> QED BY <2>4, <2>5, <2>6
<1>4. /\ A \in Seq(Outcome) /\ Len(A) = k + 1
      /\ \A i \in 1..k : A[i] = Book[d][i]
      /\ A[k + 1] = status
  BY <1>2, AppendProperties
<1> HIDE DEF A
<1>5. \A i \in 1..n : Book'[d][i] = A[i]
  <2> TAKE i \in 1..n
  <2>1. i \in 1..k \/ i = n
    BY <1>1, <1>2
  <2>2. CASE i \in 1..k
    BY <1>1, <1>2, <1>3, <1>4, <2>2
  <2>3. CASE i = n
    <3>1. received'[d][n].status = status
      BY <1>1
    <3> QED BY <1>1, <1>3, <1>4, <2>3, <3>1
  <2> QED BY <2>1, <2>2, <2>3
<1>6. Book'[d] = A
  BY <1>1, <1>3, <1>4, <1>5, SeqEqual
<1>7. \A e \in Devices \ {d} : Book'[e] = Book[e]
  BY <1>1 DEF Book
<1> QED
  BY <1>1, <1>6, <1>7 DEF A, Book

\* While the server loses nothing, push implements the book of ExactlyOnce: a sale makes an
\* operation, storing a row enters it, a wipe leaves with all of them entered; the network, the
\* locks, the retries and the outbox do nothing the book sees (processOperation, recordResults,
\* wipeWhenAnswered).
THEOREM PushKeepsPromise == ~ServerLoses => (Spec => Promise!Spec)
<1> SUFFICES ASSUME ~ServerLoses PROVE Spec => Promise!Spec
  OBVIOUS
<1>1. Init => Promise!Init
  <2> SUFFICES ASSUME Init PROVE Promise!Init
    OBVIOUS
  <2>1. Book = [d \in Devices |-> <<>>]
    BY DEF Init, Book
  <2> QED BY <2>1 DEF Init, Promise!Init, Book
<1>2. Init => PromiseInv
  <2>1. Init => Made /\ NothingLost
    BY DEF Init, Made, NothingLost
  <2> QED BY <2>1, InitInv DEF PromiseInv
<1>3. PromiseInv /\ IInv' /\ [Next]_vars => PromiseInv'
  BY MadeStep, LossStep DEF PromiseInv
<1>4. ASSUME PromiseInv, [Next]_vars, UNCHANGED deviceVars
      PROVE  [Promise!Next]_(Promise!bookVars)
  <2>1. CASE received' = received
    BY <1>4, <2>1 DEF deviceVars, Promise!bookVars
  <2>2. ASSUME NEW c \in calls, NEW n \in Seqs, NEW status \in Outcome, NEW flagged \in BOOLEAN,
               New(c, n), Store(c, n, status, flagged)
        PROVE  Promise!Enter(c.dev) /\ c.dev \in Devices
    <3>1. c.dev \in Devices /\ Book' = [Book EXCEPT ![c.dev] = Append(Book[c.dev], status)]
      BY <1>4, <2>2, BookGrows DEF PromiseInv
    <3>2. n = Len(received[c.dev]) + 1 /\ Len(received[c.dev]) \in Nat
      BY <1>4, <2>2, <3>1, StoreIs, NumbersAre DEF PromiseInv, IInv
    <3>3. n <= sold[c.dev]
      BY <1>4, <2>2 DEF PromiseInv, Made, New, InTx, Oldest
    <3>4. sold[c.dev] \in Nat
      BY <1>4, <3>1, SoldGrows DEF PromiseInv
    <3>5. Len(Book[c.dev]) < sold[c.dev]
      <4>1. Len(Book[c.dev]) = Len(received[c.dev])
        BY <1>4, <3>1, BookIs DEF PromiseInv, IInv
      <4> QED BY <3>2, <3>3, <3>4, <4>1
    <3>6. sold' = sold /\ phase' = phase
      BY <1>4 DEF deviceVars
    <3>7. status \in {"accepted", "rejected"}
      BY DEF Outcome
    <3> QED BY <3>1, <3>5, <3>6, <3>7 DEF Promise!Enter, Book
  <2>3. ASSUME NEW d \in Devices, NEW k \in 0..MaxOps, LoseTail(d, k)
        PROVE  FALSE
    BY <2>3 DEF LoseTail
  <2>4. (\E d \in Devices : Promise!Enter(d)) => Promise!Next
    BY DEF Promise!Next
  <2> QED BY <1>4, <2>1, <2>2, <2>3, <2>4, RowsStep DEF PromiseInv
<1>5. ASSUME PromiseInv, NEW d \in Devices, Sell(d)
      PROVE  Promise!Make(d)
  <2>1. phase[d] = "registered" /\ sold[d] < MaxOps
    BY <1>5 DEF Sell, PromiseInv, IInv, OutboxComplete
  <2>2. sold' = [sold EXCEPT ![d] = @ + 1] /\ received' = received /\ phase' = phase
    BY <1>5 DEF Sell, serverVars
  <2> QED BY <2>1, <2>2 DEF Promise!Make
<1>6. ASSUME PromiseInv, IInv', NEW d \in Devices, Wipe(d)
      PROVE  Promise!Leave(d)
  <2>1. /\ phase[d] = "registered" /\ phase' = [phase EXCEPT ![d] = "wiped"]
        /\ sold' = sold /\ received' = received /\ lost' = lost
    BY <1>6 DEF Wipe, serverVars
  <2>2. phase'[d] = "wiped" /\ lost[d] = {}
    BY <1>6, <2>1 DEF PromiseInv, IInv, TypeOK, NothingLost
  <2>3. /\ Len(received[d]) \in Nat /\ Numbers(d) = 1..Len(received[d])
        /\ sold[d] \in Nat /\ Len(received[d]) <= sold[d]
    BY <1>6, NumbersAre DEF PromiseInv, IInv, TypeOK, Made
  <2>4. \A n \in 1..sold[d] : n \in Numbers(d)
    <3>1. \A n \in 1..sold'[d] : n \in Numbers(d)' \cup lost'[d]
      BY <1>6, <2>2 DEF IInv, WipeLosesNothing
    <3>2. Numbers(d)' = Numbers(d)
      BY <2>1 DEF Numbers
    <3> QED BY <2>1, <2>2, <3>1, <3>2
  <2>5. Len(received[d]) = sold[d]
    BY <2>3, <2>4
  <2>6. Len(Book[d]) = sold[d]
    BY <1>6, <2>5, BookIs DEF PromiseInv, IInv
  <2>7. [e \in Devices |-> phase'[e] = "wiped"] =
          [[e \in Devices |-> phase[e] = "wiped"] EXCEPT ![d] = TRUE]
    BY <1>6, <2>1 DEF PromiseInv, IInv, TypeOK
  <2> QED BY <2>1, <2>6, <2>7 DEF Promise!Leave, Book
<1>7. ASSUME NEW c \in calls, RecordAnswer(c)
      PROVE  UNCHANGED Promise!bookVars
  BY <1>7 DEF RecordAnswer, serverVars, Promise!bookVars
<1>8. PromiseInv /\ IInv' /\ [Next]_vars => [Promise!Next]_(Promise!bookVars)
  BY <1>4, <1>5, <1>6, <1>7, DeviceStep DEF Promise!Next
<1> QED
  BY <1>1, <1>2, <1>3, <1>8, Invariance, PTL DEF Spec, Promise!Spec

-----------------------------------------------------------------------------
(* What is on its way. *)

\* Before an operation on its way comes nothing that is neither on its way with it nor recorded,
\* unless the server lost rows of the device.
PushesWhole ==
  \A c \in calls : lost[c.dev] = {} =>
    \A n \in c.todo : \A m \in 1..(n - 1) : m \in c.todo \/ m <= Len(received[c.dev])

\* Every operation a registered device ever committed is recorded, or lost by the server since, or
\* pending, so that it will be pushed.
NothingForgotten ==
  \A d \in Devices : phase[d] = "registered" =>
    \A n \in 1..sold[d] : n \in Numbers(d) \cup lost[d] \/ outbox[d][n] = "pending"

\* The server meets a gap in a device's numbers only if it lost rows of that device.
GapOfLoss == \A c \in calls, n \in Seqs : AnswerGap(c, n) => lost[c.dev] # {}

\* An operation whose row is not lost is recorded if it has an answer.
LEMMA AnsweredRecorded ==
  ASSUME IInv, NEW d \in Devices, phase[d] = "registered", NEW n \in Seqs, n \in 1..sold[d],
         n \notin lost[d], outbox[d][n] # "pending"
  PROVE  n <= Len(received[d])
<1>1. outbox[d][n] # "none" /\ outbox[d][n] \in OutboxState
  BY DEF IInv, OutboxComplete, TypeOK
<1>2. outbox[d][n] \in Answer
  BY <1>1 DEF OutboxState
<1>3. StoredOutcome(d, n) # "none"
  BY <1>2 DEF IInv, OutboxAgrees
<1> QED BY <1>3, StoredIs DEF IInv

\* Rows only get more while none are lost.
LEMMA RowsGrow ==
  ASSUME IInv, [Next]_vars, NEW d \in Devices, lost'[d] = {}
  PROVE  /\ lost[d] = {} /\ Len(received[d]) \in Nat /\ Len(received'[d]) \in Nat
         /\ Len(received[d]) <= Len(received'[d])
<1>1. Len(received[d]) \in Nat
  BY NumbersAre DEF IInv
<1>2. CASE received' = received /\ lost' = lost
  BY <1>1, <1>2
<1>3. ASSUME NEW c \in calls, NEW n \in Seqs, NEW status \in Outcome, NEW flagged \in BOOLEAN,
             New(c, n), Store(c, n, status, flagged), lost' = lost
      PROVE  Len(received'[d]) \in Nat /\ Len(received[d]) <= Len(received'[d]) /\ lost[d] = {}
  <2>1. New(c, n) /\ Store(c, n, status, flagged)
    BY <1>3
  <2>2. n = Len(received[c.dev]) + 1 /\ Len(received'[c.dev]) = n
    BY ONLY IInv, <2>1, c \in calls, n \in Seqs, status \in Outcome, flagged \in BOOLEAN, StoreIs
  <2>3. \A e \in Devices \ {c.dev} : received'[e] = received[e]
    BY ONLY IInv, <2>1, c \in calls, n \in Seqs, status \in Outcome, flagged \in BOOLEAN, StoreIs
  <2>4. CASE d = c.dev
    BY <1>1, <1>3, <2>2, <2>4
  <2>5. CASE d # c.dev
    BY <1>1, <1>3, <2>3, <2>5
  <2> QED BY <2>4, <2>5
<1>4. ASSUME NEW e \in Devices, NEW k \in 0..MaxOps, LoseTail(e, k)
      PROVE  received'[d] = received[d] /\ lost[d] = {}
  <2>1. d # e
    <3>1. ASSUME d = e PROVE FALSE
      <4>1. k \in Nat /\ k < Len(received[d]) /\ \A i \in (k + 1)..Len(received[d]) : i \in lost'[d]
        BY <1>4, <3>1, LoseTailIs
      <4>2. Len(received[d]) \in (k + 1)..Len(received[d])
        BY <1>1, <4>1
      <4> QED BY <4>1, <4>2
    <3> QED BY <3>1
  <2> QED BY <1>4, <2>1, LoseTailIs
<1> QED BY <1>1, <1>2, <1>3, <1>4, RowsStep

\* What a call still carries after a step: what it carried, without one that is recorded now; or
\* nothing; or a new batch.
LEMMA TodoFrom ==
  ASSUME IInv, [Next]_vars, NEW x \in calls'
  PROVE  \/ \E c \in calls : x.dev = c.dev /\ x.todo = c.todo
         \/ \E c \in calls, n \in Seqs :
              x.dev = c.dev /\ x.todo = c.todo \ {n} /\ n <= Len(received'[c.dev])
         \/ x.todo = {}
         \/ \E d \in Devices, size \in 1..BatchLimit :
              phase[d] = "registered" /\ x = NewCall(d, Batch(d, size))
<1> USE DEF IInv
<1> DEFINE Kept == \E c \in calls : x.dev = c.dev /\ x.todo = c.todo
           Done == \E c \in calls, n \in Seqs :
                     x.dev = c.dev /\ x.todo = c.todo \ {n} /\ n <= Len(received'[c.dev])
           Fresh == \E d \in Devices, size \in 1..BatchLimit :
                      phase[d] = "registered" /\ x = NewCall(d, Batch(d, size))
<1>1. calls \subseteq Call
  BY DEF TypeOK
<1>2. ASSUME x \in calls
      PROVE  Kept
  BY <1>2
<1>3. ASSUME NEW d \in Devices, Sell(d) \/ HearRevoke(d) \/ Revoke(d) \/ ForgetRevoke(d)
      PROVE  Kept
  BY <1>2, <1>3 DEF Sell, HearRevoke, PullRefused, Wipe, WipeNotYet, Revoke, ForgetRevoke
<1>4. ASSUME NEW d \in Devices, Push(d)
      PROVE  Kept \/ Fresh
  <2>1. PICK size \in 1..BatchLimit : calls' = calls \cup {NewCall(d, Batch(d, size))}
    BY <1>4 DEF Push
  <2>2. x \in calls \/ x = NewCall(d, Batch(d, size))
    BY <2>1
  <2>3. phase[d] = "registered"
    BY <1>4 DEF Push
  <2> HIDE DEF Kept
  <2> QED BY <1>2, <2>2, <2>3
<1>5. ASSUME NEW d \in Devices, NEW k \in 0..MaxOps, LoseTail(d, k)
      PROVE  Kept
  BY <1>2, <1>5 DEF LoseTail
<1>6. ASSUME NEW c \in calls, RecordAnswer(c) \/ Lose(c)
      PROVE  Kept
  BY <1>2, <1>6 DEF RecordAnswer, Lose
<1>7. ASSUME NEW c \in calls, GiveUp(c) \/ Duplicate(c)
      PROVE  Kept
  <2>1. x \in calls \/ x = Unawaited(c)
    BY <1>7, ReplaceIs DEF GiveUp, Duplicate
  <2>2. Unawaited(c).dev = c.dev /\ Unawaited(c).todo = c.todo
    BY <1>1, UnawaitedIs
  <2> QED BY <1>2, <2>1, <2>2
<1>8. ASSUME NEW c \in calls, NEW by, calls' = Replace(c, by), by.dev = c.dev, by.todo = c.todo
      PROVE  Kept
  <2>1. x \in calls \/ x = by
    BY <1>8, ReplaceIs
  <2> QED BY <1>2, <1>8, <2>1
<1>9. ASSUME NEW c \in calls, NEW n \in Seqs, Begin(c, n) \/ Reject(c, n)
      PROVE  Kept
  <2>1. Begun(c, n).dev = c.dev /\ Begun(c, n).todo = c.todo
    BY <1>1, BegunIs
  <2>2. RolledBack(c).dev = c.dev /\ RolledBack(c).todo = c.todo
    BY <1>1, RolledBackIs
  <2> QED BY <1>8, <1>9, <2>1, <2>2 DEF Begin, Reject
<1>10. ASSUME NEW c \in calls, NEW n \in Seqs, AnswerGap(c, n)
       PROVE  Kept \/ x.todo = {}
  <2>1. x \in calls \/ x = Stopped(c)
    BY <1>10, ReplaceIs DEF AnswerGap
  <2>2. Stopped(c).todo = {}
    BY <1>1 DEF Stopped, Call
  <2> QED BY <1>2, <2>1, <2>2
<1>11. ASSUME NEW c \in calls, NEW n \in Seqs, NEW a \in Answer,
              calls' = Replace(c, Answered(c, n, a)), n <= Len(received'[c.dev])
       PROVE  Kept \/ Done
  <2>1. x \in calls \/ x = Answered(c, n, a)
    BY <1>11, ReplaceIs
  <2>2. Answered(c, n, a).dev = c.dev
    BY <1>1, AnsweredIs
  <2>3. Answered(c, n, a).todo = c.todo \ {n}
    BY <1>1 DEF Answered, Call
  <2>4. CASE x = Answered(c, n, a)
    BY <1>11, <2>2, <2>3, <2>4
  <2> HIDE DEF Kept, Done
  <2> QED BY <1>2, <2>1, <2>4
<1>12. ASSUME NEW c \in calls, NEW n \in Seqs, AnswerKnown(c, n)
       PROVE  Kept \/ Done
  <2>1. /\ c.dev \in Devices /\ c.expected = Len(received[c.dev]) + 1
        /\ c.stored = StoredOutcome(c.dev, n) /\ received' = received
    BY <1>12, InTxIs DEF AnswerKnown, serverVars
  <2>2. Len(received[c.dev]) \in Nat /\ n \in Nat
    BY <2>1, NumbersAre DEF Seqs
  <2>3. n <= Len(received[c.dev])
    BY <1>12, <2>1, <2>2, StoredIs DEF AnswerKnown
  <2> QED BY <1>11, <1>12, <2>1, <2>3, RepeatedAnswerIs DEF AnswerKnown
<1>13. ASSUME NEW c \in calls, NEW n \in Seqs, Accept(c, n) \/ StoreRejection(c, n)
       PROVE  Kept \/ Done
  <2>1. c.sawRevoked \in BOOLEAN /\ n \in Nat
    BY <1>1 DEF Call, Seqs
  <2>2. PICK status \in Outcome, flagged \in BOOLEAN :
          New(c, n) /\ Store(c, n, status, flagged) /\ calls' = Replace(c, Answered(c, n, status))
    BY <1>13, <2>1 DEF Accept, StoreRejection, Outcome
  <2>3. Len(received'[c.dev]) = n
    BY <2>2, StoreIs
  <2>4. status \in Answer
    BY DEF Outcome, Answer
  <2> HIDE DEF Kept, Done
  <2> QED BY <1>11, <2>1, <2>2, <2>3, <2>4
<1>14. ASSUME Heal \/ UNCHANGED vars
       PROVE  Kept
  BY <1>2, <1>14 DEF Heal, vars
<1> HIDE DEF Kept, Done, Fresh
<1>15. Kept \/ Done \/ Fresh \/ x.todo = {}
  BY <1>3, <1>4, <1>5, <1>6, <1>7, <1>9, <1>10, <1>12, <1>13, <1>14 DEF Next, ServerStep, Fault
<1> QED BY <1>15 DEF Kept, Done, Fresh

\* A batch has every pending operation before its last.
LEMMA BatchIsFirst ==
  ASSUME NEW d \in Devices, NEW size \in 1..BatchLimit, NEW n \in Batch(d, size),
         NEW m \in Pending(d), m < n
  PROVE  m \in Batch(d, size)
<1> DEFINE A == {k \in Pending(d) : k < m}
           B == {k \in Pending(d) : k < n}
<1>1. Pending(d) \subseteq Seqs /\ MaxOps \in Nat /\ n \in Seqs /\ m \in Seqs
  BY SeqsNat DEF Pending, Batch
<1>2. IsFiniteSet(Seqs)
  BY <1>1, FS_Interval DEF Seqs
<1>3. B \subseteq Seqs /\ A \subseteq B
  <2>1. \A k \in Pending(d) : k \in Nat
    BY <1>1, SeqsNat DEF Seqs
  <2>2. m \in Nat /\ n \in Nat /\ m < n
    BY <1>1, SeqsNat DEF Seqs
  <2>3. \A k \in Nat : k < m => k < n
    BY <2>2
  <2>4. A \subseteq B
    BY <2>1, <2>3
  <2>5. B \subseteq Pending(d)
    OBVIOUS
  <2> QED BY <1>1, <2>4, <2>5
<1>4. IsFiniteSet(B)
  BY <1>2, <1>3, FS_Subset
<1>5. Cardinality(A) <= Cardinality(B) /\ Cardinality(A) \in Nat /\ Cardinality(B) \in Nat
  <2> HIDE DEF A, B
  <2>1. Cardinality(A) <= Cardinality(B) /\ IsFiniteSet(A)
    BY <1>3, <1>4, FS_Subset
  <2> QED BY <1>4, <2>1, FS_CardinalityType
<1>6. Cardinality(B) < size /\ size \in Nat
  BY DEF Batch
<1>7. Cardinality(A) < size
  <2> HIDE DEF A, B
  <2> QED BY <1>5, <1>6
<1> QED BY <1>7 DEF Batch

LEMMA WholeStep ==
  ASSUME IInv, Made, PushesWhole, [Next]_vars
  PROVE  PushesWhole'
<1> SUFFICES ASSUME NEW x \in calls', lost'[x.dev] = {}, NEW n \in x.todo, NEW m \in 1..(n - 1)
             PROVE  m \in x.todo \/ m <= Len(received'[x.dev])
  BY DEF PushesWhole
<1>1. x \in Call /\ x.dev \in Devices /\ n \in Seqs /\ n \in Nat /\ m \in Nat /\ m < n /\ m >= 1
  <2>1. x \in Call
    BY TypeStep DEF TypeOK
  <2>2. n \in Seqs /\ n \in Nat
    BY <2>1 DEF Call, Seqs
  <2> QED BY <2>1, <2>2 DEF Call
<1>2. /\ lost[x.dev] = {} /\ Len(received[x.dev]) \in Nat /\ Len(received'[x.dev]) \in Nat
      /\ Len(received[x.dev]) <= Len(received'[x.dev])
  BY <1>1, RowsGrow
<1>3. ASSUME NEW c \in calls, x.dev = c.dev, n \in c.todo
      PROVE  m \in c.todo \/ m <= Len(received'[x.dev])
  <2>1. m \in c.todo \/ m <= Len(received[x.dev])
    BY <1>2, <1>3 DEF PushesWhole
  <2> QED BY <1>1, <1>2, <2>1
<1>4. ASSUME NEW c \in calls, NEW k \in Seqs,
             x.dev = c.dev, x.todo = c.todo \ {k}, k <= Len(received'[c.dev])
      PROVE  m \in x.todo \/ m <= Len(received'[x.dev])
  <2>1. m \in c.todo \/ m <= Len(received'[x.dev])
    BY <1>3, <1>4
  <2> QED BY <1>4, <2>1
<1>5. ASSUME NEW d \in Devices, NEW size \in 1..BatchLimit,
             phase[d] = "registered", x = NewCall(d, Batch(d, size))
      PROVE  m \in x.todo \/ m <= Len(received'[x.dev])
  <2>1. Batch(d, size) \in SUBSET Seqs
    BY DEF Batch, Pending
  <2>2. x.dev = d /\ x.todo = Batch(d, size)
    BY <1>5, <2>1, NewCallIs
  <2>3. outbox[d][n] = "pending" /\ n <= sold[d] /\ sold[d] \in Nat
    BY <1>1, <2>2 DEF Batch, Pending, Made, IInv, TypeOK
  <2>4. m \in Seqs /\ m \in 1..sold[d]
    BY <1>1, <2>3 DEF Seqs
  <2>5. CASE outbox[d][m] = "pending"
    <3>1. m \in Pending(d)
      BY <2>4, <2>5 DEF Pending
    <3> QED BY <1>1, <2>2, <3>1, BatchIsFirst
  <2>6. CASE outbox[d][m] # "pending"
    <3>1. m <= Len(received[d])
      BY <1>2, <1>5, <2>2, <2>4, <2>6, AnsweredRecorded
    <3> QED BY <1>1, <1>2, <2>2, <3>1
  <2> QED BY <2>5, <2>6
<1> QED BY <1>3, <1>4, <1>5, TodoFrom

\* Nothing a device committed is forgotten: what the server does not have is pending, whatever
\* answers were lost, repeated or late (outbox.ts, engine.ts: recordResults).
THEOREM NothingIsForgotten == Spec => []NothingForgotten
<1>1. IInv => NothingForgotten
  <2> SUFFICES ASSUME IInv, NEW d \in Devices, phase[d] = "registered", NEW n \in 1..sold[d],
                      n \notin lost[d], outbox[d][n] # "pending"
               PROVE  n \in Numbers(d)
    BY DEF NothingForgotten
  <2>1. sold[d] \in 0..MaxOps /\ MaxOps \in Nat
    BY SeqsNat DEF IInv, TypeOK
  <2>2. n \in Seqs /\ n \in Nat /\ n >= 1
    BY <2>1 DEF Seqs
  <2>3. n <= Len(received[d])
    BY <2>2, AnsweredRecorded
  <2> QED BY <2>2, <2>3, NumbersAre DEF IInv
<1> QED BY <1>1, Invariance, PTL

\* The oldest pending operations go first, and a later push goes only when an earlier one is
\* answered or given up: so the server meets a gap in a device's numbers, and audits one, only
\* after it lost rows itself (push.ts: a gap is answered with the number to resend from;
\* engine.ts: push).
THEOREM GapsTellOfLoss == Spec => [][GapOfLoss]_vars
<1> DEFINE Inv == IInv /\ Made /\ PushesWhole
<1>1. Init => Inv
  <2>1. Init => Made /\ PushesWhole
    BY DEF Init, Made, PushesWhole
  <2> QED BY <2>1, InitInv
<1>2. Inv /\ IInv' /\ [Next]_vars => Inv'
  BY MadeStep, WholeStep
<1>3. Inv => GapOfLoss
  <2> SUFFICES ASSUME Inv, NEW c \in calls, NEW n \in Seqs, AnswerGap(c, n), lost[c.dev] = {}
               PROVE  FALSE
    BY DEF GapOfLoss
  <2>1. /\ c.dev \in Devices /\ c.expected = Len(received[c.dev]) + 1
        /\ n > c.expected /\ Oldest(n, c.todo)
    BY InTxIs DEF AnswerGap, InTx, IInv
  <2>2. Len(received[c.dev]) \in Nat /\ n \in Nat
    BY <2>1, NumbersAre DEF IInv, Seqs
  <2> DEFINE m == Len(received[c.dev]) + 1
  <2>3. m \in 1..(n - 1) /\ m < n /\ n \in c.todo
    BY <2>1, <2>2 DEF Oldest
  <2>4. m \in c.todo
    BY <2>2, <2>3 DEF PushesWhole
  <2>5. n <= m
    BY <2>1, <2>4 DEF Oldest
  <2> QED BY <2>2, <2>3, <2>5
<1> HIDE DEF Inv
<1> QED BY <1>1, <1>2, <1>3, Invariance, PTL DEF Spec

-----------------------------------------------------------------------------
(* Who wipes. *)

\* A call that saw a revoke, or brings word of one, is of a device that was revoked.
CallsTellTruly == \A c \in calls : c.sawRevoked \/ c.revoked => revoked[c.dev]

\* Only a revoked device is told that it is, or drops its tables.
OnlyTheRevokedWipe ==
  \A d \in Devices : toldRevoked[d] \/ phase[d] = "wiped" => revoked[d]

\* A revoke is for good.
LEMMA RevokedStays ==
  ASSUME IInv, [Next]_vars, NEW d \in Devices, revoked[d]
  PROVE  revoked'[d]
<1>1. ASSUME NEW e \in Devices, Revoke(e)
      PROVE  revoked'[d]
  BY <1>1 DEF Revoke, IInv, TypeOK
<1>2. ASSUME NEW c \in calls, NEW n \in Seqs, Accept(c, n) \/ StoreRejection(c, n)
      PROVE  revoked' = revoked
  BY <1>2 DEF Accept, StoreRejection
<1>3. ASSUME NEW e \in Devices, NEW k \in 0..MaxOps, LoseTail(e, k)
      PROVE  revoked' = revoked
  BY <1>3 DEF LoseTail
<1> QED BY <1>1, <1>2, <1>3, RowsFrom

\* An answered operation adds to what its call says of a revoke.
LEMMA AnsweredSays ==
  ASSUME NEW c \in Call, NEW n \in Seqs, NEW a \in Answer
  PROVE  /\ Answered(c, n, a).dev = c.dev /\ Answered(c, n, a).sawRevoked = FALSE
         /\ Answered(c, n, a).revoked = (c.revoked \/ c.sawRevoked)
<1>1. Answered(c, n, a).dev = c.dev
  BY AnsweredIs
<1>2. Answered(c, n, a).sawRevoked = FALSE
  BY DEF Answered, Call
<1>3. Answered(c, n, a).revoked = (c.revoked \/ c.sawRevoked)
  BY DEF Answered, Call
<1> QED BY <1>1, <1>2, <1>3

\* What a call says of a revoke comes from a transaction that read it, or was said before.
LEMMA CallsTellStep ==
  ASSUME IInv, CallsTellTruly, [Next]_vars
  PROVE  CallsTellTruly'
<1> SUFFICES ASSUME NEW x \in calls', x.sawRevoked \/ x.revoked
             PROVE  revoked'[x.dev]
  BY DEF CallsTellTruly
<1> DEFINE Says(c) == c \in calls /\ x.dev = c.dev /\ (c.sawRevoked \/ c.revoked)
           True == revoked[x.dev] \/ \E c \in calls : Says(c)
<1>1. calls \subseteq Call /\ x \in Call /\ x.dev \in Devices
  BY TypeStep DEF IInv, TypeOK, Call
<1>2. ASSUME x \in calls
      PROVE  True
  BY <1>2
<1>3. ASSUME NEW d \in Devices, Sell(d) \/ HearRevoke(d) \/ Revoke(d) \/ ForgetRevoke(d)
      PROVE  True
  BY <1>2, <1>3 DEF Sell, HearRevoke, PullRefused, Wipe, WipeNotYet, Revoke, ForgetRevoke
<1>4. ASSUME NEW d \in Devices, Push(d)
      PROVE  True
  <2>1. PICK size \in 1..BatchLimit : calls' = calls \cup {NewCall(d, Batch(d, size))}
    BY <1>4 DEF Push
  <2>2. ~NewCall(d, Batch(d, size)).sawRevoked /\ ~NewCall(d, Batch(d, size)).revoked
    BY DEF NewCall
  <2> HIDE DEF True
  <2> QED BY <1>2, <2>1, <2>2
<1>5. ASSUME NEW d \in Devices, NEW k \in 0..MaxOps, LoseTail(d, k)
      PROVE  True
  BY <1>2, <1>5 DEF LoseTail
<1>6. ASSUME NEW c \in calls, RecordAnswer(c) \/ Lose(c)
      PROVE  True
  BY <1>2, <1>6 DEF RecordAnswer, Lose
<1>7. ASSUME NEW c \in calls, GiveUp(c) \/ Duplicate(c)
      PROVE  True
  <2>1. x \in calls \/ x = Unawaited(c)
    BY <1>7, ReplaceIs DEF GiveUp, Duplicate
  <2>2. CASE x = Unawaited(c)
    <3>1. x.dev = c.dev /\ x.sawRevoked = c.sawRevoked /\ x.revoked = c.revoked
      BY <1>1, <2>2 DEF Unawaited, Call
    <3> QED BY <3>1
  <2> QED BY <1>2, <2>1, <2>2
<1>8. ASSUME NEW c \in calls, NEW n \in Seqs, Begin(c, n)
      PROVE  True
  <2>1. x \in calls \/ x = Begun(c, n)
    BY <1>8, ReplaceIs DEF Begin
  <2>2. CASE x = Begun(c, n)
    <3>1. x.dev = c.dev /\ x.sawRevoked = revoked[c.dev] /\ x.revoked = c.revoked
      BY <1>1, <2>2 DEF Begun, Call, RevokedNow
    <3> QED BY <3>1
  <2> QED BY <1>2, <2>1, <2>2
<1>9. ASSUME NEW c \in calls, NEW n \in Seqs, Reject(c, n)
      PROVE  True
  <2>1. x \in calls \/ x = RolledBack(c)
    BY <1>9, ReplaceIs DEF Reject
  <2>2. CASE x = RolledBack(c)
    <3>1. x.dev = c.dev /\ x.sawRevoked = FALSE /\ x.revoked = c.revoked
      BY <1>1, <2>2 DEF RolledBack, Call
    <3> QED BY <3>1
  <2> QED BY <1>2, <2>1, <2>2
<1>10. ASSUME NEW c \in calls, NEW n \in Seqs, AnswerGap(c, n)
       PROVE  True
  <2>1. x \in calls \/ x = Stopped(c)
    BY <1>10, ReplaceIs DEF AnswerGap
  <2>2. CASE x = Stopped(c)
    <3>1. x.dev = c.dev /\ x.sawRevoked = FALSE /\ x.revoked = (c.revoked \/ c.sawRevoked)
      BY <1>1, <2>2 DEF Stopped, Call
    <3> QED BY <3>1
  <2> QED BY <1>2, <2>1, <2>2
<1>11. ASSUME NEW c \in calls, NEW n \in Seqs, NEW a \in Answer, calls' = Replace(c, Answered(c, n, a))
       PROVE  True
  <2>1. x \in calls \/ x = Answered(c, n, a)
    BY <1>11, ReplaceIs
  <2>2. CASE x = Answered(c, n, a)
    <3>1. c \in Call
      BY <1>1
    <3>2. /\ Answered(c, n, a).dev = c.dev /\ Answered(c, n, a).sawRevoked = FALSE
          /\ Answered(c, n, a).revoked = (c.revoked \/ c.sawRevoked)
      BY ONLY <3>1, n \in Seqs, a \in Answer, AnsweredSays
    <3> QED BY <2>2, <3>2
  <2> QED BY <1>2, <2>1, <2>2
<1>12. ASSUME NEW c \in calls, NEW n \in Seqs,
              AnswerKnown(c, n) \/ Accept(c, n) \/ StoreRejection(c, n)
       PROVE  True
  <2>1. PICK a \in Answer : calls' = Replace(c, Answered(c, n, a))
    BY <1>12, RepeatedAnswerIs DEF AnswerKnown, Accept, StoreRejection, Answer
  <2> HIDE DEF True
  <2> QED BY <1>11, <2>1
<1>13. ASSUME Heal \/ UNCHANGED vars
       PROVE  True
  BY <1>2, <1>13 DEF Heal, vars
<1>14. True
  <2> HIDE DEF True
  <2> QED BY <1>3, <1>4, <1>5, <1>6, <1>7, <1>8, <1>9, <1>10, <1>12, <1>13
          DEF Next, ServerStep, Fault
<1>15. revoked[x.dev]
  BY <1>14 DEF CallsTellTruly
<1> QED BY <1>1, <1>15, RevokedStays

\* No device is told that it is revoked, and none wipes, but after its revoke committed: not by an
\* answer of a transaction that rolled back, a late copy, or a server that lost rows
\* (engine.ts, wipeWhenAnswered; push.ts, deviceRevoked).
THEOREM OnlyRevokedDevicesWipe == Spec => []OnlyTheRevokedWipe
<1> DEFINE Inv == IInv /\ CallsTellTruly /\ OnlyTheRevokedWipe
<1>1. Init => Inv
  <2>1. Init => CallsTellTruly /\ OnlyTheRevokedWipe
    BY DEF Init, CallsTellTruly, OnlyTheRevokedWipe
  <2> QED BY <2>1, InitInv
<1>2. Inv /\ IInv' /\ [Next]_vars => Inv'
  <2> SUFFICES ASSUME Inv, [Next]_vars, NEW d \in Devices, toldRevoked'[d] \/ phase'[d] = "wiped"
               PROVE  revoked'[d]
    BY CallsTellStep DEF OnlyTheRevokedWipe
  <2>1. CASE revoked[d]
    BY <2>1, RevokedStays
  <2>2. CASE ~revoked[d]
    <3>1. ~toldRevoked[d] /\ phase[d] # "wiped" /\ TypeOK
      BY <2>2 DEF OnlyTheRevokedWipe, IInv
    <3>2. ASSUME NEW e \in Devices,
                 Sell(e) \/ Push(e) \/ HearRevoke(e) \/ Revoke(e) \/ ForgetRevoke(e)
          PROVE  FALSE
      BY <2>2, <3>1, <3>2 DEF Sell, Push, HearRevoke, PullRefused, Wipe, WipeNotYet, Revoke,
         ForgetRevoke, deviceVars, OnlyTheRevokedWipe, TypeOK
    <3>3. ASSUME NEW c \in calls, RecordAnswer(c)
          PROVE  FALSE
      <4>1. c.revoked /\ d = c.dev
        BY <3>1, <3>3 DEF RecordAnswer, TypeOK
      <4> QED BY <2>2, <4>1 DEF CallsTellTruly
    <3>4. ASSUME NEW c \in calls, ServerStep(c) \/ Fault(c)
          PROVE  FALSE
      <4>1. phase' = phase /\ (toldRevoked' = toldRevoked \/ RoundEnds(c))
        BY <3>4 DEF ServerStep, Fault, Lose, GiveUp, Duplicate, Begin, AnswerKnown, AnswerGap,
           Accept, Reject, StoreRejection, deviceVars
      <4> QED BY <3>1, <4>1 DEF RoundEnds, TypeOK
    <3>5. ASSUME NEW e \in Devices, NEW k \in 0..MaxOps, LoseTail(e, k)
          PROVE  FALSE
      BY <3>1, <3>5 DEF LoseTail, deviceVars, TypeOK
    <3>6. ASSUME Heal \/ UNCHANGED vars
          PROVE  FALSE
      BY <3>1, <3>6 DEF Heal, vars, deviceVars
    <3> QED BY <3>2, <3>3, <3>4, <3>5, <3>6 DEF Next
  <2> QED BY <2>1, <2>2
<1> HIDE DEF Inv
<1>3. Inv => OnlyTheRevokedWipe
  BY DEF Inv
<1> QED BY <1>1, <1>2, <1>3, Invariance, PTL DEF Spec
=============================================================================
