------------------------ MODULE BundleVersionsProofs ------------------------
(***************************************************************************)
(* Safety of BundleVersions for every bundle, every number of requests at  *)
(* a time and any edits.                                                   *)
(***************************************************************************)
EXTENDS BundleVersions, TLAPS, SequenceTheorems

USE BundleVersionsAssumption

-----------------------------------------------------------------------------
(* The inductive invariant. *)

\* A build has read some of the parts, the first ones, each as it was at some time before now.
Reads ==
  /\ \A c \in Slots :
       /\ Len(calls[c].seen) <= Len(BundleParts)
       /\ calls[c].step \notin {"idle", "reading"} => Len(calls[c].seen) = Len(BundleParts)
       /\ \A i \in 1..Len(calls[c].seen) : calls[c].seen[i] <= edits[BundleParts[i]]
  /\ \A i \in 1..Len(held.seen) : held.seen[i] <= edits[BundleParts[i]]

\* The device awaits one build at most, and that one read everything after what is held was read.
Fresh ==
  /\ \A b, c \in Slots : calls[b].awaited /\ calls[c].awaited => b = c
  /\ \A c \in Slots : calls[c].awaited =>
       \A i \in 1..Len(calls[c].seen) :
         i \in 1..Len(held.seen) => held.seen[i] <= calls[c].seen[i]

\* The row of versions is written by one build at a time, the next version.
Counts ==
  /\ \A b, c \in Slots :
       calls[b].step \in {"wrote", "same"} /\ calls[c].step \in {"wrote", "same"} => b = c
  /\ \A c \in Slots : calls[c].step = "wrote" => calls[c].version = offered.version + 1

\* A version with its content, as it is in the row, signed, or about to be.
Pair(v, d) == [version |-> v, digest |-> d]

Named ==
  {Pair(a.version, a.digest) : a \in signed}
    \cup {Pair(o.version, o.digest) : o \in {x \in {offered} : x.version > 0}}
    \cup {Pair(calls[c].version, Digest(calls[c].seen)) :
            c \in {b \in Slots : calls[b].step \in {"ready", "same", "done"}}}

OneContent ==
  /\ \A x, y \in Named : x.version = y.version => x.digest = y.digest
  /\ \A x \in Named : x.version \in 1..offered.version

\* What the device may take, and what it holds, was signed.
TakesSigned ==
  /\ \A c \in Slots : calls[c].step = "done" /\ calls[c].version # calls[c].known =>
       \E a \in signed : a.version = calls[c].version /\ a.digest = Digest(calls[c].seen)
  /\ held.version > 0 => \E a \in signed : a.version = held.version /\ a.digest = Digest(held.seen)

IInv == TypeOK /\ Reads /\ Fresh /\ Counts /\ OneContent /\ TakesSigned

-----------------------------------------------------------------------------
(* Lemmas. *)

\* The text of a part is a number, and the digest of what was read one for each part.
LEMMA DigestIs ==
  ASSUME NEW seen \in Seq(Nat)
  PROVE  Digest(seen) \in Seq(Nat)
<1>1. \A i \in 1..Len(seen) : seen[i] \in Nat
  OBVIOUS
<1>2. \A p, n : n \in Nat => Text(p, n) \in Nat
  BY DEF Text
<1>3. Digest(seen) = [i \in 1..Len(seen) |-> Text(BundleParts[i], seen[i])]
  BY DEF Digest
<1> QED BY <1>1, <1>2, <1>3

\* Nothing is asked, offered, held or signed at first.
LEMMA InitInv == Init => IInv
<1> SUFFICES ASSUME Init PROVE IInv
  OBVIOUS
<1>1. \A c \in Slots :
        /\ calls[c] \in Call /\ calls[c].step = "idle" /\ calls[c].seen = <<>>
        /\ calls[c].awaited = FALSE
  BY DEF Init, NoCall, Call
<1>2. TypeOK
  <2>1. <<>> \in Seq(Nat) /\ Len(<<>>) = 0
    OBVIOUS
  <2>2. edits \in [Parts -> Nat] /\ calls \in [Slots -> Call]
    BY <1>1 DEF Init
  <2>3. offered \in [version : Nat, digest : Seq(Nat)]
    BY <2>1 DEF Init
  <2>4. held \in [version : Nat, seen : Seq(Nat)] /\ held.version = 0 /\ Len(held.seen) = 0
    BY <2>1 DEF Init
  <2>5. refusal \in Nat /\ healed \in BOOLEAN /\ signed = {}
    BY DEF Init
  <2> QED BY <2>2, <2>3, <2>4, <2>5 DEF TypeOK
<1>3. Named = {}
  BY <1>1 DEF Init, Named
<1> QED
  BY <1>1, <1>2, <1>3 DEF Init, IInv, Reads, Fresh, Counts, OneContent, TakesSigned

-----------------------------------------------------------------------------
(* What becomes of a call. *)

\* The calls but one stay as they are.
OthersSame(c) == \A b \in Slots : b # c => calls'[b] = calls[b]

\* A call is as it was but for its step.
Goes(c, step) ==
  /\ calls'[c] \in Call /\ calls'[c].step = step
  /\ calls'[c].known = calls[c].known /\ calls'[c].seen = calls[c].seen
  /\ calls'[c].awaited = calls[c].awaited

\* A request starts with nothing read.
LEMMA AskIs ==
  ASSUME TypeOK, NEW c \in Slots, Ask(c)
  PROVE  /\ OthersSame(c) /\ calls'[c] \in Call
         /\ calls'[c].step = "reading" /\ calls'[c].seen = <<>> /\ calls'[c].awaited = TRUE
<1>1. held.version \in Nat
  BY DEF TypeOK
<1>2. calls'[c] = [NoCall EXCEPT !.step = "reading", !.known = KnownVersion, !.awaited = TRUE]
  BY DEF Ask, TypeOK
<1> QED
  BY <1>1, <1>2 DEF Ask, OthersSame, TypeOK, NoCall, KnownVersion, Call

\* A part that is read is read as it is.
LEMMA ReadPartIs ==
  ASSUME TypeOK, NEW c \in Slots, ReadPart(c)
  PROVE  /\ OthersSame(c) /\ calls'[c] \in Call
         /\ calls'[c].step = "reading" /\ calls'[c].awaited = calls[c].awaited
         /\ Len(calls[c].seen) + 1 \in 1..Len(BundleParts)
         /\ Len(calls'[c].seen) = Len(calls[c].seen) + 1
         /\ \A i \in 1..Len(calls[c].seen) : calls'[c].seen[i] = calls[c].seen[i]
         /\ calls'[c].seen[Len(calls[c].seen) + 1] = edits[BundleParts[Len(calls[c].seen) + 1]]
<1> DEFINE n == Len(calls[c].seen)
           read == edits[BundleParts[n + 1]]
<1>1. calls[c] \in Call /\ calls[c].seen \in Seq(Nat) /\ n \in Nat
  BY DEF TypeOK, Call
<1>2. n + 1 \in 1..Len(BundleParts)
  BY <1>1 DEF ReadPart
<1>3. read \in Nat
  <2>1. BundleParts[n + 1] \in Parts
    BY <1>2, ElementOfSeq
  <2> QED BY <2>1 DEF TypeOK
<1>4. /\ calls'[c] = [calls[c] EXCEPT !.seen = Append(@, edits[BundleParts[Len(@) + 1]])]
      /\ OthersSame(c) /\ calls[c].step = "reading"
  BY DEF ReadPart, TypeOK, OthersSame
<1>5. calls'[c] = [calls[c] EXCEPT !.seen = Append(calls[c].seen, read)]
  BY <1>4
<1>6. /\ Append(calls[c].seen, read) \in Seq(Nat)
      /\ Len(Append(calls[c].seen, read)) = n + 1
      /\ \A i \in 1..n : Append(calls[c].seen, read)[i] = calls[c].seen[i]
      /\ Append(calls[c].seen, read)[n + 1] = read
  BY <1>1, <1>3, AppendProperties
<1> HIDE DEF read
<1>7. /\ calls'[c] \in Call /\ calls'[c].seen = Append(calls[c].seen, read)
      /\ calls'[c].step = "reading" /\ calls'[c].awaited = calls[c].awaited
  BY <1>1, <1>4, <1>5, <1>6 DEF Call
<1> QED
  BY <1>2, <1>4, <1>6, <1>7 DEF read

\* The license is read after the parts.
LEMMA ReadLicenseIs ==
  ASSUME TypeOK, NEW c \in Slots, ReadLicense(c)
  PROVE  /\ OthersSame(c) /\ Goes(c, "offering") /\ Len(calls[c].seen) = Len(BundleParts)
<1>1. edits[License] \in Nat /\ calls[c] \in Call
  BY DEF TypeOK
<1> QED
  BY <1>1 DEF ReadLicense, TypeOK, OthersSame, Goes, Call

\* A build of what the row has answers the row's version.
LEMMA ReadOfferedIs ==
  ASSUME TypeOK, NEW c \in Slots, ReadOffered(c)
  PROVE  /\ OthersSame(c) /\ calls[c].step = "offering"
         /\ \/ Goes(c, "ready") /\ SameDigest(c) /\ calls'[c].version = offered.version
            \/ Goes(c, "writing")
<1>1. offered.version \in Nat /\ calls[c] \in Call
  BY DEF TypeOK
<1>2. CASE SameDigest(c)
  <2>1. calls'[c] = [calls[c] EXCEPT !.step = "ready", !.version = offered.version]
    BY <1>2 DEF ReadOffered, TypeOK
  <2> QED BY <1>1, <1>2, <2>1 DEF ReadOffered, TypeOK, OthersSame, Goes, Call
<1>3. CASE ~SameDigest(c)
  <2>1. calls'[c] = [calls[c] EXCEPT !.step = "writing", !.version = 0]
    BY <1>3 DEF ReadOffered, TypeOK
  <2> QED BY <1>1, <2>1 DEF ReadOffered, TypeOK, OthersSame, Goes, Call
<1> QED BY <1>2, <1>3

\* The upsert counts the next version, or finds the row of the same digest.
LEMMA UpsertIs ==
  ASSUME TypeOK, NEW c \in Slots, Upsert(c)
  PROVE  /\ OthersSame(c) /\ calls[c].step = "writing"
         /\ \A b \in Slots : calls[b].step \notin {"wrote", "same"}
         /\ \/ Goes(c, "same") /\ SameDigest(c) /\ calls'[c].version = offered.version
            \/ Goes(c, "wrote") /\ calls'[c].version = offered.version + 1
<1>1. offered.version \in Nat /\ calls[c] \in Call
  BY DEF TypeOK
<1>2. CASE SameDigest(c)
  <2>1. calls'[c] = [calls[c] EXCEPT !.step = "same", !.version = offered.version]
    BY <1>2 DEF Upsert, TypeOK
  <2> QED BY <1>1, <1>2, <2>1 DEF Upsert, RowFree, TypeOK, OthersSame, Goes, Call
<1>3. CASE ~SameDigest(c)
  <2>1. calls'[c] = [calls[c] EXCEPT !.step = "wrote", !.version = offered.version + 1]
    BY <1>3 DEF Upsert, NextVersion, TypeOK
  <2>2. Goes(c, "wrote") /\ calls'[c].version = offered.version + 1
    <3> DEFINE next == offered.version + 1
    <3>1. next \in Nat
      BY <1>1
    <3>2. calls'[c] = [calls[c] EXCEPT !.step = "wrote", !.version = next]
      BY <2>1
    <3> HIDE DEF next
    <3>3. Goes(c, "wrote") /\ calls'[c].version = next
      BY <1>1, <3>1, <3>2 DEF Goes, Call
    <3> QED BY <3>3 DEF next
  <2>3. OthersSame(c) /\ calls[c].step = "writing"
    BY DEF Upsert, TypeOK, OthersSame
  <2> QED BY <2>2, <2>3 DEF Upsert, RowFree
<1> QED BY <1>2, <1>3

\* An answer ends the build; nobody takes it unless the device awaits it.
LEMMA AnswerIs ==
  ASSUME TypeOK, NEW c \in Slots, Answer(c)
  PROVE  /\ OthersSame(c) /\ calls[c].step \in {"ready", "same", "wrote"}
         /\ \/ Goes(c, "done") /\ calls'[c].version = calls[c].version
            \/ calls'[c] = NoCall
<1>1. calls[c] \in Call
  BY DEF TypeOK
<1> QED
  BY <1>1 DEF Answer, TypeOK, OthersSame, Goes, Call

\* A build that was given up goes on.
LEMMA GiveUpIs ==
  ASSUME TypeOK, NEW c \in Slots, GiveUp(c)
  PROVE  /\ OthersSame(c) /\ calls'[c] \in Call
         /\ calls'[c].step = calls[c].step /\ calls'[c].known = calls[c].known
         /\ calls'[c].seen = calls[c].seen /\ calls'[c].version = calls[c].version
         /\ calls'[c].awaited = FALSE /\ calls[c].step # "done"
<1>1. calls[c] \in Call
  BY DEF TypeOK
<1> QED
  BY <1>1 DEF GiveUp, TypeOK, OthersSame, Call

\* A call that ends is gone.
LEMMA EndIs ==
  ASSUME TypeOK, NEW c \in Slots, TakeNothing(c) \/ Take(c) \/ Refuse(c) \/ Lose(c)
  PROVE  OthersSame(c) /\ calls'[c] = NoCall
  BY DEF TakeNothing, Take, Refuse, Lose, RoundGoesOn, TypeOK, OthersSame

\* No call is a call, with nothing read.
LEMMA NoCallIs ==
  /\ NoCall \in Call /\ NoCall.step = "idle" /\ NoCall.seen = <<>> /\ NoCall.awaited = FALSE
  BY DEF NoCall, Call

-----------------------------------------------------------------------------
(* The steps. *)

\* Every step keeps the types.
LEMMA TypeStep ==
  ASSUME TypeOK, Reads, [Next]_vars
  PROVE  TypeOK'
<1> DEFINE Rest == /\ edits \in [Parts -> Nat]
                   /\ offered \in [version : Nat, digest : Seq(Nat)]
                   /\ held \in [version : Nat, seen : Seq(Nat)]
                   /\ Len(held.seen) = IF held.version > 0 THEN Len(BundleParts) ELSE 0
                   /\ refusal \in Nat
                   /\ healed \in BOOLEAN
                   /\ signed \subseteq [version : Nat, digest : Seq(Nat), license : Nat]
<1>1. Rest /\ calls \in [Slots -> Call]
  BY DEF TypeOK
<1>2. ASSUME NEW c \in Slots
      PROVE  /\ calls[c] \in Call /\ calls[c].seen \in Seq(Nat) /\ calls[c].version \in Nat
             /\ calls[c].license \in Nat /\ Digest(calls[c].seen) \in Seq(Nat)
  BY <1>1, DigestIs DEF Call
<1>3. CASE UNCHANGED vars
  BY <1>1, <1>3 DEF vars, TypeOK
<1>4. ASSUME NEW p \in Parts, Edit(p)
      PROVE  TypeOK'
  <2>1. edits' \in [Parts -> Nat]
    BY <1>1, <1>4, SMTT(30) DEF Edit
  <2> QED BY <1>1, <1>4, <2>1 DEF Edit, TypeOK
<1>5. CASE Heal
  BY <1>1, <1>5 DEF Heal, TypeOK
<1>6. ASSUME NEW c \in Slots, Ask(c) \/ ReadPart(c) \/ ReadLicense(c) \/ ReadOffered(c) \/ Upsert(c)
      PROVE  TypeOK'
  <2>1. calls'[c] \in Call /\ OthersSame(c)
    BY <1>6, AskIs, ReadPartIs, ReadLicenseIs, ReadOfferedIs, UpsertIs DEF Goes
  <2>2. UNCHANGED <<edits, offered, held, refusal, healed, signed>>
    BY <1>6 DEF Ask, ReadPart, ReadLicense, ReadOffered, Upsert
  <2>3. calls' \in [Slots -> Call]
    <3>1. DOMAIN calls' = Slots /\ calls' = [b \in Slots |-> calls'[b]]
      BY <1>1, <1>6 DEF Ask, ReadPart, ReadLicense, ReadOffered, Upsert
    <3> QED BY <1>1, <2>1, <3>1 DEF OthersSame
  <2> QED BY <1>1, <2>2, <2>3 DEF TypeOK
<1>7. ASSUME NEW c \in Slots, TakeNothing(c) \/ Take(c) \/ Refuse(c) \/ Lose(c) \/ GiveUp(c) \/ Answer(c)
      PROVE  calls' \in [Slots -> Call]
  <2>1. calls'[c] \in Call /\ OthersSame(c)
    BY <1>7, EndIs, GiveUpIs, AnswerIs, NoCallIs DEF Goes
  <2>2. calls' = [b \in Slots |-> calls'[b]]
    BY <1>1, <1>7 DEF TakeNothing, Take, Refuse, Lose, GiveUp, Answer, RoundGoesOn
  <2> QED BY <1>1, <2>1, <2>2 DEF OthersSame
<1>8. ASSUME NEW c \in Slots, TakeNothing(c) \/ Lose(c) \/ GiveUp(c)
      PROVE  TypeOK'
  BY <1>1, <1>7, <1>8 DEF TakeNothing, Lose, GiveUp, TypeOK
<1>9. ASSUME NEW c \in Slots, Refuse(c)
       PROVE  TypeOK'
  BY <1>1, <1>2, <1>7, <1>9 DEF Refuse, TypeOK
<1>10. ASSUME NEW c \in Slots, Take(c)
       PROVE  TypeOK'
  <2>1. held' = [version |-> calls[c].version, seen |-> calls[c].seen]
    BY <1>10 DEF Take
  <2>2. held'.version > 0 /\ Len(held'.seen) = Len(BundleParts)
    <3>1. calls[c].version > held.version /\ calls[c].step = "done"
      BY <1>10 DEF Take, Newer, Answered
    <3>2. calls[c].version > 0
      <4> DEFINE v == calls[c].version
                 h == held.version
      <4>1. v \in Nat /\ h \in Nat /\ v > h
        BY <1>1, <1>2, <3>1
      <4> HIDE DEF v, h
      <4>2. v > 0
        BY <4>1
      <4> QED BY <4>2 DEF v
    <3>3. Len(calls[c].seen) = Len(BundleParts)
      BY <3>1 DEF Reads
    <3> QED BY <2>1, <3>2, <3>3
  <2>3. held' \in [version : Nat, seen : Seq(Nat)]
    BY <1>2, <2>1
  <2> QED BY <1>1, <1>7, <1>10, <2>2, <2>3 DEF Take, TypeOK
<1>11. ASSUME NEW c \in Slots, Answer(c)
       PROVE  TypeOK'
  <2>1. Manifest(c) \in [version : Nat, digest : Seq(Nat), license : Nat]
    BY <1>2 DEF Manifest
  <2>2. offered' \in [version : Nat, digest : Seq(Nat)]
    BY <1>1, <1>2, <1>11 DEF Answer
  <2>3. signed' \subseteq [version : Nat, digest : Seq(Nat), license : Nat]
    BY <1>1, <1>11, <2>1 DEF Answer
  <2> QED BY <1>1, <1>7, <1>11, <2>2, <2>3 DEF Answer, TypeOK
<1> QED
  BY <1>3, <1>4, <1>5, <1>6, <1>8, <1>9, <1>10, <1>11 DEF Next, ServerStep, DeviceStep

\* Every step is one of a build, or leaves what the builds and the device have.
LEMMA StepIs ==
  ASSUME [Next]_vars
  PROVE  \/ UNCHANGED <<offered, calls, held, signed>>
         \/ \E c \in Slots : \/ Ask(c) \/ ReadPart(c) \/ ReadLicense(c) \/ ReadOffered(c)
                           \/ Upsert(c) \/ Answer(c) \/ Take(c) \/ GiveUp(c)
                           \/ TakeNothing(c) \/ Refuse(c) \/ Lose(c)
  BY DEF Next, vars, Edit, Heal, ServerStep, DeviceStep

\* What was read was read before now, after every step.
LEMMA ReadsStep ==
  ASSUME TypeOK, Reads, [Next]_vars
  PROVE  Reads'
<1> DEFINE Good(seen) == \A i \in 1..Len(seen) : seen[i] <= edits'[BundleParts[i]]
           Fine(k) == /\ Len(k.seen) <= Len(BundleParts)
                      /\ k.step \notin {"idle", "reading"} => Len(k.seen) = Len(BundleParts)
                      /\ Good(k.seen)
<1>1. \A p \in Parts : edits[p] \in Nat /\ edits'[p] \in Nat /\ edits[p] <= edits'[p]
  <2>1. \A p \in Parts : edits[p] \in Nat
    BY DEF TypeOK
  <2>2. UNCHANGED edits \/ \E p \in Parts : Edit(p)
    BY DEF Next, vars, Ask, ServerStep, ReadPart, ReadLicense, ReadOffered, Upsert, Answer,
           DeviceStep, TakeNothing, Take, Refuse, Lose, GiveUp, Heal
  <2>3. ASSUME NEW p \in Parts, Edit(p)
        PROVE  \A q \in Parts : edits'[q] \in Nat /\ edits[q] <= edits'[q]
    <3> TAKE q \in Parts
    <3>1. edits'[q] = IF q = p THEN edits[p] + 1 ELSE edits[q]
      BY <2>3 DEF Edit, TypeOK
    <3> QED BY <2>1, <3>1
  <2> QED BY <2>1, <2>2, <2>3
<1>2. ASSUME NEW seen \in Seq(Nat), Len(seen) <= Len(BundleParts),
             \A i \in 1..Len(seen) : seen[i] <= edits[BundleParts[i]]
      PROVE  Good(seen)
  <2> SUFFICES ASSUME NEW i \in 1..Len(seen)
               PROVE  seen[i] <= edits'[BundleParts[i]]
    OBVIOUS
  <2>1. seen[i] \in Nat /\ BundleParts[i] \in Parts
    BY <1>2, ElementOfSeq
  <2> QED BY <1>1, <1>2, <2>1, SMTT(30)
<1>3. \A c \in Slots : calls[c] \in Call /\ calls[c].seen \in Seq(Nat) /\ Fine(calls[c])
  BY <1>2 DEF TypeOK, Call, Reads
<1>4. held.seen \in Seq(Nat) /\ Good(held.seen)
  <2>1. held.seen \in Seq(Nat) /\ Len(held.seen) <= Len(BundleParts)
    BY DEF TypeOK
  <2>2. \A i \in 1..Len(held.seen) : held.seen[i] <= edits[BundleParts[i]]
    BY DEF Reads
  <2> QED BY <1>2, <2>1, <2>2
<1>5. Fine(NoCall)
  BY NoCallIs DEF Good
<1>6. ASSUME NEW c \in Slots, OthersSame(c), Fine(calls'[c]), UNCHANGED held
      PROVE  Reads'
  <2>1. ASSUME NEW b \in Slots
        PROVE  Fine(calls'[b])
    <3>1. CASE b = c
      BY <1>6, <3>1
    <3>2. CASE b # c
      <4>1. calls'[b] = calls[b]
        BY <1>6, <3>2 DEF OthersSame
      <4> QED BY <1>3, <4>1
    <3> QED BY <3>1, <3>2
  <2> QED BY <1>4, <1>6, <2>1 DEF Reads
<1>7. CASE UNCHANGED <<offered, calls, held, signed>>
  BY <1>3, <1>4, <1>7 DEF Reads
<1>8. ASSUME NEW c \in Slots, Ask(c)
      PROVE  Reads'
  <2>1. Fine(calls'[c])
    <3>1. calls'[c].seen = <<>> /\ calls'[c].step = "reading"
      BY <1>8, AskIs
    <3> QED BY <3>1 DEF Good
  <2> QED BY <1>6, <1>8, <2>1, AskIs DEF Ask
<1>9. ASSUME NEW c \in Slots, ReadPart(c)
      PROVE  Reads'
  <2>1. calls'[c].step = "reading" /\ Len(calls'[c].seen) <= Len(BundleParts)
    BY <1>3, <1>9, ReadPartIs
  <2>2. Good(calls'[c].seen)
    <3> SUFFICES ASSUME NEW i \in 1..Len(calls'[c].seen)
                 PROVE  calls'[c].seen[i] <= edits'[BundleParts[i]]
      OBVIOUS
    <3> DEFINE n == Len(calls[c].seen)
    <3>1. /\ n \in Nat /\ n + 1 \in 1..Len(BundleParts) /\ Len(calls'[c].seen) = n + 1
          /\ \A j \in 1..n : calls'[c].seen[j] = calls[c].seen[j]
          /\ calls'[c].seen[n + 1] = edits[BundleParts[n + 1]]
      BY <1>3, <1>9, ReadPartIs
    <3>2. CASE i = n + 1
      <4>1. BundleParts[i] \in Parts
        BY <3>1, <3>2, ElementOfSeq
      <4> QED BY <1>1, <3>1, <3>2, <4>1
    <3>3. CASE i # n + 1
      <4>1. i \in 1..n
        BY <3>1, <3>3
      <4> QED BY <1>3, <3>1, <4>1
    <3> QED BY <3>2, <3>3
  <2> QED BY <1>6, <1>9, <2>1, <2>2, ReadPartIs DEF ReadPart
<1>10. ASSUME NEW c \in Slots, ReadLicense(c) \/ ReadOffered(c) \/ Upsert(c)
       PROVE  Reads'
  <2>1. \E step : Goes(c, step)
    BY <1>10, ReadLicenseIs, ReadOfferedIs, UpsertIs
  <2>2. Fine(calls'[c])
    <3>1. calls'[c].seen = calls[c].seen
      BY <2>1 DEF Goes
    <3>2. Len(calls[c].seen) = Len(BundleParts)
      BY <1>3, <1>10, ReadLicenseIs, ReadOfferedIs, UpsertIs
    <3> QED BY <1>3, <3>1, <3>2
  <2>3. OthersSame(c) /\ UNCHANGED held
    BY <1>10, ReadLicenseIs, ReadOfferedIs, UpsertIs DEF ReadLicense, ReadOffered, Upsert
  <2> QED BY <1>6, <2>2, <2>3
<1>11. ASSUME NEW c \in Slots, Answer(c)
       PROVE  Reads'
  <2>1. Fine(calls'[c])
    BY <1>3, <1>5, <1>11, AnswerIs DEF Goes
  <2> QED BY <1>6, <1>11, <2>1, AnswerIs DEF Answer
<1>12. ASSUME NEW c \in Slots, GiveUp(c)
       PROVE  Reads'
  <2>1. Fine(calls'[c])
    BY <1>3, <1>12, GiveUpIs
  <2> QED BY <1>6, <1>12, <2>1, GiveUpIs DEF GiveUp
<1>13. ASSUME NEW c \in Slots, TakeNothing(c) \/ Refuse(c) \/ Lose(c)
       PROVE  Reads'
  <2>1. calls'[c] = NoCall /\ OthersSame(c)
    BY <1>13, EndIs
  <2> QED BY <1>5, <1>6, <1>13, <2>1 DEF TakeNothing, Refuse, Lose
<1>14. ASSUME NEW c \in Slots, Take(c)
       PROVE  Reads'
  <2>1. calls'[c] = NoCall /\ OthersSame(c)
    BY <1>14, EndIs
  <2>2. ASSUME NEW b \in Slots
        PROVE  Fine(calls'[b])
    <3>1. CASE b = c
      BY <1>5, <2>1, <3>1
    <3>2. CASE b # c
      <4>1. calls'[b] = calls[b]
        BY <2>1, <3>2 DEF OthersSame
      <4> QED BY <1>3, <4>1
    <3> QED BY <3>1, <3>2
  <2>3. held'.seen = calls[c].seen
    BY <1>14 DEF Take
  <2> QED BY <1>3, <2>2, <2>3 DEF Reads, Good
<1> QED
  BY <1>7, <1>8, <1>9, <1>10, <1>11, <1>12, <1>13, <1>14, StepIs

\* The one awaited build keeps reading what is not older than what is held.
LEMMA FreshStep ==
  ASSUME TypeOK, Reads, Fresh, [Next]_vars
  PROVE  Fresh'
<1> DEFINE Later(seen, k) == \A i \in 1..Len(k.seen) : i \in 1..Len(seen) => seen[i] <= k.seen[i]
<1>1. \A b, c \in Slots : calls[b].awaited /\ calls[c].awaited => b = c
  BY DEF Fresh
<1>2. \A c \in Slots : calls[c].awaited => Later(held.seen, calls[c])
  BY DEF Fresh
<1>3. NoCall.awaited = FALSE
  BY DEF NoCall
<1>4. \A c \in Slots : calls[c].awaited \in BOOLEAN /\ calls[c].seen \in Seq(Nat)
  BY DEF TypeOK, Call
<1>5. CASE UNCHANGED <<offered, calls, held, signed>>
  BY <1>1, <1>2, <1>5 DEF Fresh
<1>6. ASSUME NEW c \in Slots, OthersSame(c), UNCHANGED held,
             calls'[c].awaited => calls[c].awaited /\ Later(held.seen, calls'[c])
      PROVE  Fresh'
  <2>1. \A b \in Slots : calls'[b].awaited => calls[b].awaited
    BY <1>6 DEF OthersSame
  <2>2. ASSUME NEW b \in Slots, calls'[b].awaited
        PROVE  Later(held'.seen, calls'[b])
    <3>1. CASE b = c
      BY <1>6, <2>2, <3>1
    <3>2. CASE b # c
      <4>1. calls'[b] = calls[b]
        BY <1>6, <3>2 DEF OthersSame
      <4> QED BY <1>2, <1>6, <2>2, <4>1
    <3> QED BY <3>1, <3>2
  <2> QED BY <1>1, <2>1, <2>2 DEF Fresh
<1>7. ASSUME NEW c \in Slots, Ask(c)
      PROVE  Fresh'
  <2>1. \A b \in Slots : b # c => calls'[b].awaited = FALSE
    BY <1>4, <1>7, AskIs DEF Ask, Running, OthersSame
  <2>2. Later(held'.seen, calls'[c])
    <3>1. calls'[c].seen = <<>>
      BY <1>7, AskIs
    <3> QED BY <3>1
  <2> QED BY <2>1, <2>2 DEF Fresh
<1>8. ASSUME NEW c \in Slots, ReadPart(c)
      PROVE  Fresh'
  <2>1. calls'[c].awaited = calls[c].awaited /\ OthersSame(c) /\ UNCHANGED held
    BY <1>8, ReadPartIs DEF ReadPart
  <2>2. ASSUME calls[c].awaited
        PROVE  Later(held.seen, calls'[c])
    <3> SUFFICES ASSUME NEW i \in 1..Len(calls'[c].seen), i \in 1..Len(held.seen)
                 PROVE  held.seen[i] <= calls'[c].seen[i]
      OBVIOUS
    <3> DEFINE n == Len(calls[c].seen)
    <3>1. /\ n \in Nat /\ Len(calls'[c].seen) = n + 1
          /\ \A j \in 1..n : calls'[c].seen[j] = calls[c].seen[j]
          /\ calls'[c].seen[n + 1] = edits[BundleParts[n + 1]]
      BY <1>4, <1>8, ReadPartIs
    <3>2. CASE i = n + 1
      BY <3>1, <3>2 DEF Reads
    <3>3. CASE i # n + 1
      <4>1. i \in 1..n
        BY <3>1, <3>3
      <4> QED BY <1>2, <2>2, <3>1, <4>1
    <3> QED BY <3>2, <3>3
  <2> QED BY <1>6, <2>1, <2>2
<1>9. ASSUME NEW c \in Slots, ReadLicense(c) \/ ReadOffered(c) \/ Upsert(c)
      PROVE  Fresh'
  <2>1. calls'[c].seen = calls[c].seen /\ calls'[c].awaited = calls[c].awaited /\ OthersSame(c)
    BY <1>9, ReadLicenseIs, ReadOfferedIs, UpsertIs DEF Goes
  <2> QED BY <1>2, <1>6, <1>9, <2>1 DEF ReadLicense, ReadOffered, Upsert
<1>10. ASSUME NEW c \in Slots, Answer(c)
       PROVE  Fresh'
  <2>1. CASE calls'[c] = NoCall
    BY <1>3, <1>6, <1>10, <2>1, AnswerIs DEF Answer
  <2>2. CASE Goes(c, "done")
    BY <1>2, <1>6, <1>10, <2>2, AnswerIs DEF Answer, Goes
  <2> QED BY <1>10, <2>1, <2>2, AnswerIs
<1>11. ASSUME NEW c \in Slots, GiveUp(c)
       PROVE  Fresh'
  BY <1>6, <1>11, GiveUpIs DEF GiveUp
<1>12. ASSUME NEW c \in Slots, TakeNothing(c) \/ Refuse(c) \/ Lose(c)
       PROVE  Fresh'
  <2>1. OthersSame(c) /\ calls'[c].awaited = FALSE
    BY <1>3, <1>12, EndIs
  <2> QED BY <1>6, <1>12, <2>1 DEF TakeNothing, Refuse, Lose
<1>13. ASSUME NEW c \in Slots, Take(c)
       PROVE  Fresh'
  <2>1. calls[c].awaited /\ OthersSame(c) /\ calls'[c].awaited = FALSE
    BY <1>3, <1>13, EndIs DEF Take, Answered
  <2>2. \A b \in Slots : calls'[b].awaited = FALSE
    BY <1>1, <1>4, <2>1 DEF OthersSame
  <2> QED BY <2>2 DEF Fresh
<1> QED
  BY <1>5, <1>7, <1>8, <1>9, <1>10, <1>11, <1>12, <1>13, StepIs

\* The row of versions counts one write at a time.
LEMMA CountsStep ==
  ASSUME TypeOK, Counts, [Next]_vars
  PROVE  Counts'
<1> DEFINE Locks(k) == k.step \in {"wrote", "same"}
<1>1. /\ \A b, c \in Slots : Locks(calls[b]) /\ Locks(calls[c]) => b = c
      /\ \A c \in Slots : calls[c].step = "wrote" => calls[c].version = offered.version + 1
  BY DEF Counts
<1>2. NoCall.step = "idle"
  BY DEF NoCall
<1>3. CASE UNCHANGED <<offered, calls, held, signed>>
  BY <1>1, <1>3 DEF Counts
<1>4. ASSUME NEW c \in Slots, OthersSame(c), ~Locks(calls'[c]),
             UNCHANGED offered \/ calls[c].step = "wrote"
      PROVE  Counts'
  <2>1. \A b \in Slots : Locks(calls'[b]) => b # c /\ calls'[b] = calls[b]
    BY <1>4 DEF OthersSame
  <2> QED BY <1>1, <1>4, <2>1 DEF Counts
<1>5. ASSUME NEW c \in Slots, \/ Ask(c) \/ ReadPart(c) \/ ReadLicense(c) \/ ReadOffered(c)
                              \/ TakeNothing(c) \/ Refuse(c) \/ Lose(c) \/ Take(c)
      PROVE  Counts'
  <2>1. OthersSame(c) /\ calls'[c].step \in {"idle", "reading", "offering", "ready", "writing"}
    BY <1>2, <1>5, AskIs, ReadPartIs, ReadLicenseIs, ReadOfferedIs, EndIs DEF Goes
  <2> QED
    BY <1>4, <1>5, <2>1
    DEF Ask, ReadPart, ReadLicense, ReadOffered, TakeNothing, Refuse, Lose, Take
<1>6. ASSUME NEW c \in Slots, Upsert(c)
      PROVE  Counts'
  <2>1. \A b \in Slots : b # c => ~Locks(calls'[b])
    BY <1>6, UpsertIs DEF OthersSame
  <2>2. UNCHANGED offered /\ (calls'[c].step = "wrote" => calls'[c].version = offered.version + 1)
    BY <1>6, UpsertIs DEF Upsert, Goes
  <2> QED BY <2>1, <2>2 DEF Counts
<1>7. ASSUME NEW c \in Slots, Answer(c)
      PROVE  Counts'
  <2>1. OthersSame(c) /\ calls'[c].step \in {"idle", "done"}
    BY <1>2, <1>7, AnswerIs DEF Goes
  <2>2. UNCHANGED offered \/ calls[c].step = "wrote"
    BY <1>7 DEF Answer
  <2> QED BY <1>4, <2>1, <2>2
<1>8. ASSUME NEW c \in Slots, GiveUp(c)
      PROVE  Counts'
  <2>1. /\ \A b \in Slots : calls'[b].step = calls[b].step /\ calls'[b].version = calls[b].version
        /\ UNCHANGED offered
    BY <1>8, GiveUpIs DEF OthersSame, GiveUp
  <2> QED BY <1>1, <2>1 DEF Counts
<1> QED
  BY <1>3, <1>5, <1>6, <1>7, <1>8, StepIs

\* Being named, before a step and after it: signed, in the row, or of a build that has it.
LEMMA NamedIs ==
  ASSUME NEW x
  PROVE  x \in Named <=>
           \/ \E a \in signed : x = Pair(a.version, a.digest)
           \/ offered.version > 0 /\ x = Pair(offered.version, offered.digest)
           \/ \E c \in Slots : /\ calls[c].step \in {"ready", "same", "done"}
                               /\ x = Pair(calls[c].version, Digest(calls[c].seen))
  BY DEF Named

LEMMA NamedNextIs ==
  ASSUME NEW x
  PROVE  x \in Named' <=>
           \/ \E a \in signed' : x = Pair(a.version, a.digest)
           \/ offered'.version > 0 /\ x = Pair(offered'.version, offered'.digest)
           \/ \E c \in Slots : /\ calls'[c].step \in {"ready", "same", "done"}
                               /\ x = Pair(calls'[c].version, Digest(calls'[c].seen))
  BY DEF Named, Digest

\* No new name, no new count.
LEMMA SameNames ==
  ASSUME OneContent, Named' \subseteq Named, offered'.version = offered.version
  PROVE  OneContent'
  BY DEF OneContent

\* A call that changes without the row or what is signed: only its own name is new.
LEMMA CallNames ==
  ASSUME NEW c \in Slots, OthersSame(c), UNCHANGED <<offered, signed>>,
         calls'[c].step \in {"ready", "same", "done"}
           => Pair(calls'[c].version, Digest(calls'[c].seen)) \in Named
  PROVE  Named' \subseteq Named
<1> SUFFICES ASSUME NEW x \in Named'
             PROVE  x \in Named
  OBVIOUS
<1>1. CASE \E a \in signed : x = Pair(a.version, a.digest)
  BY <1>1, NamedIs
<1>2. CASE offered.version > 0 /\ x = Pair(offered.version, offered.digest)
  BY <1>2, NamedIs
<1>3. CASE \E b \in Slots : /\ calls'[b].step \in {"ready", "same", "done"}
                            /\ x = Pair(calls'[b].version, Digest(calls'[b].seen))
  <2>1. PICK b \in Slots : /\ calls'[b].step \in {"ready", "same", "done"}
                           /\ x = Pair(calls'[b].version, Digest(calls'[b].seen))
    BY <1>3
  <2>2. CASE b = c
    BY <2>1, <2>2
  <2>3. CASE b # c
    <3>1. calls'[b] = calls[b]
      BY <2>3 DEF OthersSame
    <3>2. calls[b].step \in {"ready", "same", "done"} /\ x = Pair(calls[b].version, Digest(calls[b].seen))
      BY <2>1, <3>1
    <3> QED BY <3>2, NamedIs
  <2> QED BY <2>2, <2>3
<1> QED
  <2>1. \/ \E a \in signed : x = Pair(a.version, a.digest)
        \/ offered.version > 0 /\ x = Pair(offered.version, offered.digest)
        \/ \E b \in Slots : /\ calls'[b].step \in {"ready", "same", "done"}
                            /\ x = Pair(calls'[b].version, Digest(calls'[b].seen))
    BY NamedNextIs
  <2> QED BY <1>1, <1>2, <1>3, <2>1

\* A build that the row's digest is of has the row's name.
LEMMA RowName ==
  ASSUME NEW c \in Slots, SameDigest(c)
  PROVE  Pair(offered.version, Digest(calls[c].seen)) \in Named
<1>1. offered.version > 0 /\ offered.digest = Digest(calls[c].seen)
  BY DEF SameDigest
<1> QED BY <1>1, NamedIs

\* An answer names what was named, and the content it was built of.
LEMMA AnswerNames ==
  ASSUME TypeOK, NEW c \in Slots, Answer(c)
  PROVE  Named' \subseteq Named \cup {Pair(calls[c].version, Digest(calls[c].seen))}
<1> DEFINE new == Pair(calls[c].version, Digest(calls[c].seen))
<1> SUFFICES ASSUME NEW x \in Named', x # new
             PROVE  x \in Named
  OBVIOUS
<1>1. OthersSame(c)
  BY AnswerIs
<1>2. ASSUME NEW a \in signed', x = Pair(a.version, a.digest)
      PROVE  x \in Named
  <2>1. a \in signed \/ a = Manifest(c)
    BY <1>2 DEF Answer
  <2>2. a # Manifest(c)
    BY <1>2 DEF Manifest
  <2> QED BY <1>2, <2>1, <2>2, NamedIs
<1>3. ASSUME offered'.version > 0, x = Pair(offered'.version, offered'.digest)
      PROVE  x \in Named
  <2>1. offered' = offered \/ offered' = [version |-> calls[c].version, digest |-> Digest(calls[c].seen)]
    BY DEF Answer
  <2>2. offered' = offered
    BY <1>3, <2>1
  <2> QED BY <1>3, <2>2, NamedIs
<1>4. ASSUME NEW b \in Slots, calls'[b].step \in {"ready", "same", "done"},
             x = Pair(calls'[b].version, Digest(calls'[b].seen))
      PROVE  x \in Named
  <2>1. CASE b = c
    <3>1. Goes(c, "done") /\ calls'[c].version = calls[c].version
      BY <1>4, <2>1, AnswerIs, NoCallIs
    <3>2. calls'[c].seen = calls[c].seen
      BY <3>1 DEF Goes
    <3> QED BY <1>4, <2>1, <3>1, <3>2
  <2>2. CASE b # c
    <3>1. calls'[b] = calls[b]
      BY <1>1, <2>2 DEF OthersSame
    <3>2. calls[b].step \in {"ready", "same", "done"} /\ x = Pair(calls[b].version, Digest(calls[b].seen))
      BY <1>4, <3>1
    <3> QED BY <3>2, NamedIs
  <2> QED BY <2>1, <2>2
<1> QED
  <2>1. \/ \E a \in signed' : x = Pair(a.version, a.digest)
        \/ offered'.version > 0 /\ x = Pair(offered'.version, offered'.digest)
        \/ \E b \in Slots : /\ calls'[b].step \in {"ready", "same", "done"}
                            /\ x = Pair(calls'[b].version, Digest(calls'[b].seen))
    BY NamedNextIs
  <2> QED BY <1>2, <1>3, <1>4, <2>1

\* A version keeps its one content.
LEMMA NamesStep ==
  ASSUME TypeOK, Counts, OneContent, [Next]_vars
  PROVE  OneContent'
<1>1. offered.version \in Nat /\ \A c \in Slots : calls[c].version \in Nat
  BY DEF TypeOK, Call
<1>2. CASE UNCHANGED <<offered, calls, held, signed>>
  <2>1. Named' \subseteq Named
    <3> SUFFICES ASSUME NEW x \in Named'
                 PROVE  x \in Named
      OBVIOUS
    <3> QED BY <1>2, NamedIs, NamedNextIs
  <2> QED BY <1>2, <2>1, SameNames
<1>3. ASSUME NEW c \in Slots, \/ Ask(c) \/ ReadPart(c) \/ ReadLicense(c)
                              \/ TakeNothing(c) \/ Refuse(c) \/ Lose(c) \/ Take(c)
      PROVE  OneContent'
  <2>1. OthersSame(c) /\ calls'[c].step \in {"idle", "reading", "offering"}
    BY <1>3, AskIs, ReadPartIs, ReadLicenseIs, EndIs, NoCallIs DEF Goes
  <2>2. UNCHANGED <<offered, signed>>
    BY <1>3 DEF Ask, ReadPart, ReadLicense, TakeNothing, Refuse, Lose, Take
  <2>3. Named' \subseteq Named
    BY <2>1, <2>2, CallNames
  <2> QED BY <2>2, <2>3, SameNames
<1>4. ASSUME NEW c \in Slots, ReadOffered(c) \/ Upsert(c)
      PROVE  OneContent'
  <2>1. OthersSame(c) /\ UNCHANGED <<offered, signed>>
    BY <1>4, ReadOfferedIs, UpsertIs DEF ReadOffered, Upsert
  <2>2. \/ calls'[c].step \in {"writing", "wrote"}
        \/ SameDigest(c) /\ calls'[c].version = offered.version /\ calls'[c].seen = calls[c].seen
    BY <1>4, ReadOfferedIs, UpsertIs DEF Goes
  <2>3. calls'[c].step \in {"ready", "same", "done"}
          => Pair(calls'[c].version, Digest(calls'[c].seen)) \in Named
    BY <2>2, RowName
  <2>4. Named' \subseteq Named
    BY <2>1, <2>3, CallNames
  <2> QED BY <2>1, <2>4, SameNames
<1>5. ASSUME NEW c \in Slots, GiveUp(c)
      PROVE  OneContent'
  <2>1. OthersSame(c) /\ UNCHANGED <<offered, signed>>
    BY <1>5, GiveUpIs DEF GiveUp
  <2>2. calls'[c].step \in {"ready", "same", "done"}
          => Pair(calls'[c].version, Digest(calls'[c].seen)) \in Named
    BY <1>5, GiveUpIs, NamedIs
  <2>3. Named' \subseteq Named
    BY <2>1, <2>2, CallNames
  <2> QED BY <2>1, <2>3, SameNames
<1>6. ASSUME NEW c \in Slots, Answer(c)
      PROVE  OneContent'
  <2> DEFINE new == Pair(calls[c].version, Digest(calls[c].seen))
  <2>1. Named' \subseteq Named \cup {new}
    BY <1>6, AnswerNames
  <2>2. CASE calls[c].step # "wrote"
    <3>1. new \in Named
      BY <1>6, <2>2, AnswerIs, NamedIs
    <3>2. UNCHANGED offered
      BY <1>6, <2>2 DEF Answer
    <3> QED BY <2>1, <3>1, <3>2, SameNames
  <2>3. CASE calls[c].step = "wrote"
    <3>1. /\ calls[c].version = offered.version + 1
          /\ offered'.version = calls[c].version /\ new.version = calls[c].version
      BY <1>6, <2>3 DEF Answer, Counts, Pair
    <3>2. \A x \in Named : x.version \in 1..offered.version
      BY DEF OneContent
    <3> HIDE DEF new
    <3>3. \A x \in Named' : x.version \in 1..offered'.version
      BY <1>1, <2>1, <3>1, <3>2
    <3>4. \A x \in Named : x.version # new.version
      BY <1>1, <3>1, <3>2
    <3>5. \A x, y \in Named' : x.version = y.version => x.digest = y.digest
      BY <2>1, <3>4 DEF OneContent
    <3> QED BY <3>3, <3>5 DEF OneContent
  <2> QED BY <2>2, <2>3
<1> QED
  BY <1>2, <1>3, <1>4, <1>5, <1>6, StepIs

\* What the device takes was signed.
LEMMA SignedStep ==
  ASSUME TypeOK, TakesSigned, [Next]_vars
  PROVE  TakesSigned'
<1> DEFINE Has(v, d) == \E a \in signed : a.version = v /\ a.digest = d
           HasNext(v, d) == \E a \in signed' : a.version = v /\ a.digest = d
           Good(k) == k.step = "done" /\ k.version # k.known => HasNext(k.version, Digest(k.seen))
<1>1. signed \subseteq signed'
  BY StepIs DEF Ask, ReadPart, ReadLicense, ReadOffered, Upsert, Answer, Take, GiveUp,
               TakeNothing, Refuse, Lose
<1>2. \A v, d : Has(v, d) => HasNext(v, d)
  BY <1>1
<1>3. \A c \in Slots : Good(calls[c])
  BY <1>2 DEF TakesSigned
<1>4. held.version > 0 => HasNext(held.version, Digest(held.seen))
  BY <1>2 DEF TakesSigned
<1> HIDE DEF Has, HasNext
<1>5. ASSUME NEW c \in Slots, OthersSame(c), Good(calls'[c]),
             UNCHANGED held \/ (held'.version = calls[c].version /\ held'.seen = calls[c].seen
                                /\ calls[c].step = "done" /\ calls[c].version # calls[c].known)
      PROVE  TakesSigned'
  <2>1. ASSUME NEW b \in Slots
        PROVE  Good(calls'[b])
    <3>1. CASE b = c
      BY <1>5, <3>1
    <3>2. CASE b # c
      <4>1. calls'[b] = calls[b]
        BY <1>5, <3>2 DEF OthersSame
      <4> QED BY <1>3, <4>1
    <3> QED BY <3>1, <3>2
  <2>2. held'.version > 0 => HasNext(held'.version, Digest(held'.seen))
    BY <1>3, <1>4, <1>5
  <2> QED BY <2>1, <2>2 DEF TakesSigned, HasNext, Digest
<1>6. CASE UNCHANGED <<offered, calls, held, signed>>
  BY <1>6 DEF TakesSigned, Digest
<1>7. ASSUME NEW c \in Slots, \/ Ask(c) \/ ReadPart(c) \/ ReadLicense(c) \/ ReadOffered(c)
                              \/ Upsert(c) \/ TakeNothing(c) \/ Refuse(c) \/ Lose(c) \/ GiveUp(c)
      PROVE  TakesSigned'
  <2>1. OthersSame(c) /\ calls'[c].step # "done"
    BY <1>7, AskIs, ReadPartIs, ReadLicenseIs, ReadOfferedIs, UpsertIs, EndIs, GiveUpIs, NoCallIs, ZenonT(40)
    DEF Goes
  <2>2. UNCHANGED held
    BY <1>7 DEF Ask, ReadPart, ReadLicense, ReadOffered, Upsert, TakeNothing, Refuse, Lose, GiveUp
  <2> QED BY <1>5, <2>1, <2>2
<1>8. ASSUME NEW c \in Slots, Answer(c)
      PROVE  TakesSigned'
  <2>1. calls[c].version # calls[c].known => Manifest(c) \in signed'
    BY <1>8 DEF Answer, Manifest
  <2>2. calls[c].version # calls[c].known => HasNext(calls[c].version, Digest(calls[c].seen))
    BY <2>1 DEF HasNext, Manifest
  <2>3. Good(calls'[c])
    BY <1>8, <2>2, AnswerIs, NoCallIs DEF Goes
  <2> QED BY <1>5, <1>8, <2>3, AnswerIs DEF Answer
<1>9. ASSUME NEW c \in Slots, Take(c)
      PROVE  TakesSigned'
  <2>1. OthersSame(c) /\ calls'[c].step # "done"
    BY <1>9, EndIs, NoCallIs
  <2>2. /\ held'.version = calls[c].version /\ held'.seen = calls[c].seen
        /\ calls[c].step = "done" /\ calls[c].version # calls[c].known
    BY <1>9 DEF Take, Answered
  <2> QED BY <1>5, <2>1, <2>2
<1> QED
  BY <1>6, <1>7, <1>8, <1>9, StepIs

-----------------------------------------------------------------------------
(* Theorems. *)

\* The whole invariant holds in every state.
THEOREM Invariant == Spec => []IInv
<1>1. IInv /\ [Next]_vars => IInv'
  BY TypeStep, ReadsStep, FreshStep, CountsStep, NamesStep, SignedStep DEF IInv
<1> QED BY InitInv, <1>1, PTL DEF Spec

\* The values of the state are of their types, and a bundle that is held is whole.
THEOREM Types == Spec => []TypeOK
<1>1. IInv => TypeOK
  BY DEF IInv
<1> QED BY Invariant, <1>1, PTL

\* Every version that was signed stands for one content of the parts, the row is of that content,
\* and the device holds what was signed, however many builds overlap.
THEOREM OneContentPerVersion == Spec => []VersionNamesParts
<1>1. IInv => VersionNamesParts
  <2> SUFFICES ASSUME OneContent, TakesSigned
               PROVE  VersionNamesParts
    BY DEF IInv
  <2>1. ASSUME NEW a \in signed
        PROVE  /\ Pair(a.version, a.digest) \in Named
               /\ Pair(a.version, a.digest).version = a.version
               /\ Pair(a.version, a.digest).digest = a.digest
    <3>1. Pair(a.version, a.digest) \in Named
      BY NamedIs
    <3> QED BY <3>1 DEF Pair
  <2>2. \A a, b \in signed : a.version = b.version => a.digest = b.digest
    BY <2>1 DEF OneContent
  <2>3. ASSUME NEW a \in signed, a.version = offered.version
        PROVE  a.digest = offered.digest
    <3>1. offered.version > 0
      BY <2>1, <2>3 DEF OneContent
    <3>2. Pair(offered.version, offered.digest) \in Named
      BY <3>1, NamedIs
    <3>3. /\ Pair(offered.version, offered.digest).version = offered.version
          /\ Pair(offered.version, offered.digest).digest = offered.digest
      BY DEF Pair
    <3> QED BY <2>1, <2>3, <3>2, <3>3 DEF OneContent
  <2> QED BY <2>2, <2>3 DEF VersionNamesParts, TakesSigned
<1> QED BY Invariant, <1>1, PTL

\* No new bundle brings back what the one before it had replaced.
THEOREM NothingComesBack == Spec => PartsMoveForward
<1>1. IInv /\ [Next]_vars => [\A i \in DOMAIN held.seen : held'.seen[i] >= held.seen[i]]_vars
  <2> SUFFICES ASSUME TypeOK, Reads, Fresh, [Next]_vars
               PROVE  \A i \in DOMAIN held.seen : held'.seen[i] >= held.seen[i]
    BY DEF IInv
  <2>1. held.seen \in Seq(Nat) /\ DOMAIN held.seen = 1..Len(held.seen)
    BY DEF TypeOK
  <2>2. \A i \in 1..Len(held.seen) : held.seen[i] \in Nat
    BY <2>1
  <2>3. CASE UNCHANGED held
    BY <2>1, <2>2, <2>3
  <2>4. ASSUME NEW c \in Slots, Take(c)
        PROVE  \A i \in DOMAIN held.seen : held'.seen[i] >= held.seen[i]
    <3> SUFFICES ASSUME NEW i \in 1..Len(held.seen)
                 PROVE  held'.seen[i] >= held.seen[i]
      BY <2>1
    <3>1. held'.seen = calls[c].seen /\ calls[c].awaited /\ calls[c].step = "done"
      BY <2>4 DEF Take, Answered
    <3>2. Len(calls[c].seen) = Len(BundleParts) /\ Len(held.seen) <= Len(BundleParts)
      <4>1. Len(calls[c].seen) = Len(BundleParts)
        BY <3>1 DEF Reads
      <4>2. Len(held.seen) = IF held.version > 0 THEN Len(BundleParts) ELSE 0
        BY DEF TypeOK
      <4>3. Len(BundleParts) \in Nat
        OBVIOUS
      <4> QED BY <4>1, <4>2, <4>3
    <3>3. i \in 1..Len(calls[c].seen) /\ calls[c].seen \in Seq(Nat)
      BY <2>1, <3>2 DEF TypeOK, Call
    <3>4. held.seen[i] <= calls[c].seen[i] /\ calls[c].seen[i] \in Nat
      BY <3>1, <3>3 DEF Fresh
    <3> QED BY <2>2, <3>1, <3>4
  <2>5. UNCHANGED held \/ \E c \in Slots : Take(c)
    BY StepIs DEF Ask, ReadPart, ReadLicense, ReadOffered, Upsert, Answer, GiveUp,
                  TakeNothing, Refuse, Lose
  <2> QED BY <2>3, <2>4, <2>5
<1> QED BY Invariant, <1>1, PTL DEF Spec, PartsMoveForward

-----------------------------------------------------------------------------
(* What the device is answered. *)

\* The device asked with the version it holds, and a build that knows its version has no lower one.
Asked ==
  \A c \in Slots : calls[c].awaited =>
    /\ calls[c].known = held.version
    /\ calls[c].step \in {"ready", "same", "wrote", "done"} => held.version <= calls[c].version

\* An answer the device takes is newer than what it holds, or says that it holds what the server
\* has just read.
NoAnswerIsStale ==
  \A c \in Slots : Answered(c) =>
    \/ Newer(c)
    \/ /\ calls[c].version = calls[c].known /\ held.version > 0
       /\ Digest(held.seen) = Digest(calls[c].seen)

\* The version held was signed, so it is not past the row's.
LEMMA HeldIsOffered ==
  ASSUME IInv
  PROVE  held.version \in Nat /\ offered.version \in Nat /\ held.version <= offered.version
<1>1. held.version \in Nat /\ offered.version \in Nat
  BY DEF IInv, TypeOK
<1>2. CASE held.version = 0
  BY <1>1, <1>2
<1>3. CASE held.version > 0
  <2>1. PICK a \in signed : a.version = held.version
    BY <1>3 DEF IInv, TakesSigned
  <2>2. Pair(a.version, a.digest) \in Named /\ Pair(a.version, a.digest).version = a.version
    BY NamedIs DEF Pair
  <2> QED BY <1>1, <2>1, <2>2 DEF IInv, OneContent
<1> QED BY <1>1, <1>2, <1>3

LEMMA InitAsked == Init => Asked
  BY DEF Init, Asked, NoCall

\* What is held stays until an awaited answer is taken, and then nothing is awaited.
LEMMA AskedStep == IInv /\ Asked /\ [Next]_vars => Asked'
<1> SUFFICES ASSUME IInv, Asked, [Next]_vars, NEW b \in Slots, calls'[b].awaited
             PROVE  /\ calls'[b].known = held'.version
                    /\ calls'[b].step \in {"ready", "same", "wrote", "done"}
                         => held'.version <= calls'[b].version
  BY DEF Asked
<1>1. TypeOK /\ held.version \in Nat /\ offered.version \in Nat /\ held.version <= offered.version
  BY HeldIsOffered DEF IInv
<1>2. calls[b].awaited =>
        /\ calls[b].known = held.version
        /\ calls[b].step \in {"ready", "same", "wrote", "done"} => held.version <= calls[b].version
  BY DEF Asked
<1>3. CASE calls'[b] = calls[b] /\ UNCHANGED held
  BY <1>2, <1>3
<1>4. CASE UNCHANGED <<calls, held>>
  BY <1>2, <1>4
<1>5. ASSUME NEW c \in Slots, TakeNothing(c) \/ Refuse(c) \/ Lose(c)
      PROVE  calls'[b] = calls[b] /\ UNCHANGED held
  <2>1. c # b
    BY <1>1, <1>5, EndIs, NoCallIs
  <2> QED BY <1>1, <1>5, <2>1, EndIs DEF OthersSame, TakeNothing, Refuse, Lose
<1>6. ASSUME NEW c \in Slots, Take(c)
      PROVE  FALSE
  <2>1. OthersSame(c) /\ calls'[c] = NoCall /\ calls[c].awaited
    BY <1>1, <1>6, EndIs DEF Take, Answered
  <2>2. b # c /\ calls[b].awaited
    BY <2>1, NoCallIs DEF OthersSame
  <2> QED BY <2>1, <2>2 DEF IInv, Fresh
<1>7. ASSUME NEW c \in Slots, c # b,
             Ask(c) \/ ReadPart(c) \/ ReadLicense(c) \/ ReadOffered(c) \/ Upsert(c) \/ Answer(c)
               \/ GiveUp(c)
      PROVE  calls'[b] = calls[b] /\ UNCHANGED held
  <2>1. OthersSame(c)
    BY <1>1, <1>7, AskIs, ReadPartIs, ReadLicenseIs, ReadOfferedIs, UpsertIs, AnswerIs, GiveUpIs
  <2> QED BY <1>7, <2>1 DEF OthersSame, Ask, ReadPart, ReadLicense, ReadOffered, Upsert, Answer, GiveUp
<1>8. CASE Ask(b)
  <2>1. calls'[b] = [NoCall EXCEPT !.step = "reading", !.known = held.version, !.awaited = TRUE]
    BY <1>1, <1>8 DEF Ask, TypeOK, KnownVersion
  <2>2. UNCHANGED held
    BY <1>8 DEF Ask
  <2>3. calls'[b].known = held.version /\ calls'[b].step = "reading"
    BY <2>1 DEF NoCall
  <2> QED BY <2>2, <2>3
<1>9. CASE ReadPart(b)
  <2>1. calls[b] \in Call /\ calls \in [Slots -> Call]
    BY <1>1 DEF TypeOK
  <2>2. /\ calls'[b].known = calls[b].known /\ calls'[b].awaited = calls[b].awaited
        /\ calls'[b].step = "reading" /\ UNCHANGED held
    BY <1>9, <2>1 DEF ReadPart, Call
  <2> QED BY <1>2, <2>2
<1>10. CASE ReadLicense(b)
  <2>1. Goes(b, "offering") /\ UNCHANGED held
    BY <1>1, <1>10, ReadLicenseIs DEF ReadLicense
  <2> QED BY <1>2, <2>1 DEF Goes
<1>11. CASE ReadOffered(b)
  <2>1. UNCHANGED held
    BY <1>11 DEF ReadOffered
  <2>2. CASE Goes(b, "ready") /\ calls'[b].version = offered.version
    BY <1>1, <1>2, <2>1, <2>2 DEF Goes
  <2>3. CASE Goes(b, "writing")
    BY <1>2, <2>1, <2>3 DEF Goes
  <2> QED BY <1>1, <1>11, <2>2, <2>3, ReadOfferedIs
<1>12. CASE Upsert(b)
  <2> DEFINE next == offered.version + 1
  <2>1. UNCHANGED held /\ next \in Nat /\ held.version <= next
    BY <1>1, <1>12 DEF Upsert
  <2>2. \/ Goes(b, "same") /\ calls'[b].version = offered.version
        \/ Goes(b, "wrote") /\ calls'[b].version = next
    BY <1>1, <1>12, UpsertIs
  <2> HIDE DEF next
  <2>3. CASE Goes(b, "same") /\ calls'[b].version = offered.version
    BY <1>1, <1>2, <2>1, <2>3 DEF Goes
  <2>4. CASE Goes(b, "wrote") /\ calls'[b].version = next
    BY <1>2, <2>1, <2>4 DEF Goes
  <2> QED BY <2>2, <2>3, <2>4
<1>13. CASE Answer(b)
  <2>1. /\ UNCHANGED held /\ calls[b].step \in {"ready", "same", "wrote"}
        /\ Goes(b, "done") /\ calls'[b].version = calls[b].version
    BY <1>1, <1>13, AnswerIs, NoCallIs DEF Answer
  <2> QED BY <1>2, <2>1 DEF Goes
<1>14. CASE GiveUp(b)
  BY <1>1, <1>14, GiveUpIs
<1> QED
  BY <1>3, <1>4, <1>5, <1>6, <1>7, <1>8, <1>9, <1>10, <1>11, <1>12, <1>13, <1>14, StepIs

\* The device is answered with a newer bundle, or truly told that it holds the parts as they were
\* read for it: a bundle that arrives whole is never refused for being old, and one that is not
\* sent is not missed (bundle.ts, client: acceptBundle; core-foundation rule 11).  HoldsCurrent and
\* RefusalEnds rest on it beside their fairness.
THEOREM AnswersAreOfUse == Spec => []NoAnswerIsStale
<1>1. Spec => []Asked
  BY Invariant, InitAsked, AskedStep, PTL DEF Spec
<1>2. IInv /\ Asked => NoAnswerIsStale
  <2> SUFFICES ASSUME IInv, Asked, NEW c \in Slots, Answered(c), ~Newer(c)
               PROVE  /\ calls[c].version = calls[c].known /\ held.version > 0
                      /\ Digest(held.seen) = Digest(calls[c].seen)
    BY DEF NoAnswerIsStale
  <2>1. calls[c].awaited /\ calls[c].step = "done"
    BY DEF Answered
  <2>2. held.version \in Nat /\ calls[c].version \in Nat
    BY DEF IInv, TypeOK, Call
  <2>3. calls[c].known = held.version /\ calls[c].version = held.version
    BY <2>1, <2>2 DEF Asked, Newer
  <2> DEFINE x == Pair(calls[c].version, Digest(calls[c].seen))
  <2>4. x \in Named /\ x.version = held.version /\ x.digest = Digest(calls[c].seen)
    BY <2>1, <2>3, NamedIs DEF Pair
  <2>5. held.version > 0
    <3>1. x.version \in 1..offered.version
      BY <2>4 DEF IInv, OneContent
    <3> QED BY <2>2, <2>4, <3>1
  <2>6. PICK a \in signed : a.version = held.version /\ a.digest = Digest(held.seen)
    BY <2>5 DEF IInv, TakesSigned
  <2> DEFINE y == Pair(a.version, a.digest)
  <2>7. y \in Named /\ y.version = held.version /\ y.digest = Digest(held.seen)
    BY <2>6, NamedIs DEF Pair
  <2> HIDE DEF x, y
  <2>8. Digest(held.seen) = Digest(calls[c].seen)
    BY <2>4, <2>7 DEF IInv, OneContent
  <2> QED BY <2>3, <2>5, <2>8
<1> QED BY Invariant, <1>1, <1>2, PTL
=============================================================================
