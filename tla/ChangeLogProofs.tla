-------------------------- MODULE ChangeLogProofs ---------------------------
(***************************************************************************)
(* Safety of ChangeLog for every set of writers, devices and entities, and *)
(* every size of a page.                                                   *)
(***************************************************************************)
EXTENDS ChangeLog, Integers, TLAPS, FiniteSetTheorems, WellFoundedInduction

USE ChangeLogAssumption

-----------------------------------------------------------------------------
(* The inductive invariant. *)

\* Who holds a row, and what it made of it.
RowLocks ==
  /\ \A v, w \in Writers, e \in Entities : wrote[v][e] > 0 /\ wrote[w][e] > 0 => v = w
  /\ \A w \in Writers, e \in Entities : wrote[w][e] > 0 => wrote[w][e] = rows[e] + 1

\* Who holds the counter, and the numbers it took: the next ones, each once.
CounterLock ==
  /\ \A v, w \in Writers : mine[v] > 0 /\ mine[w] > 0 => v = w
  /\ \A w \in Writers : mine[w] = 0 => said[w] = {}
  /\ \A w \in Writers : mine[w] > 0 =>
       /\ counter < mine[w]
       /\ {c.seq : c \in said[w]} = (counter + 1)..mine[w]
       /\ \A b, c \in said[w] : b.seq = c.seq => b = c

\* A transaction says of a row what it wrote, once.
SaysWhatItWrote ==
  \A w \in Writers : \A c \in said[w] :
    /\ wrote[w][c.entity] > 0
    /\ c.row = wrote[w][c.entity]
    /\ \A b \in said[w] : b.entity = c.entity => b = c

\* A page holds the changes after the cursor up to its last one, all of them.
PagesWhole ==
  \A d \in Devices :
    /\ page[d] \subseteq changes
    /\ \A c \in page[d] : cursor[d] < c.seq
    /\ \A c \in page[d], b \in changes : cursor[d] < b.seq /\ b.seq <= c.seq => b \in page[d]

Finite == IsFiniteSet(changes) /\ \A w \in Writers : IsFiniteSet(said[w])

Server == Gapless /\ RowLocks /\ CounterLock /\ SaysWhatItWrote /\ LogTellsRows /\ Finite

IInv == TypeOK /\ Server /\ PagesWhole /\ NothingMissed

-----------------------------------------------------------------------------
(* The last change of a set. *)

\* Every set of numbers has a least one.
LEMMA LeastExists ==
  ASSUME NEW T \in SUBSET Nat, T # {}
  PROVE  \E x \in T : \A y \in T : x <= y
<1> DEFINE R == OpToRel(<, Nat)
<1>1. IsWellFoundedOn(R, Nat)
  BY NatLessThanWellFounded
<1>2. \E x \in T : \A y \in T : ~ (<<y, x>> \in R)
  <2> HIDE DEF R
  <2> QED BY <1>1, WFMin
<1>3. PICK x \in T : \A y \in T : ~ (<<y, x>> \in R)
  BY <1>2
<1>4. \A y \in T : <<y, x>> \in Nat \X Nat
  OBVIOUS
<1>5. \A y \in T : ~(y < x)
  BY <1>3, <1>4 DEF OpToRel
<1>6. \A y \in T : x <= y
  <2> HIDE DEF R
  <2> QED BY <1>5
<1> QED BY <1>6, Zenon

\* A set of changes, none past n, has one that is not before another.
LEMMA LastExists ==
  ASSUME NEW S \in SUBSET Change, S # {}, NEW n \in Nat, \A c \in S : c.seq <= n
  PROVE  \E c \in S : \A b \in S : b.seq <= c.seq
<1> DEFINE T == {n - c.seq : c \in S}
<1>1. \A c \in S : c.seq \in Nat /\ n - c.seq \in Nat
  BY DEF Change
<1>2. T \in SUBSET Nat
  BY <1>1
<1>3. T # {}
  <2>1. PICK c \in S : TRUE
    OBVIOUS
  <2> QED BY <2>1, Zenon
<1>4. PICK x \in T : \A y \in T : x <= y
  <2> HIDE DEF T
  <2> QED BY <1>2, <1>3, LeastExists
<1>5. PICK c \in S : x = n - c.seq
  OBVIOUS
<1>6. \A b \in S : b.seq <= c.seq
  <2> TAKE b \in S
  <2>1. n - b.seq \in T
    OBVIOUS
  <2>2. n - c.seq <= n - b.seq
    BY <1>4, <1>5, <2>1
  <2> HIDE DEF T
  <2> QED BY <1>1, <2>2
<1> QED BY <1>6, Zenon

\* What the changes of a set that name e come to: where numbers tell changes apart, the last of
\* them is the one that the others are not after.
LEMMA LastIs ==
  ASSUME NEW S \in SUBSET Change, NEW e \in Entities, NEW n \in Nat,
         \A c \in S : c.seq <= n,
         \A b, c \in S : b.seq = c.seq => b = c
  PROVE  /\ Names(S, e) # {} => LastOf(S, e) \in Names(S, e)
         /\ \A b \in Names(S, e) : b.seq <= LastOf(S, e).seq
         /\ \A c \in Names(S, e) : (\A b \in Names(S, e) : b.seq <= c.seq) => LastOf(S, e) = c
<1> DEFINE N == Names(S, e)
<1>1. N \in SUBSET S /\ N \in SUBSET Change /\ \A c \in N : c.seq \in Nat
  BY DEF Names, Change
<1>2. CASE N = {}
  BY <1>2
<1>3. CASE N # {}
  <2>1. \E c \in N : \A b \in N : b.seq <= c.seq
    <3> HIDE DEF N
    <3> QED BY <1>1, <1>3, LastExists
  <2>2. LastOf(S, e) \in N /\ \A b \in N : b.seq <= LastOf(S, e).seq
    BY <2>1 DEF LastOf
  <2>3. ASSUME NEW c \in N, \A b \in N : b.seq <= c.seq
        PROVE  LastOf(S, e) = c
    <3>1. LastOf(S, e).seq = c.seq
      BY <1>1, <2>2, <2>3
    <3> QED BY <1>1, <2>2, <3>1
  <2> QED BY <2>2, <2>3
<1> QED BY <1>2, <1>3

\* Applying Q after P comes to applying both at once, when Q is later.
LEMMA AppliedAfter ==
  ASSUME NEW P \in SUBSET Change, NEW Q \in SUBSET Change, NEW e \in Entities, NEW n \in Nat,
         \A c \in P \cup Q : c.seq <= n,
         \A b, c \in P \cup Q : b.seq = c.seq => b = c,
         \A b \in P, c \in Q : b.seq < c.seq,
         NEW old
  PROVE  Applied(P \cup Q, e, old) = Applied(Q, e, Applied(P, e, old))
<1> DEFINE B == P \cup Q
<1>1. B \in SUBSET Change /\ Names(B, e) = Names(P, e) \cup Names(Q, e)
  BY DEF Names
<1>2. CASE Names(Q, e) = {}
  <2>1. Names(B, e) = Names(P, e)
    BY <1>1, <1>2
  <2>2. LastOf(B, e) = LastOf(P, e)
    BY <2>1 DEF LastOf
  <2> QED BY <1>2, <2>1, <2>2 DEF Applied
<1>3. CASE Names(Q, e) # {}
  <2>1. /\ LastOf(Q, e) \in Names(Q, e)
        /\ \A b \in Names(Q, e) : b.seq <= LastOf(Q, e).seq
    BY <1>3, LastIs
  <2>2. LastOf(Q, e) \in Names(B, e)
    BY <1>1, <2>1
  <2>3. \A b \in Names(B, e) : b.seq <= LastOf(Q, e).seq
    <3>1. LastOf(Q, e) \in Q
      BY <2>1 DEF Names
    <3>2. \A b \in P : b.seq <= LastOf(Q, e).seq
      BY <3>1 DEF Change
    <3> QED BY <1>1, <2>1, <3>2 DEF Names
  <2>4. LastOf(B, e) = LastOf(Q, e)
    <3> HIDE DEF B
    <3>1. \A c \in B : c.seq <= n
      BY DEF B
    <3>2. \A b, c \in B : b.seq = c.seq => b = c
      BY DEF B
    <3> QED BY <1>1, <2>2, <2>3, <3>1, <3>2, LastIs
  <2>5. Names(B, e) # {}
    BY <2>2
  <2> QED BY <1>3, <2>4, <2>5 DEF Applied
<1> QED BY <1>2, <1>3

-----------------------------------------------------------------------------
(* The steps of a transaction. *)

\* The invariant holds before anything happened.
LEMMA InitInv == Init => IInv
<1> SUFFICES ASSUME Init PROVE IInv
  OBVIOUS
<1> USE DEF Init
<1>1. TypeOK
  BY DEF TypeOK
<1>2. Gapless
  BY DEF Gapless
<1>3. RowLocks /\ CounterLock /\ SaysWhatItWrote
  BY DEF RowLocks, CounterLock, SaysWhatItWrote
<1>4. LogTellsRows
  BY DEF LogTellsRows, Names
<1>5. Finite
  BY FS_EmptySet DEF Finite
<1>6. PagesWhole
  BY DEF PagesWhole
<1>7. NothingMissed
  BY DEF NothingMissed, Applied, Names
<1> QED BY <1>1, <1>2, <1>3, <1>4, <1>5, <1>6, <1>7 DEF IInv, Server

\* A row is written by the one transaction that holds it.
LEMMA WriteStep ==
  ASSUME TypeOK, Server, NEW w \in Writers, NEW e \in Entities, Write(w, e)
  PROVE  Server'
<1> USE DEF Write, Server
<1>1. /\ wrote' = [wrote EXCEPT ![w][e] = rows[e] + 1]
      /\ UNCHANGED <<rows, changes, counter, said, mine>>
  BY DEF serverVars
<1>2. rows[e] \in Nat /\ wrote \in [Writers -> [Entities -> Nat]]
  BY DEF TypeOK
<1>3. \A v \in Writers, f \in Entities :
        wrote'[v][f] = IF v = w /\ f = e THEN rows[e] + 1 ELSE wrote[v][f]
  BY <1>1, <1>2
<1>4. RowLocks'
  BY <1>1, <1>2, <1>3 DEF RowLocks, RowFree
<1>5. SaysWhatItWrote'
  <2>1. \A v \in Writers : \A c \in said[v] : c.entity \in Entities
    BY DEF TypeOK, Change
  <2> QED BY <1>1, <1>3, <2>1 DEF SaysWhatItWrote
<1>6. Gapless' /\ LogTellsRows' /\ CounterLock' /\ Finite'
  BY <1>1 DEF Gapless, LogTellsRows, CounterLock, Finite, Names
<1> QED BY <1>4, <1>5, <1>6

\* The change a transaction appends, and its number.
Said(w, e) == [seq |-> NextSeq(w), entity |-> e, row |-> RowAfter(w, e)]

\* The change a transaction appends carries the next number.
LEMMA SaidIs ==
  ASSUME TypeOK, Server, NEW w \in Writers, NEW e \in Entities, Record(w, e)
  PROVE  /\ Said(w, e) \in Change
         /\ NextSeq(w) = (IF mine[w] > 0 THEN mine[w] ELSE counter) + 1
         /\ NextSeq(w) \in Nat /\ NextSeq(w) > counter
         /\ mine' = [mine EXCEPT ![w] = NextSeq(w)]
         /\ said' = [said EXCEPT ![w] = @ \cup {Said(w, e)}]
         /\ UNCHANGED <<rows, changes, counter, wrote>>
<1>1. mine[w] \in Nat /\ counter \in Nat /\ wrote[w][e] \in Nat
  BY DEF TypeOK
<1>2. mine[w] > 0 => counter < mine[w]
  BY DEF Server, CounterLock
<1>3. wrote[w][e] > 0
  BY DEF Record, Unsaid
<1>4. NextSeq(w) \in Nat /\ NextSeq(w) > counter
  BY <1>1, <1>2 DEF NextSeq
<1>5. Said(w, e) \in Change
  BY <1>1, <1>3, <1>4 DEF Said, Change, RowAfter
<1> QED BY <1>4, <1>5 DEF Record, Said, NextSeq, serverVars

\* Appending a change takes the next number under the counter's lock.
LEMMA RecordStep ==
  ASSUME TypeOK, Server, NEW w \in Writers, NEW e \in Entities, Record(w, e)
  PROVE  Server'
<1> DEFINE s == Said(w, e)
           n == NextSeq(w)
<1>1. /\ s \in Change
      /\ n = (IF mine[w] > 0 THEN mine[w] ELSE counter) + 1
      /\ n \in Nat /\ n > counter
      /\ mine' = [mine EXCEPT ![w] = n]
      /\ said' = [said EXCEPT ![w] = @ \cup {s}]
      /\ UNCHANGED <<rows, changes, counter, wrote>>
  BY SaidIs
<1>2. s.seq = n /\ s.entity = e /\ s.row = wrote[w][e]
  BY DEF Said, RowAfter
<1>3. /\ wrote[w][e] > 0
      /\ \A c \in said[w] : c.entity # e
      /\ \A v \in Writers \ {w} : mine[v] = 0
  BY DEF Record, Unsaid, CounterFree
<1>4. mine \in [Writers -> Nat] /\ said \in [Writers -> SUBSET Change] /\ counter \in Nat
  BY DEF TypeOK
<1> HIDE DEF s, n
<1>5. /\ mine'[w] = n /\ said'[w] = said[w] \cup {s}
      /\ \A v \in Writers \ {w} : mine'[v] = mine[v] /\ said'[v] = said[v]
  BY <1>1, <1>4
<1>6. CounterLock'
  <2>1. \A v \in Writers \ {w} : said[v] = {} /\ mine[v] = 0
    BY <1>3 DEF Server, CounterLock
  <2>2. {c.seq : c \in said[w]} = (counter + 1)..(n - 1)
    <3>1. CASE mine[w] = 0
      <4>1. said[w] = {}
        BY <3>1 DEF Server, CounterLock
      <4>2. n - 1 = counter
        BY <1>1, <1>4, <3>1
      <4> QED BY <1>4, <4>1, <4>2
    <3>2. CASE mine[w] > 0
      <4>1. n - 1 = mine[w]
        BY <1>1, <1>4, <3>2
      <4> QED BY <3>2, <4>1 DEF Server, CounterLock
    <3> QED BY <1>4, <3>1, <3>2
  <2>3. \A b, c \in said[w] : b.seq = c.seq => b = c
    BY <1>4 DEF Server, CounterLock
  <2>4. \A c \in said[w] : c.seq # n
    <3> SUFFICES ASSUME NEW c \in said[w] PROVE c.seq # n
      OBVIOUS
    <3>1. c.seq \in (counter + 1)..(n - 1)
      BY <2>2
    <3> QED BY <1>1, <1>4, <3>1
  <2>5. {c.seq : c \in said'[w]} = (counter + 1)..n
    <3>1. {c.seq : c \in said'[w]} = {c.seq : c \in said[w]} \cup {n}
      BY <1>2, <1>5
    <3>2. ((counter + 1)..(n - 1)) \cup {n} = (counter + 1)..n
      BY <1>1, <1>4
    <3> QED BY <2>2, <3>1, <3>2
  <2>6. \A b, c \in said'[w] : b.seq = c.seq => b = c
    BY <1>2, <1>5, <2>3, <2>4
  <2>7. \A v \in Writers : mine'[v] = 0 => said'[v] = {}
    BY <1>1, <1>4, <1>5, <2>1
  <2>8. \A v \in Writers : mine'[v] > 0 => v = w
    BY <1>5, <2>1
  <2>9. \A v \in Writers : mine'[v] > 0 =>
          /\ counter' < mine'[v]
          /\ {c.seq : c \in said'[v]} = (counter' + 1)..mine'[v]
          /\ \A b, c \in said'[v] : b.seq = c.seq => b = c
    BY <1>1, <1>5, <2>5, <2>6, <2>8
  <2> QED BY <2>7, <2>8, <2>9 DEF CounterLock
<1>7. SaysWhatItWrote'
  BY <1>1, <1>2, <1>3, <1>5 DEF Server, SaysWhatItWrote
<1>8. Finite'
  <2>1. IsFiniteSet(said[w] \cup {s})
    BY FS_AddElement DEF Server, Finite
  <2>2. \A v \in Writers : IsFiniteSet(said'[v])
    <3> TAKE v \in Writers
    <3>1. CASE v = w
      BY <1>5, <2>1, <3>1
    <3>2. CASE v # w
      BY <1>5, <3>2 DEF Server, Finite
    <3> QED BY <3>1, <3>2
  <2> QED BY <1>1, <2>2 DEF Server, Finite
<1>9. Gapless' /\ LogTellsRows' /\ RowLocks'
  BY <1>1 DEF Server, Gapless, LogTellsRows, RowLocks, Names
<1> QED BY <1>6, <1>7, <1>8, <1>9 DEF Server

\* What a transaction that ended left of its own.
LEMMA EndedIs ==
  ASSUME TypeOK, NEW w \in Writers, Ended(w)
  PROVE  /\ \A e \in Entities : wrote'[w][e] = 0
         /\ said'[w] = {} /\ mine'[w] = 0
         /\ \A v \in Writers \ {w} :
              wrote'[v] = wrote[v] /\ said'[v] = said[v] /\ mine'[v] = mine[v]
  BY DEF Ended, TypeOK

\* What rolls back was seen by nobody.
LEMMA AbortStep ==
  ASSUME TypeOK, Server, NEW w \in Writers, Abort(w)
  PROVE  Server'
<1>1. Ended(w) /\ UNCHANGED <<rows, changes, counter>>
  BY DEF Abort, serverVars
<1>2. /\ \A e \in Entities : wrote'[w][e] = 0
      /\ said'[w] = {} /\ mine'[w] = 0
      /\ \A v \in Writers \ {w} :
           wrote'[v] = wrote[v] /\ said'[v] = said[v] /\ mine'[v] = mine[v]
  BY <1>1, EndedIs
<1>3. RowLocks'
  BY <1>1, <1>2 DEF Server, RowLocks
<1>4. CounterLock'
  BY <1>1, <1>2 DEF Server, CounterLock
<1>5. SaysWhatItWrote'
  BY <1>2 DEF Server, SaysWhatItWrote
<1>6. Finite'
  BY <1>1, <1>2, FS_EmptySet DEF Server, Finite
<1>7. Gapless' /\ LogTellsRows'
  BY <1>1 DEF Server, Gapless, LogTellsRows, Names
<1> QED BY <1>3, <1>4, <1>5, <1>6, <1>7 DEF Server

\* What commits: numbers after the counter, up to the new one.
LEMMA CommitIs ==
  ASSUME TypeOK, Server, NEW w \in Writers, Commit(w)
  PROVE  /\ changes' = changes \cup said[w]
         /\ counter' \in Nat /\ counter <= counter'
         /\ {c.seq : c \in said[w]} = (counter + 1)..counter'
         /\ \A b, c \in said[w] : b.seq = c.seq => b = c
         /\ \A e \in Entities : wrote[w][e] > 0 => \E c \in said[w] : c.entity = e
<1>1. mine[w] \in Nat /\ counter \in Nat /\ wrote[w] \in [Entities -> Nat]
  BY DEF TypeOK
<1>2. CASE mine[w] > 0
  BY <1>1, <1>2 DEF Commit, Server, CounterLock, Unsaid
<1>3. CASE mine[w] = 0
  <2>1. said[w] = {} /\ counter' = counter
    BY <1>1, <1>3 DEF Commit, Server, CounterLock
  <2>2. (counter + 1)..counter' = {}
    BY <1>1, <2>1
  <2> QED BY <1>1, <2>1, <2>2 DEF Commit, Unsaid
<1> QED BY <1>1, <1>2, <1>3

\* What commits comes after everything committed before.
LEMMA CommitStep ==
  ASSUME TypeOK, Server, NEW w \in Writers, Commit(w)
  PROVE  Server'
<1>1. /\ changes' = changes \cup said[w]
      /\ counter' \in Nat /\ counter <= counter'
      /\ {c.seq : c \in said[w]} = (counter + 1)..counter'
      /\ \A b, c \in said[w] : b.seq = c.seq => b = c
      /\ \A e \in Entities : wrote[w][e] > 0 => \E c \in said[w] : c.entity = e
  BY CommitIs
<1>2. /\ \A e \in Entities : wrote'[w][e] = 0
      /\ said'[w] = {} /\ mine'[w] = 0
      /\ \A v \in Writers \ {w} :
           wrote'[v] = wrote[v] /\ said'[v] = said[v] /\ mine'[v] = mine[v]
  BY EndedIs DEF Commit
<1>3. rows' = [e \in Entities |-> IF wrote[w][e] > 0 THEN wrote[w][e] ELSE rows[e]]
  BY DEF Commit
<1>4. counter \in Nat /\ changes \subseteq Change /\ rows \in [Entities -> Nat]
      /\ wrote \in [Writers -> [Entities -> Nat]] /\ mine \in [Writers -> Nat]
      /\ said[w] \subseteq Change
  BY DEF TypeOK
<1>5. {c.seq : c \in changes} = 1..counter /\ \A b, c \in changes : b.seq = c.seq => b = c
  BY DEF Server, Gapless
<1>6. \A b \in changes, c \in said[w] : b.seq < c.seq
  <2> SUFFICES ASSUME NEW b \in changes, NEW c \in said[w] PROVE b.seq < c.seq
    OBVIOUS
  <2>1. b.seq \in 1..counter /\ c.seq \in (counter + 1)..counter'
    BY <1>1, <1>5
  <2> QED BY <1>1, <1>4, <2>1
<1>7. Gapless'
  <2>1. {c.seq : c \in changes'} = (1..counter) \cup ((counter + 1)..counter')
    BY <1>1, <1>5
  <2>2. (1..counter) \cup ((counter + 1)..counter') = 1..counter'
    BY <1>1, <1>4
  <2>3. \A c \in changes \cup said[w] : c.seq \in Nat
    BY <1>4 DEF Change
  <2>4. \A b, c \in changes' : b.seq = c.seq => b = c
    BY <1>1, <1>5, <1>6, <2>3
  <2> QED BY <2>1, <2>2, <2>4 DEF Gapless
<1>8. RowLocks'
  <2>1. \A u, v \in Writers, e \in Entities : wrote'[u][e] > 0 /\ wrote'[v][e] > 0 => u = v
    BY <1>2 DEF Server, RowLocks
  <2>2. ASSUME NEW v \in Writers, NEW e \in Entities, wrote'[v][e] > 0
        PROVE  wrote'[v][e] = rows'[e] + 1
    <3>1. v # w /\ wrote[v][e] > 0 /\ wrote'[v][e] = wrote[v][e]
      BY <1>2, <2>2
    <3>2. ~(wrote[w][e] > 0)
      BY <3>1 DEF Server, RowLocks
    <3> QED BY <1>3, <3>1, <3>2 DEF Server, RowLocks
  <2> QED BY <2>1, <2>2 DEF RowLocks
<1>9. CounterLock'
  <2>1. ASSUME NEW v \in Writers, mine'[v] > 0
        PROVE  /\ v # w /\ mine[v] > 0 /\ mine[w] = 0
               /\ mine'[v] = mine[v] /\ said'[v] = said[v]
    BY <1>2, <1>4, <2>1 DEF Server, CounterLock
  <2>2. mine[w] = 0 => counter' = counter
    BY DEF Commit
  <2> QED BY <1>2, <2>1, <2>2 DEF Server, CounterLock
<1>10. SaysWhatItWrote'
  BY <1>2 DEF Server, SaysWhatItWrote
<1>11. Finite'
  BY <1>1, <1>2, FS_EmptySet, FS_Union DEF Server, Finite
<1>12. LogTellsRows'
  <2> SUFFICES ASSUME NEW e \in Entities
               PROVE  /\ {c.row : c \in Names(changes', e)} = 1..rows'[e]
                      /\ \A b, c \in Names(changes', e) : b.seq < c.seq => b.row < c.row
    BY DEF LogTellsRows
  <2>1. /\ {c.row : c \in Names(changes, e)} = 1..rows[e]
        /\ \A b, c \in Names(changes, e) : b.seq < c.seq => b.row < c.row
    BY DEF Server, LogTellsRows
  <2>2. Names(changes', e) = Names(changes, e) \cup Names(said[w], e)
    BY <1>1 DEF Names
  <2>3. CASE wrote[w][e] = 0
    <3>1. Names(said[w], e) = {}
      BY <2>3 DEF Server, SaysWhatItWrote, Names
    <3>2. rows'[e] = rows[e]
      BY <1>3, <2>3
    <3> QED BY <2>1, <2>2, <3>1, <3>2
  <2>4. CASE wrote[w][e] > 0
    <3>1. rows'[e] = rows[e] + 1 /\ wrote[w][e] = rows[e] + 1 /\ rows[e] \in Nat
      BY <1>3, <1>4, <2>4 DEF Server, RowLocks
    <3>2. PICK c \in said[w] : c.entity = e
      BY <1>1, <2>4
    <3>3. Names(said[w], e) = {c} /\ c.row = rows[e] + 1
      BY <3>1, <3>2 DEF Server, SaysWhatItWrote, Names
    <3>4. {b.row : b \in Names(changes', e)} = (1..rows[e]) \cup {rows[e] + 1}
      BY <2>1, <2>2, <3>3
    <3>5. (1..rows[e]) \cup {rows[e] + 1} = 1..(rows[e] + 1)
      BY <3>1
    <3>6. \A b \in Names(changes, e) : b.seq < c.seq /\ b.seq \in Nat /\ c.seq \in Nat
      BY <1>4, <1>6 DEF Names, Change
    <3>7. \A b \in Names(changes, e) : b.row \in 1..rows[e]
      BY <2>1
    <3>8. \A b \in Names(changes, e) : b.row < c.row
      BY <3>1, <3>3, <3>7
    <3>9. \A a, b \in Names(changes', e) : a.seq < b.seq => a.row < b.row
      <4> SUFFICES ASSUME NEW a \in Names(changes, e) \cup {c},
                          NEW b \in Names(changes, e) \cup {c}, a.seq < b.seq
                   PROVE  a.row < b.row
        BY <2>2, <3>3
      <4>1. CASE a \in Names(changes, e) /\ b \in Names(changes, e)
        BY <2>1, <4>1
      <4>2. CASE a \in Names(changes, e) /\ b = c
        BY <3>8, <4>2
      <4>3. CASE a = c /\ b \in Names(changes, e)
        BY <3>6, <4>3
      <4>4. CASE a = c /\ b = c
        BY <1>4, <4>4 DEF Change
      <4> QED BY <4>1, <4>2, <4>3, <4>4
    <3> QED BY <3>1, <3>4, <3>5, <3>9
  <2> QED BY <1>4, <2>3, <2>4
<1> QED BY <1>7, <1>8, <1>9, <1>10, <1>11, <1>12 DEF Server

-----------------------------------------------------------------------------
(* The devices follow. *)

\* Numbers of committed changes are at most the counter, and tell them apart.
LEMMA LogNumbers ==
  ASSUME TypeOK, Server
  PROVE  /\ \A c \in changes : c.seq \in Nat /\ c.seq <= counter
         /\ \A b, c \in changes : b.seq = c.seq => b = c
<1>1. \A c \in changes : c.seq \in {b.seq : b \in changes}
  OBVIOUS
<1>2. {b.seq : b \in changes} = 1..counter /\ counter \in Nat
  BY DEF Server, Gapless, TypeOK
<1>3. \A c \in changes : c.seq \in Nat /\ c.seq <= counter
  BY <1>1, <1>2
<1> QED BY <1>3 DEF Server, Gapless

\* A log that grows past its counter changes nothing for a device.
LEMMA GrowStep ==
  ASSUME IInv, changes \subseteq changes', changes' \subseteq Change,
         \A c \in changes' \ changes : c.seq > counter,
         counter' \in Nat, counter <= counter', UNCHANGED deviceVars
  PROVE  PagesWhole' /\ NothingMissed'
<1>1. UNCHANGED <<cursor, local, page>>
  BY DEF deviceVars
<1>2. counter \in Nat /\ cursor \in [Devices -> Nat]
  BY DEF IInv, TypeOK
<1>3. \A c \in changes : c.seq \in Nat /\ c.seq <= counter
  BY LogNumbers DEF IInv
<1>4. \A c \in changes' : c.seq \in Nat
  BY DEF Change
<1>5. PagesWhole'
  <2>1. ASSUME NEW d \in Devices, NEW c \in page[d], NEW b \in changes',
               cursor[d] < b.seq, b.seq <= c.seq
        PROVE  b \in page[d]
    <3>1. c \in changes
      BY DEF IInv, PagesWhole
    <3>2. b \in changes
      BY <1>2, <1>3, <1>4, <2>1, <3>1
    <3> QED BY <2>1, <3>2 DEF IInv, PagesWhole
  <2> QED BY <1>1, <2>1 DEF IInv, PagesWhole
<1>6. NothingMissed'
  <2> SUFFICES ASSUME NEW d \in Devices
               PROVE  /\ cursor[d] <= counter'
                      /\ \A e \in Known :
                           local[d][e] = Applied({c \in changes' : c.seq <= cursor[d]}, e, 0)
    BY <1>1 DEF NothingMissed
  <2>1. cursor[d] \in Nat /\ cursor[d] <= counter
    BY <1>2 DEF IInv, NothingMissed
  <2>2. {c \in changes' : c.seq <= cursor[d]} = {c \in changes : c.seq <= cursor[d]}
    BY <1>2, <1>4, <2>1
  <2> QED BY <1>2, <2>1, <2>2 DEF IInv, NothingMissed
<1> QED BY <1>5, <1>6

\* The first changes of a set hold, with one of them, every one that is not after it.
LEMMA FirstWhole ==
  ASSUME NEW S \in SUBSET Change, IsFiniteSet(S),
         NEW c \in First(S), NEW b \in S, b.seq <= c.seq
  PROVE  b \in First(S)
<1> DEFINE B == {a \in S : a.seq < b.seq}
           C == {a \in S : a.seq < c.seq}
<1>1. c \in S /\ Cardinality(C) < PageLimit
  BY DEF First
<1>2. B \subseteq C
  BY <1>1 DEF Change
<1>3. IsFiniteSet(C) /\ IsFiniteSet(B)
  BY FS_Subset
<1>4. Cardinality(B) <= Cardinality(C) /\ Cardinality(B) \in Nat /\ Cardinality(C) \in Nat
  <2> HIDE DEF B, C
  <2> QED BY <1>2, <1>3, FS_Subset, FS_CardinalityType
<1>5. Cardinality(B) < PageLimit
  <2> HIDE DEF B, C
  <2> QED BY <1>1, <1>4, ChangeLogAssumption
<1> QED BY <1>5 DEF First

\* A page read at the server holds the changes after the cursor without a hole.
LEMMA PullStep ==
  ASSUME IInv, NEW d \in Devices, Pull(d)
  PROVE  PagesWhole' /\ NothingMissed'
<1> DEFINE S == {c \in changes : c.seq > cursor[d]}
<1>1. /\ page' = [page EXCEPT ![d] = First(S)]
      /\ UNCHANGED <<changes, counter, cursor, local>>
  BY DEF Pull, Page, serverVars
<1>2. page \in [Devices -> SUBSET Change] /\ changes \subseteq Change
  BY DEF IInv, TypeOK
<1>3. IsFiniteSet(S) /\ S \in SUBSET Change
  BY <1>2, FS_Subset DEF IInv, Server, Finite
<1>4. page'[d] = First(S) /\ \A v \in Devices \ {d} : page'[v] = page[v]
  BY <1>1, <1>2
<1>5. First(S) \subseteq S
  BY DEF First
<1>6. \A c \in First(S), b \in S : b.seq <= c.seq => b \in First(S)
  <2> HIDE DEF S
  <2> QED BY <1>3, FirstWhole
<1>7. PagesWhole'
  <2> SUFFICES ASSUME NEW v \in Devices
               PROVE  /\ page'[v] \subseteq changes
                      /\ \A c \in page'[v] : cursor[v] < c.seq
                      /\ \A c \in page'[v], b \in changes :
                           cursor[v] < b.seq /\ b.seq <= c.seq => b \in page'[v]
    BY <1>1 DEF PagesWhole
  <2>1. CASE v = d
    <3>1. \A c \in S : c \in changes /\ cursor[d] < c.seq
      BY <1>2 DEF IInv, TypeOK, Change
    <3>2. \A b \in changes : cursor[d] < b.seq => b \in S
      BY <1>2 DEF IInv, TypeOK, Change
    <3> HIDE DEF S
    <3> QED BY <1>4, <1>5, <1>6, <2>1, <3>1, <3>2
  <2>2. CASE v # d
    BY <1>4, <2>2 DEF IInv, PagesWhole
  <2> QED BY <2>1, <2>2
<1>8. NothingMissed'
  BY <1>1 DEF IInv, NothingMissed
<1> QED BY <1>7, <1>8

\* The cursor of a page that is not empty is the number of the last of its changes.
LEMMA PageCursorIs ==
  ASSUME NEW P \in SUBSET Change, NEW n \in Nat, \A c \in P : c.seq <= n, P # {}, NEW k
  PROVE  \E c \in P : PageCursor(k, P) = c.seq /\ \A b \in P : b.seq <= c.seq
<1>1. \E c \in P : \A b \in P : b.seq <= c.seq
  BY LastExists
<1> DEFINE last == CHOOSE c \in P : \A b \in P : b.seq <= c.seq
<1>2. last \in P /\ \A b \in P : b.seq <= last.seq
  BY <1>1
<1>3. PageCursor(k, P) = last.seq
  BY DEF PageCursor
<1> HIDE DEF last
<1> QED BY <1>2, <1>3

\* The device of a page: its rows and its cursor once the page is applied.
LEMMA ApplyIs ==
  ASSUME IInv, NEW d \in Devices, Apply(d)
  PROVE  /\ PageCursor(cursor[d], page[d]) \in Nat
         /\ cursor[d] <= PageCursor(cursor[d], page[d])
         /\ PageCursor(cursor[d], page[d]) <= counter
         /\ \A e \in Known :
              Applied(page[d], e, local[d][e]) =
                Applied({c \in changes : c.seq <= PageCursor(cursor[d], page[d])}, e, 0)
<1> DEFINE k == cursor[d]
           P == page[d]
           A == {c \in changes : c.seq <= k}
           n == PageCursor(k, P)
<1>1. k \in Nat /\ counter \in Nat /\ changes \subseteq Change /\ k <= counter
  BY DEF IInv, TypeOK, NothingMissed
<1>2. /\ P \subseteq changes
      /\ \A c \in P : k < c.seq
      /\ \A c \in P, b \in changes : k < b.seq /\ b.seq <= c.seq => b \in P
  BY DEF IInv, PagesWhole
<1>3. /\ \A c \in changes : c.seq \in Nat /\ c.seq <= counter
      /\ \A b, c \in changes : b.seq = c.seq => b = c
  BY LogNumbers DEF IInv
<1>4. \A e \in Known : local[d][e] = Applied(A, e, 0)
  BY DEF IInv, NothingMissed
<1>5. CASE P = {}
  <2>1. n = k
    BY <1>5 DEF PageCursor
  <2>2. \A e, old : Applied(P, e, old) = old
    BY <1>5 DEF Applied, Names
  <2> QED BY <1>1, <1>4, <2>1, <2>2
<1>6. CASE P # {}
  <2>0. PICK c \in P : n = c.seq /\ \A b \in P : b.seq <= c.seq
    <3> HIDE DEF P, k
    <3> QED BY <1>1, <1>2, <1>3, <1>6, PageCursorIs
  <2>1. n \in Nat /\ k < n /\ n <= counter
    BY <1>2, <1>3, <2>0
  <2>2. {b \in changes : b.seq <= n} = A \cup P
    <3>1. \A b \in changes : b.seq <= n => b \in A \/ b \in P
      BY <1>1, <1>2, <1>3, <2>0
    <3>2. \A b \in A \cup P : b \in changes /\ b.seq <= n
      <4>1. \A b \in A : b.seq <= n
        BY <1>1, <1>3, <2>1
      <4> HIDE DEF n
      <4> QED BY <1>2, <2>0, <4>1
    <3> HIDE DEF A, P, n
    <3> QED BY <3>1, <3>2
  <2>3. ASSUME NEW e \in Known
        PROVE  Applied(A \cup P, e, 0) = Applied(P, e, local[d][e])
    <3>1. A \in SUBSET Change /\ P \in SUBSET Change /\ e \in Entities
      BY <1>1, <1>2, ChangeLogAssumption
    <3>2. \A b \in A \cup P : b \in changes /\ b.seq <= counter
      BY <1>2, <1>3
    <3>3. \A b, a \in A \cup P : b.seq = a.seq => b = a
      BY <1>3, <3>2
    <3>4. \A b \in A, a \in P : b.seq < a.seq
      <4> SUFFICES ASSUME NEW b \in A, NEW a \in P PROVE b.seq < a.seq
        OBVIOUS
      <4>1. b.seq \in Nat /\ a.seq \in Nat /\ b.seq <= k /\ k < a.seq
        BY <1>2, <1>3
      <4> QED BY <1>1, <4>1
    <3>5. Applied(A \cup P, e, 0) = Applied(P, e, Applied(A, e, 0))
      <4> HIDE DEF A, P
      <4> QED BY <1>1, <3>1, <3>2, <3>3, <3>4, AppliedAfter
    <3> QED BY <1>4, <3>5
  <2> QED BY <1>1, <2>1, <2>2, <2>3
<1> QED BY <1>5, <1>6

\* Applying a page and moving the cursor leaves out nothing.
LEMMA ApplyStep ==
  ASSUME IInv, NEW d \in Devices, Apply(d)
  PROVE  PagesWhole' /\ NothingMissed'
<1> DEFINE n == PageCursor(cursor[d], page[d])
<1>1. /\ cursor' = [cursor EXCEPT ![d] = n]
      /\ local' = [local EXCEPT ![d] = [e \in Entities |-> Applied(page[d], e, local[d][e])]]
      /\ page' = [page EXCEPT ![d] = {}]
      /\ UNCHANGED <<changes, counter>>
  BY DEF Apply, PageGone, serverVars
<1>2. /\ cursor \in [Devices -> Nat] /\ page \in [Devices -> SUBSET Change]
      /\ local \in [Devices -> [Entities -> Nat]]
  BY DEF IInv, TypeOK
<1>3. /\ n <= counter
      /\ \A e \in Known : Applied(page[d], e, local[d][e]) =
                            Applied({c \in changes : c.seq <= n}, e, 0)
  BY ApplyIs
<1> HIDE DEF n
<1>4. /\ cursor'[d] = n /\ page'[d] = {}
      /\ \A e \in Entities : local'[d][e] = Applied(page[d], e, local[d][e])
      /\ \A v \in Devices \ {d} :
           cursor'[v] = cursor[v] /\ page'[v] = page[v] /\ local'[v] = local[v]
  BY <1>1, <1>2
<1>5. PagesWhole'
  BY <1>1, <1>4 DEF IInv, PagesWhole
<1>6. NothingMissed'
  <2> SUFFICES ASSUME NEW v \in Devices
               PROVE  /\ cursor'[v] <= counter
                      /\ \A e \in Known : local'[v][e] =
                           Applied({c \in changes : c.seq <= cursor'[v]}, e, 0)
    BY <1>1 DEF NothingMissed
  <2>1. CASE v = d
    BY <1>3, <1>4, <2>1, ChangeLogAssumption
  <2>2. CASE v # d
    BY <1>4, <2>2 DEF IInv, NothingMissed
  <2> QED BY <2>1, <2>2
<1> QED BY <1>5, <1>6

\* A page that fails leaves the device as it was.
LEMMA PageFailsStep ==
  ASSUME IInv, NEW d \in Devices, PageFails(d)
  PROVE  PagesWhole' /\ NothingMissed'
<1>1. page' = [page EXCEPT ![d] = {}] /\ UNCHANGED <<changes, counter, cursor, local>>
  BY DEF PageFails, PageGone, serverVars
<1>2. page \in [Devices -> SUBSET Change]
  BY DEF IInv, TypeOK
<1>3. page'[d] = {} /\ \A v \in Devices \ {d} : page'[v] = page[v]
  BY <1>1, <1>2
<1> QED BY <1>1, <1>3 DEF IInv, PagesWhole, NothingMissed

-----------------------------------------------------------------------------
(* Type correctness of each step. *)

\* The steps of a transaction keep the types.
LEMMA WriterTypes ==
  ASSUME IInv, NEW w \in Writers, WriterStep(w)
  PROVE  TypeOK'
<1> USE DEF TypeOK, IInv
<1>1. ASSUME NEW e \in Entities, Write(w, e)
      PROVE  TypeOK'
  <2>1. rows[e] + 1 \in Nat
    OBVIOUS
  <2>2. wrote' \in [Writers -> [Entities -> Nat]]
    BY <1>1, <2>1 DEF Write
  <2> QED BY <1>1, <2>2 DEF Write, serverVars, deviceVars
<1>2. ASSUME NEW e \in Entities, Record(w, e)
      PROVE  TypeOK'
  <2>1. /\ Said(w, e) \in Change /\ NextSeq(w) \in Nat
        /\ mine' = [mine EXCEPT ![w] = NextSeq(w)]
        /\ said' = [said EXCEPT ![w] = @ \cup {Said(w, e)}]
        /\ UNCHANGED <<rows, changes, counter, wrote>>
    BY <1>2, SaidIs
  <2>2. said' \in [Writers -> SUBSET Change] /\ mine' \in [Writers -> Nat]
    BY <2>1
  <2> QED BY <1>2, <2>1, <2>2 DEF Record, deviceVars
<1>3. ASSUME Ended(w)
      PROVE  /\ wrote' \in [Writers -> [Entities -> Nat]]
             /\ said' \in [Writers -> SUBSET Change]
             /\ mine' \in [Writers -> Nat]
  BY <1>3 DEF Ended
<1>4. CASE Commit(w)
  <2>1. changes' \subseteq Change /\ counter' \in Nat
    BY <1>4 DEF Commit
  <2>2. rows' \in [Entities -> Nat]
    BY <1>4 DEF Commit
  <2> QED BY <1>3, <1>4, <2>1, <2>2 DEF Commit, deviceVars
<1>5. CASE Abort(w)
  BY <1>3, <1>5 DEF Abort, serverVars, deviceVars
<1> QED BY <1>1, <1>2, <1>4, <1>5 DEF WriterStep

\* The steps of a device keep the types.
LEMMA DeviceTypes ==
  ASSUME IInv, NEW d \in Devices, Pull(d) \/ Apply(d) \/ PageFails(d)
  PROVE  TypeOK'
<1> USE DEF TypeOK, IInv
<1>1. CASE Pull(d)
  <2>1. Page(cursor[d]) \in SUBSET Change
    BY DEF Page, First
  <2> QED BY <1>1, <2>1 DEF Pull, serverVars, txVars
<1>2. CASE Apply(d)
  <2>1. PageCursor(cursor[d], page[d]) \in Nat
    BY <1>2, ApplyIs
  <2>2. \A e \in Entities : Applied(page[d], e, local[d][e]) \in Nat
    <3> TAKE e \in Entities
    <3>1. page[d] \in SUBSET Change /\ local[d][e] \in Nat
      OBVIOUS
    <3>2. /\ \A c \in page[d] : c.seq <= counter
          /\ \A b, c \in page[d] : b.seq = c.seq => b = c
      BY LogNumbers DEF PagesWhole
    <3>3. Names(page[d], e) # {} => LastOf(page[d], e) \in Change
      <4>1. Names(page[d], e) # {} => LastOf(page[d], e) \in Names(page[d], e)
        BY <3>1, <3>2, LastIs
      <4> QED BY <3>1, <4>1 DEF Names
    <3> QED BY <3>1, <3>3 DEF Applied, Change
  <2> QED BY <1>2, <2>1, <2>2 DEF Apply, PageGone, serverVars, txVars
<1>3. CASE PageFails(d)
  BY <1>3 DEF PageFails, PageGone, serverVars, txVars
<1> QED BY <1>1, <1>2, <1>3

-----------------------------------------------------------------------------
(* Every step. *)

\* Every step of a transaction keeps the invariant.
LEMMA WriterStepInv ==
  ASSUME IInv, NEW w \in Writers, WriterStep(w)
  PROVE  IInv'
<1>1. TypeOK'
  BY WriterTypes
<1>2. Server'
  BY WriteStep, RecordStep, CommitStep, AbortStep DEF WriterStep, IInv
<1>3. PagesWhole' /\ NothingMissed'
  <2>1. counter \in Nat /\ changes' \subseteq Change /\ counter' \in Nat
    BY <1>1 DEF IInv, TypeOK
  <2>2. CASE Commit(w)
    <3>1. /\ changes' = changes \cup said[w]
          /\ counter <= counter'
          /\ {c.seq : c \in said[w]} = (counter + 1)..counter'
      BY <2>2, CommitIs DEF IInv
    <3>2. \A c \in said[w] : c.seq > counter
      <4> SUFFICES ASSUME NEW c \in said[w] PROVE c.seq > counter
        OBVIOUS
      <4>1. c.seq \in (counter + 1)..counter'
        BY <3>1
      <4> QED BY <2>1, <4>1
    <3> QED BY <2>1, <2>2, <3>1, <3>2, GrowStep DEF Commit
  <2>3. CASE ~Commit(w)
    <3>1. UNCHANGED serverVars /\ UNCHANGED deviceVars
      BY <2>3 DEF WriterStep, Write, Record, Abort
    <3> QED BY <2>1, <3>1, GrowStep DEF serverVars
  <2> QED BY <2>2, <2>3
<1> QED BY <1>1, <1>2, <1>3 DEF IInv

\* Every step of a device keeps the invariant.
LEMMA DeviceStepInv ==
  ASSUME IInv, NEW d \in Devices, Pull(d) \/ Apply(d) \/ PageFails(d)
  PROVE  IInv'
<1>1. UNCHANGED serverVars /\ UNCHANGED txVars
  BY DEF Pull, Apply, PageFails
<1>2. Server'
  BY <1>1 DEF IInv, Server, Gapless, RowLocks, CounterLock, SaysWhatItWrote, LogTellsRows,
              Finite, Names, serverVars, txVars
<1>3. PagesWhole' /\ NothingMissed'
  BY PullStep, ApplyStep, PageFailsStep
<1> QED BY <1>2, <1>3, DeviceTypes DEF IInv

\* So does a step that changes nothing.
LEMMA StutterInv ==
  ASSUME IInv, UNCHANGED vars
  PROVE  IInv'
<1>1. UNCHANGED <<rows, changes, counter, wrote, said, mine, cursor, local, arriving, page>>
  BY DEF vars, serverVars, txVars, deviceVars
<1>2. TypeOK'
  BY <1>1 DEF IInv, TypeOK
<1>3. Server'
  BY <1>1 DEF IInv, Server, Gapless, RowLocks, CounterLock, SaysWhatItWrote, LogTellsRows,
              Finite, Names
<1>4. PagesWhole' /\ NothingMissed'
  BY <1>1 DEF IInv, PagesWhole, NothingMissed
<1> QED BY <1>2, <1>3, <1>4 DEF IInv

\* The invariant holds of every state a tenant's log and its devices reach.
THEOREM LogInvariance == Spec => []IInv
<1>1. Init => IInv
  BY InitInv
<1>2. IInv /\ [Next]_vars => IInv'
  BY WriterStepInv, DeviceStepInv, StutterInv DEF Next
<1> QED BY <1>1, <1>2, PTL DEF Spec

\* Every variable keeps its type, whatever the transactions and the devices do.
THEOREM LogTypes == Spec => []TypeOK
<1>1. IInv => TypeOK
  BY DEF IInv
<1> QED BY <1>1, LogInvariance, PTL

\* recordChange numbers the log from 1 without a hole and without a number used twice, for any
\* number of transactions, commits and rollbacks.
THEOREM LogGapless == Spec => []Gapless
<1>1. IInv => Gapless
  BY DEF IInv, Server
<1> QED BY <1>1, LogInvariance, PTL

\* The log tells every edit of a row, in order, down to the row as it stands: recordChange runs
\* under the lock of the row it tells of.
THEOREM LogIsTrue == Spec => []LogTellsRows
<1>1. IInv => LogTellsRows
  BY DEF IInv, Server
<1> QED BY <1>1, LogInvariance, PTL

\* A device at number n holds what the first n changes come to, however its pages were cut, lost,
\* rolled back or read again, and however many transactions committed meanwhile.
THEOREM CursorMissesNothing == Spec => []NothingMissed
<1>1. IInv => NothingMissed
  BY DEF IInv
<1> QED BY <1>1, LogInvariance, PTL

-----------------------------------------------------------------------------
(* What the log gives to a device. *)

\* What the first n changes of the log come to for a row.
LogUpTo(n) == {c \in changes : c.seq <= n}

RowAt(n, e) == Applied(LogUpTo(n), e, 0)

\* A device that is at the last number has the rows as they are committed.
CaughtUpHasRows ==
  \A d \in Devices : cursor[d] = counter => \A e \in Known : local[d][e] = rows[e]

\* Neither the cursor nor a row of a device ever goes back to what an earlier change said.
NeverBack ==
  \A d \in Devices :
    cursor[d] <= cursor'[d] /\ \A e \in Known : local[d][e] <= local'[d][e]

\* A device that is behind is sent changes, and what it is sent moves it on.
PagesMove ==
  \A d \in Devices :
    /\ Pull(d) /\ cursor[d] < counter => page'[d] # {}
    /\ Apply(d) /\ page[d] # {} => cursor[d] < cursor'[d]

\* The row after n changes: none of them names it, or the last one that does has it, and no other
\* has a later one.
LEMMA RowAtIs ==
  ASSUME TypeOK, Server, NEW n \in Nat, NEW e \in Known
  PROVE  /\ RowAt(n, e) \in Nat
         /\ \A c \in LogUpTo(n) : c.entity = e => c.row <= RowAt(n, e)
         /\ RowAt(n, e) # 0 => \E c \in LogUpTo(n) : c.entity = e /\ c.row = RowAt(n, e)
<1> DEFINE S == LogUpTo(n)
<1>1. e \in Entities /\ S \in SUBSET Change /\ S \in SUBSET changes /\ \A c \in S : c.seq <= n
  BY ChangeLogAssumption DEF TypeOK, LogUpTo
<1>2. \A b, c \in S : b.seq = c.seq => b = c
  BY <1>1, LogNumbers
<1>3. \A c \in S : c.seq \in Nat /\ c.row \in Nat \ {0}
  BY <1>1 DEF Change
<1>4. Names(S, e) \subseteq S /\ \A c : c \in Names(S, e) <=> c \in S /\ c.entity = e
  BY DEF Names
<1> HIDE DEF S
<1>5. CASE Names(S, e) = {}
  <2>1. RowAt(n, e) = 0
    BY <1>5 DEF RowAt, Applied, S
  <2>2. \A c \in S : c.entity # e
    BY <1>4, <1>5
  <2> QED BY <2>1, <2>2 DEF S
<1>6. CASE Names(S, e) # {}
  <2> DEFINE last == LastOf(S, e)
  <2>1. last \in Names(S, e) /\ \A b \in Names(S, e) : b.seq <= last.seq
    BY <1>1, <1>2, <1>6, LastIs
  <2>2. RowAt(n, e) = last.row
    BY <1>6 DEF RowAt, Applied, S
  <2> HIDE DEF last
  <2>3. ASSUME NEW c \in S, c.entity = e
        PROVE  c.row <= last.row
    <3>1. CASE c.seq = last.seq
      <4>1. c = last
        BY <1>2, <1>4, <2>1, <3>1
      <4> QED BY <1>3, <4>1
    <3>2. CASE c.seq # last.seq
      <4>1. c \in Names(S, e) /\ last \in S
        BY <1>4, <2>1, <2>3
      <4>2. c.seq < last.seq
        BY <1>3, <2>1, <3>2, <4>1
      <4>3. c \in Names(changes, e) /\ last \in Names(changes, e)
        BY <1>1, <1>4, <2>1, <2>3 DEF Names
      <4>4. c.row < last.row
        BY <1>1, <4>2, <4>3 DEF Server, LogTellsRows
      <4> QED BY <1>3, <4>1, <4>4
    <3> QED BY <3>1, <3>2
  <2> QED BY <1>3, <1>4, <2>1, <2>2, <2>3 DEF S
<1> QED BY <1>5, <1>6

\* More changes come to a later row.
LEMMA RowAtGrows ==
  ASSUME TypeOK, Server, NEW m \in Nat, NEW n \in Nat, m <= n, NEW e \in Known
  PROVE  RowAt(m, e) <= RowAt(n, e)
<1>1. \A c \in changes : c.seq \in Nat
  BY LogNumbers
<1>2. LogUpTo(m) \subseteq LogUpTo(n)
  BY <1>1 DEF LogUpTo
<1>3. RowAt(m, e) \in Nat /\ RowAt(n, e) \in Nat
  BY RowAtIs
<1>4. CASE RowAt(m, e) = 0
  BY <1>3, <1>4
<1>5. CASE RowAt(m, e) # 0
  <2>1. PICK c \in LogUpTo(m) : c.entity = e /\ c.row = RowAt(m, e)
    BY <1>5, RowAtIs
  <2>2. c.row <= RowAt(n, e)
    BY <1>2, <2>1, RowAtIs
  <2> QED BY <2>1, <2>2
<1> QED BY <1>4, <1>5

\* The first change after a device's cursor is on its next page.
LEMMA BehindIsSent ==
  ASSUME TypeOK, Server, NEW k \in Nat, k < counter
  PROVE  Page(k) # {}
<1> DEFINE S == {c \in changes : c.seq > k}
<1>1. counter \in Nat /\ k + 1 \in 1..counter
  BY DEF TypeOK
<1>2. PICK c \in changes : c.seq = k + 1
  BY <1>1 DEF Server, Gapless
<1>3. c \in S
  BY <1>2
<1>4. {b \in S : b.seq < c.seq} = {}
  <2>1. \A b \in S : b.seq \in Nat /\ b.seq > k
    BY LogNumbers
  <2> QED BY <1>2, <2>1
<1>5. Cardinality({b \in S : b.seq < c.seq}) < PageLimit
  BY <1>4, FS_EmptySet
<1>6. c \in First(S)
  BY <1>3, <1>5 DEF First
<1> QED BY <1>6 DEF Page

\* A device that has pulled everything has the server's rows: its master data is what the back
\* office committed, and not only what some change said of it once.
THEOREM CaughtUpHoldsRows == Spec => []CaughtUpHasRows
<1>1. IInv => CaughtUpHasRows
  <2> SUFFICES ASSUME IInv, NEW d \in Devices, cursor[d] = counter, NEW e \in Known
               PROVE  local[d][e] = rows[e]
    BY DEF CaughtUpHasRows
  <2>1. TypeOK /\ Server /\ counter \in Nat /\ e \in Entities /\ rows[e] \in Nat
    BY ChangeLogAssumption DEF IInv, TypeOK
  <2>2. local[d][e] = RowAt(counter, e)
    BY DEF IInv, NothingMissed, RowAt, LogUpTo
  <2>3. LogUpTo(counter) = changes
    BY <2>1, LogNumbers DEF LogUpTo
  <2>4. {c.row : c \in Names(changes, e)} = 1..rows[e]
    BY <2>1 DEF Server, LogTellsRows
  <2>5. RowAt(counter, e) \in Nat /\ \A c \in changes : c.entity = e => c.row <= RowAt(counter, e)
    BY <2>1, <2>3, RowAtIs
  <2>6. rows[e] <= RowAt(counter, e)
    <3>1. CASE rows[e] = 0
      BY <2>5, <3>1
    <3>2. CASE rows[e] # 0
      <4>1. PICK c \in Names(changes, e) : c.row = rows[e]
        BY <2>1, <2>4, <3>2
      <4> QED BY <2>5, <4>1 DEF Names
    <3> QED BY <3>1, <3>2
  <2>7. RowAt(counter, e) <= rows[e]
    <3>1. CASE RowAt(counter, e) = 0
      BY <2>1, <3>1
    <3>2. CASE RowAt(counter, e) # 0
      <4>1. PICK c \in changes : c.entity = e /\ c.row = RowAt(counter, e)
        BY <2>1, <2>3, <3>2, RowAtIs
      <4>2. c.row \in 1..rows[e]
        BY <2>4, <4>1 DEF Names
      <4> QED BY <2>1, <4>1, <4>2
    <3> QED BY <3>1, <3>2
  <2> QED BY <2>1, <2>2, <2>5, <2>6, <2>7
<1> QED BY LogInvariance, <1>1, PTL

\* No page takes a device back, however late it comes: rows only ever move on to later edits.
THEOREM RowsNeverGoBack == Spec => [][NeverBack]_vars
<1>1. IInv /\ [Next]_vars => [NeverBack]_vars
  <2> SUFFICES ASSUME IInv, Next, NEW d \in Devices
               PROVE  /\ cursor[d] <= cursor'[d]
                      /\ \A e \in Known : local[d][e] <= local'[d][e]
    BY DEF NeverBack
  <2>1. /\ TypeOK /\ Server /\ cursor[d] \in Nat
        /\ cursor \in [Devices -> Nat] /\ local \in [Devices -> [Entities -> Nat]]
    BY DEF IInv, TypeOK
  <2>2. \A e \in Known : e \in Entities /\ local[d][e] \in Nat
    BY <2>1, ChangeLogAssumption
  <2>3. ASSUME cursor'[d] = cursor[d], local'[d] = local[d]
        PROVE  /\ cursor[d] <= cursor'[d]
               /\ \A e \in Known : local[d][e] <= local'[d][e]
    BY <2>1, <2>2, <2>3
  <2>4. CASE Apply(d)
    <3> DEFINE n == PageCursor(cursor[d], page[d])
    <3>1. /\ n \in Nat /\ cursor[d] <= n
          /\ \A e \in Known : Applied(page[d], e, local[d][e]) = RowAt(n, e)
      BY <2>4, ApplyIs DEF RowAt, LogUpTo
    <3>2. /\ cursor'[d] = n
          /\ \A e \in Entities : local'[d][e] = Applied(page[d], e, local[d][e])
      BY <2>1, <2>4 DEF Apply
    <3> HIDE DEF n
    <3>3. ASSUME NEW e \in Known
          PROVE  local[d][e] <= local'[d][e]
      <4>1. local[d][e] = RowAt(cursor[d], e)
        BY DEF IInv, NothingMissed, RowAt, LogUpTo
      <4>2. RowAt(cursor[d], e) <= RowAt(n, e)
        BY <2>1, <3>1, RowAtGrows
      <4> QED BY <2>2, <3>1, <3>2, <4>1, <4>2
    <3> QED BY <3>1, <3>2, <3>3
  <2>5. CASE \E v \in Devices : v # d /\ Apply(v)
    BY <2>1, <2>3, <2>5 DEF Apply
  <2>6. CASE \E v \in Devices : Pull(v) \/ PageFails(v)
    BY <2>3, <2>6 DEF Pull, PageFails
  <2>7. CASE \E w \in Writers : WriterStep(w)
    BY <2>3, <2>7 DEF WriterStep, Write, Record, Commit, Abort, deviceVars
  <2> QED BY <2>4, <2>5, <2>6, <2>7 DEF Next
<1> QED BY LogInvariance, <1>1, PTL DEF Spec

\* A device that is behind is sent changes, and every page that is applied moves it on, cut at any
\* limit: what is left to fairness in CatchesUp is that it pulls, and that not every page fails.
THEOREM PagesMoveOn == Spec => [][PagesMove]_vars
<1>1. IInv /\ [Next]_vars => [PagesMove]_vars
  <2> SUFFICES ASSUME IInv, NEW d \in Devices
               PROVE  /\ Pull(d) /\ cursor[d] < counter => page'[d] # {}
                      /\ Apply(d) /\ page[d] # {} => cursor[d] < cursor'[d]
    BY DEF PagesMove
  <2>1. /\ TypeOK /\ Server /\ cursor[d] \in Nat /\ counter \in Nat
        /\ cursor \in [Devices -> Nat] /\ page \in [Devices -> SUBSET Change]
    BY DEF IInv, TypeOK
  <2>2. ASSUME Pull(d), cursor[d] < counter
        PROVE  page'[d] # {}
    <3>1. page'[d] = Page(cursor[d])
      BY <2>1, <2>2 DEF Pull
    <3> QED BY <2>1, <2>2, <3>1, BehindIsSent
  <2>3. ASSUME Apply(d), page[d] # {}
        PROVE  cursor[d] < cursor'[d]
    <3>1. page[d] \in SUBSET Change /\ \A c \in page[d] : c.seq <= counter /\ cursor[d] < c.seq
      BY <2>1, LogNumbers DEF IInv, PagesWhole
    <3>2. PICK c \in page[d] : PageCursor(cursor[d], page[d]) = c.seq
      BY <2>1, <2>3, <3>1, PageCursorIs
    <3>3. cursor'[d] = PageCursor(cursor[d], page[d])
      BY <2>1, <2>3 DEF Apply
    <3> QED BY <3>1, <3>2, <3>3
  <2> QED BY <2>2, <2>3
<1> QED BY LogInvariance, <1>1, PTL DEF Spec
=============================================================================
