----------------------------- MODULE ChangeLog -----------------------------
(***************************************************************************)
(* The pull half of core.sync: the change log that server transactions     *)
(* append to (core/sync/src/server/changes.ts), the rows of the master     *)
(* data it describes (store profile, departments, currencies, rates,       *)
(* products), and the devices that follow it page by page                  *)
(* (core/sync/src/client/engine.ts: pull).                                 *)
(*                                                                         *)
(* A row is abstracted to how many edits it shows: 0 is no row.  A change  *)
(* carries the full row after the edit, so it carries that number.         *)
(***************************************************************************)
EXTENDS Naturals, FiniteSets

CONSTANTS
  Writers,    \* transactions of one tenant that may run at the same time
  Devices,    \* its devices
  Entities,   \* the rows that flow down
  Known,      \* those the app version of the devices has an applier for
  PageLimit,  \* PULL_PAGE_LIMIT
  MaxEdits    \* bound: committed edits of a row

ASSUME ChangeLogAssumption ==
  /\ Known \subseteq Entities
  /\ PageLimit \in Nat \ {0}
  /\ MaxEdits \in Nat

VARIABLES
  rows,      \* the committed rows
  changes,   \* core_sync.changes: the committed change log
  counter,   \* tenant_counters.change_seq as committed: 0 while the tenant has no row there
  wrote,     \* what each running transaction wrote: the row of an entity, 0 if not written
  said,      \* the changes each running transaction appended
  mine,      \* change_seq as the running transaction left it, 0 before it touches the row
  cursor,    \* sync_state.pullCursor of each device
  local,     \* the device's rows
  arriving,  \* whether a page is on its way to the device
  page       \* that page

serverVars == <<rows, changes, counter>>
txVars == <<wrote, said, mine>>
deviceVars == <<cursor, local, arriving, page>>
vars == <<serverVars, txVars, deviceVars>>

Change == [seq : Nat \ {0}, entity : Entities, row : Nat \ {0}]

-----------------------------------------------------------------------------
(* The transactions that write. *)

\* The row lock of e is w's or nobody's.
RowFree(w, e) == \A v \in Writers \ {w} : wrote[v][e] = 0

\* The row of an entity is read under its lock (FOR UPDATE; an insert's row is its own), then
\* written: before any publishing of it, and once in a transaction.
Write(w, e) ==
  /\ wrote[w][e] = 0
  /\ RowFree(w, e)
  /\ rows[e] < MaxEdits
  /\ wrote' = [wrote EXCEPT ![w][e] = rows[e] + 1]
  /\ UNCHANGED <<serverVars, said, mine, deviceVars>>

\* A bug: the counter is read without its row being locked.
CounterUnlocked(w) == TRUE

\* The upsert of the counter row waits for the transaction that holds it to end.
CounterFree(w) == \A v \in Writers \ {w} : mine[v] = 0

\* A bug: the number the row had.
SeqBefore(w) == IF mine[w] > 0 THEN mine[w] ELSE counter

\* change_seq + 1, of the row as this transaction sees it.
NextSeq(w) == (IF mine[w] > 0 THEN mine[w] ELSE counter) + 1

\* A bug: the row as it was before the edit.
RowBefore(w, e) == IF rows[e] > 0 THEN rows[e] ELSE wrote[w][e]

RowAfter(w, e) == wrote[w][e]

Unsaid(w, e) == wrote[w][e] > 0 /\ \A c \in said[w] : c.entity # e

\* recordChange.
Record(w, e) ==
  /\ Unsaid(w, e)
  /\ CounterFree(w)
  /\ mine' = [mine EXCEPT ![w] = NextSeq(w)]
  /\ said' = [said EXCEPT ![w] =
                @ \cup {[seq |-> NextSeq(w), entity |-> e, row |-> RowAfter(w, e)]}]
  /\ UNCHANGED <<serverVars, wrote, deviceVars>>

\* The transaction of w is over: its locks are free.
Ended(w) ==
  /\ wrote' = [wrote EXCEPT ![w] = [e \in Entities |-> 0]]
  /\ said' = [said EXCEPT ![w] = {}]
  /\ mine' = [mine EXCEPT ![w] = 0]

\* Everything it wrote is published: rows, changes and counter commit together.
Commit(w) ==
  /\ \E e \in Entities : wrote[w][e] > 0
  /\ \A e \in Entities : ~Unsaid(w, e)
  /\ rows' = [e \in Entities |-> IF wrote[w][e] > 0 THEN wrote[w][e] ELSE rows[e]]
  /\ changes' = changes \cup said[w]
  /\ counter' = IF mine[w] > 0 THEN mine[w] ELSE counter
  /\ Ended(w)
  /\ UNCHANGED deviceVars

\* A bug: the number stays taken, as a database sequence would have it.
AbortKeepsNumber(w) ==
  /\ \E e \in Entities : wrote[w][e] > 0
  /\ counter' = IF mine[w] > 0 THEN mine[w] ELSE counter
  /\ Ended(w)
  /\ UNCHANGED <<rows, changes, deviceVars>>

\* A refused request, a crash, or a deadlock the database resolves: all of it rolls back.
Abort(w) ==
  /\ \E e \in Entities : wrote[w][e] > 0
  /\ Ended(w)
  /\ UNCHANGED <<serverVars, deviceVars>>

-----------------------------------------------------------------------------
(* The devices. *)

\* The first PageLimit of S by number.
First(S) == {c \in S : Cardinality({b \in S : b.seq < c.seq}) < PageLimit}

\* readChanges.
Page(k) == First({c \in changes : c.seq > k})

\* The cursor of a page read after k: the number of its last change.
PageCursor(k, P) == IF P = {} THEN k ELSE (CHOOSE c \in P : \A b \in P : b.seq <= c.seq).seq

\* One iteration of pull(): the page is read at the server after the device's cursor.
Pull(d) ==
  /\ ~arriving[d]
  /\ arriving' = [arriving EXCEPT ![d] = TRUE]
  /\ page' = [page EXCEPT ![d] = Page(cursor[d])]
  /\ UNCHANGED <<serverVars, txVars, cursor, local>>

\* The last change of S that names e, if one does.
Names(S, e) == {c \in S : c.entity = e}
LastOf(S, e) == CHOOSE c \in Names(S, e) : \A b \in Names(S, e) : b.seq <= c.seq

\* The row of e once S is applied, in order, over old.
Applied(S, e, old) == IF e \in Known /\ Names(S, e) # {} THEN LastOf(S, e).row ELSE old

PageGone(d) ==
  /\ arriving' = [arriving EXCEPT ![d] = FALSE]
  /\ page' = [page EXCEPT ![d] = {}]

\* A bug: the cursor moves on the last page alone.
SaveLastCursor(d) ==
  /\ arriving[d]
  /\ local' = [local EXCEPT ![d] = [e \in Entities |-> Applied(page[d], e, local[d][e])]]
  /\ cursor' = [cursor EXCEPT ![d] =
                  IF Cardinality(page[d]) < PageLimit THEN PageCursor(@, page[d]) ELSE @]
  /\ PageGone(d)
  /\ UNCHANGED <<serverVars, txVars>>

\* The page and its cursor, in one local transaction; a change without applier is passed over.
Apply(d) ==
  /\ arriving[d]
  /\ local' = [local EXCEPT ![d] = [e \in Entities |-> Applied(page[d], e, local[d][e])]]
  /\ cursor' = [cursor EXCEPT ![d] = PageCursor(@, page[d])]
  /\ PageGone(d)
  /\ UNCHANGED <<serverVars, txVars>>

\* The answer is lost, the app restarts, or an applier throws and the transaction rolls back:
\* the round ends, and the next one reads the cursor again.
PageFails(d) ==
  /\ arriving[d]
  /\ PageGone(d)
  /\ UNCHANGED <<serverVars, txVars, cursor, local>>

-----------------------------------------------------------------------------
Init ==
  /\ rows = [e \in Entities |-> 0]
  /\ changes = {}
  /\ counter = 0
  /\ wrote = [w \in Writers |-> [e \in Entities |-> 0]]
  /\ said = [w \in Writers |-> {}]
  /\ mine = [w \in Writers |-> 0]
  /\ cursor = [d \in Devices |-> 0]
  /\ local = [d \in Devices |-> [e \in Entities |-> 0]]
  /\ arriving = [d \in Devices |-> FALSE]
  /\ page = [d \in Devices |-> {}]

WriterStep(w) ==
  \/ \E e \in Entities : Write(w, e) \/ Record(w, e)
  \/ Commit(w)
  \/ Abort(w)

Next ==
  \/ \E w \in Writers : WriterStep(w)
  \/ \E d \in Devices : Pull(d) \/ Apply(d) \/ PageFails(d)

Spec == Init /\ [][Next]_vars

\* A round pulls every 15 seconds, and not every page of a device fails: the network comes back
\* (sync-sim: converge) and an applier throws on passing trouble alone.
Fairness == \A d \in Devices : WF_vars(Pull(d)) /\ SF_vars(Apply(d))

FairSpec == Spec /\ Fairness

-----------------------------------------------------------------------------
(* Properties. *)

TypeOK ==
  /\ rows \in [Entities -> Nat]
  /\ changes \subseteq Change
  /\ counter \in Nat
  /\ wrote \in [Writers -> [Entities -> Nat]]
  /\ said \in [Writers -> SUBSET Change]
  /\ mine \in [Writers -> Nat]
  /\ cursor \in [Devices -> Nat]
  /\ local \in [Devices -> [Entities -> Nat]]
  /\ arriving \in [Devices -> BOOLEAN]
  /\ page \in [Devices -> SUBSET Change]

\* The change log of a tenant is numbered from 1 without a hole and without a number used twice,
\* whichever transactions commit and abort (schema.ts: "Gapless per tenant, from 1").
Gapless ==
  /\ {c.seq : c \in changes} = 1..counter
  /\ \A b, c \in changes : b.seq = c.seq => b = c

\* The last change that names a row is that row as it stands, and every edit of it was published
\* in the order the edits happened: a device that follows the log ends with the rows.
LogTellsRows ==
  \A e \in Entities :
    /\ {c.row : c \in Names(changes, e)} = 1..rows[e]
    /\ \A b, c \in Names(changes, e) : b.seq < c.seq => b.row < c.row

\* A device that is at number n has applied every change up to n that it knows how to apply, and
\* none after: no transaction commits a lower number later, and no page that failed, or was cut
\* short at its limit, left one out (changes.ts: "never later misses a lower one").
NothingMissed ==
  \A d \in Devices :
    /\ cursor[d] <= counter
    /\ \A e \in Known :
         local[d][e] = Applied({c \in changes : c.seq <= cursor[d]}, e, 0)

\* A device catches up with every committed change in the end, however many pages it is behind.
CatchesUp ==
  \A d \in Devices : \A n \in 1..(MaxEdits * Cardinality(Entities)) :
    counter >= n ~> cursor[d] >= n
=============================================================================
