---------------------------- MODULE SalePosting ----------------------------
(***************************************************************************)
(* A cash sale, from the cart of a device to the books of the store: the   *)
(* device's transaction (modules/sales/src/client/local-sales.ts) and the  *)
(* server's, which records the invoice (modules/sales/src/server/          *)
(* invoices.ts), the device's numbering (core/organization/src/server/     *)
(* numbering.ts), the stock (modules/inventory/src/server/stock.ts) and    *)
(* the journal entry (core/ledger/src/server/journal.ts).                  *)
(*                                                                         *)
(* The operations of a device reach the handler in order, and one that     *)
(* was recorded never again: PushSync shows it.  The handlers of different *)
(* devices overlap, each in a READ COMMITTED transaction.                  *)
(***************************************************************************)
EXTENDS Integers, Sequences, FiniteSetsExt

CONSTANTS
  Devices,   \* the devices of one tenant
  Products,  \* its products, named by the order of their ids
  Price,     \* the price of each; a free one costs nothing
  Carts,     \* what is sold: sequences of products, each product in one line
  MaxLines,  \* the most lines the schema of an invoice allows
  MaxSales   \* bound: sales of a device

ASSUME SalePostingAssumption ==
  /\ Products \subseteq Nat /\ IsFiniteSet(Products)
  /\ Price \in [Products -> Nat]
  /\ Carts \subseteq Seq(Products) \ {<<>>}
  /\ \A lines \in Carts : \A i, j \in DOMAIN lines : lines[i] = lines[j] => i = j
  /\ MaxLines \in Nat /\ MaxSales \in Nat

VARIABLES
  counter,   \* sync_counters "doc:INV" of each device: the last number taken
  sales,     \* local_invoices of each device and the operations that carry them, in order
  outcome,   \* received_ops of each device: how its operations ended, in order
  invoices,  \* the numbers of each device's recorded invoices
  lastSeq,   \* document_sequences: the last number the server saw of each device
  missing,   \* the numbers that the gap audit entries of each device name
  levels,    \* stock_levels: on hand of each product, as committed
  debit,     \* journal_lines of the cash account, summed
  credit,    \* journal_lines of the sales revenue account, summed
  posting    \* the running transaction of each device's operation

deviceVars == <<counter, sales>>
committed == <<outcome, invoices, lastSeq, missing, levels, debit, credit>>
vars == <<deviceVars, committed, posting>>

Sale == [number : 1..MaxSales, lines : Carts]

\* A transaction in the handler: the products whose level it has still to update, the ones it
\* has updated with what it read, and the missing numbers it has audited.
Posting ==
  [todo : SUBSET Products, moved : SUBSET Products, level : [Products -> Int],
   gap : SUBSET (1..MaxSales)]

ProductsOf(lines) == {lines[i] : i \in DOMAIN lines}

\* The total of the cart, one of each product: both lines of the journal entry have it.
Total(lines) == MapThenSumSet(LAMBDA p : Price[p], ProductsOf(lines))

Idle == [todo |-> {}, moved |-> {}, level |-> [p \in Products |-> 0], gap |-> {}]

Posts(d) == posting[d] # Idle

-----------------------------------------------------------------------------
(* The device. *)

\* nextDocumentSeq.
\* (SameNumber, a bug: the number is not stored before it is taken again.)
SameNumber(d) == IF counter[d] = 0 THEN 1 ELSE counter[d]

NextNumber(d) == counter[d] + 1

\* completeCashSale: number, invoice, operation and emptied cart in one local transaction.
Sell(d) ==
  /\ Len(sales[d]) < MaxSales
  /\ counter' = [counter EXCEPT ![d] = NextNumber(d)]
  /\ \E lines \in Carts :
       sales' = [sales EXCEPT ![d] = Append(@, [number |-> NextNumber(d), lines |-> lines])]
  /\ UNCHANGED <<committed, posting>>

-----------------------------------------------------------------------------
(* The handler. *)

Waiting(d) == Len(outcome[d]) < Len(sales[d])

\* The operation of d that the server handles next.
Pushed(d) == sales[d][Len(outcome[d]) + 1]

\* The invoice's schema allows so many lines; the cart of a device any number.
Recordable(sale) == Len(sale.lines) <= MaxLines

\* trackDocumentNumber: the numbers between the last one seen and this one.
\* (GapFromLast, a bug: the last one seen counts as missing.)
GapFromLast(last, number) == (last .. (number - 1)) \ {0}

GapOf(last, number) == (last + 1) .. (number - 1)

\* The invoice and its lines are inserted and its number is tracked, with the device's row of
\* document_sequences locked; the stock comes next.
StartPosting(d) ==
  /\ Waiting(d) /\ ~Posts(d)
  /\ Recordable(Pushed(d))
  /\ posting' =
       [posting EXCEPT ![d] =
          [Idle EXCEPT !.todo = ProductsOf(Pushed(d).lines),
                       !.gap = GapOf(lastSeq[d], Pushed(d).number)]]
  /\ UNCHANGED <<deviceVars, committed>>

\* moveStock updates the levels in the order of the products' ids.
\* (CartOrder, a bug: in the order of the document's lines.)
CartOrder(d) ==
  LET lines == Pushed(d).lines
      Left(i) == lines[i] \in posting[d].todo
  IN  lines[CHOOSE i \in DOMAIN lines : Left(i) /\ \A j \in 1..(i - 1) : ~Left(j)]

NextProduct(d) == CHOOSE p \in posting[d].todo : \A q \in posting[d].todo : p <= q

\* The row of stock_levels is locked by the transaction that updated it, until it commits.
\* (Unlocked, a bug: a level read and written back by two statements.)
Unlocked(p) == p \in Products

RowFree(p) == \A e \in Devices : p \notin posting[e].moved

\* One upsert of moveStock: on_hand as committed last, plus what is sold of it (negated).
Move(d) ==
  LET p == NextProduct(d)
  IN  /\ posting[d].todo # {}
      /\ RowFree(p)
      /\ posting' =
           [posting EXCEPT ![d] =
              [posting[d] EXCEPT !.todo = posting[d].todo \ {p},
                                 !.moved = posting[d].moved \cup {p},
                                 !.level = [posting[d].level EXCEPT ![p] = levels[p] - 1]]]
      /\ UNCHANGED <<deviceVars, committed>>

\* The number becomes the last one seen, if it is later.
\* (LastPlusOne, a bug: each recorded document counts as one number.)
LastPlusOne(d, number) == lastSeq[d] + 1

SeenAfter(d, number) == IF number > lastSeq[d] THEN number ELSE lastSeq[d]

\* The journal entry, unless the sale is free, the audit entry, the outcome, and the commit.
Commit(d) ==
  LET sale == Pushed(d)
      total == Total(sale.lines)
  IN  /\ Posts(d) /\ posting[d].todo = {}
      /\ outcome' = [outcome EXCEPT ![d] = Append(@, "accepted")]
      /\ invoices' = [invoices EXCEPT ![d] = @ \cup {sale.number}]
      /\ lastSeq' = [lastSeq EXCEPT ![d] = SeenAfter(d, sale.number)]
      /\ missing' = [missing EXCEPT ![d] = @ \cup posting[d].gap]
      /\ levels' = [p \in Products |-> IF p \in posting[d].moved THEN posting[d].level[p]
                                                                 ELSE levels[p]]
      /\ debit' = debit + total
      /\ credit' = credit + total
      /\ posting' = [posting EXCEPT ![d] = Idle]
      /\ UNCHANGED deviceVars

\* A bug: an invoice that cannot be recorded is found out after its number was tracked.
RejectTracked(d) ==
  /\ Waiting(d) /\ ~Posts(d)
  /\ ~Recordable(Pushed(d))
  /\ outcome' = [outcome EXCEPT ![d] = Append(@, "rejected")]
  /\ lastSeq' = [lastSeq EXCEPT ![d] = Pushed(d).number]
  /\ UNCHANGED <<deviceVars, invoices, missing, levels, debit, credit, posting>>

\* The handler rejects the operation: all it wrote is rolled back, and the rejection recorded.
Reject(d) ==
  /\ Waiting(d) /\ ~Posts(d)
  /\ ~Recordable(Pushed(d))
  /\ outcome' = [outcome EXCEPT ![d] = Append(@, "rejected")]
  /\ UNCHANGED <<deviceVars, invoices, lastSeq, missing, levels, debit, credit, posting>>

\* A failure that is not a rejection: nothing is stored, and the device pushes it again.
Fail(d) ==
  /\ Posts(d)
  /\ posting' = [posting EXCEPT ![d] = Idle]
  /\ UNCHANGED <<deviceVars, committed>>

-----------------------------------------------------------------------------
Init ==
  /\ counter = [d \in Devices |-> 0]
  /\ sales = [d \in Devices |-> <<>>]
  /\ outcome = [d \in Devices |-> <<>>]
  /\ invoices = [d \in Devices |-> {}]
  /\ lastSeq = [d \in Devices |-> 0]
  /\ missing = [d \in Devices |-> {}]
  /\ levels = [p \in Products |-> 0]
  /\ debit = 0 /\ credit = 0
  /\ posting = [d \in Devices |-> Idle]

Next ==
  \E d \in Devices :
    Sell(d) \/ StartPosting(d) \/ Move(d) \/ Commit(d) \/ Reject(d) \/ Fail(d)

Spec == Init /\ [][Next]_vars

-----------------------------------------------------------------------------
(* Properties. *)

\* Types; and the device's counter is the number of its sales: each number is taken once and none
\* is left out on the device (nextDocumentSeq, "from 1 without gaps").
TypeOK ==
  /\ sales \in [Devices -> Seq(Sale)]
  /\ outcome \in [Devices -> Seq({"accepted", "rejected"})]
  /\ \A d \in Devices :
       /\ counter[d] = Len(sales[d])
       /\ \A i \in DOMAIN sales[d] : sales[d][i].number = i
       /\ Len(outcome[d]) <= Len(sales[d])
  /\ invoices \in [Devices -> SUBSET (1..MaxSales)]
  /\ lastSeq \in [Devices -> 0..MaxSales]
  /\ missing \in [Devices -> SUBSET (1..MaxSales)]
  /\ levels \in [Products -> Int]
  /\ debit \in Nat /\ credit \in Nat
  /\ posting \in [Devices -> Posting]

RejectedNumbers(d) ==
  {sales[d][i].number : i \in {j \in DOMAIN outcome[d] : outcome[d][j] = "rejected"}}

\* The server's view of a device's numbering accounts for every number up to the last: an invoice
\* has it, or a gap audit entry names it, and then it is one the server rejected
\* (core-foundation rule 31; numbering.ts).
NumbersAccounted ==
  \A d \in Devices :
    /\ invoices[d] \cup missing[d] = 1..lastSeq[d]
    /\ invoices[d] \cap missing[d] = {}
    /\ missing[d] \subseteq RejectedNumbers(d)

\* The documents being posted never all wait for each other's products: "two documents moving
\* the same products cannot deadlock" (stock.ts, moveStock).
SomePostingMoves ==
  (\E d \in Devices : Posts(d)) =>
     \E d \in Devices : Posts(d) /\ (posting[d].todo = {} \/ RowFree(NextProduct(d)))

Books ==
  INSTANCE SaleBooks WITH Worth <- Total,
    made <- [d \in Devices |-> [i \in DOMAIN sales[d] |-> sales[d][i].lines]], book <- outcome,
    stock <- levels, cash <- debit, revenue <- credit

\* A sale enters the books once, in its device's order and whole, or not at all, whatever the
\* other devices post meanwhile and however often the server fails (ADR-0005, ADR-0006): the
\* handlers implement SaleBooks.
PostsWhole == Books!Spec
=============================================================================
