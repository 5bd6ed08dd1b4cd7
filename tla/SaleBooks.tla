----------------------------- MODULE SaleBooks -----------------------------
(***************************************************************************)
(* What the store's books promise of cash sales (ADR-0005, ADR-0006): each *)
(* sale of a device enters them once, in the device's order, and whole -   *)
(* the stock, the cash and the revenue together - or is refused whole, as  *)
(* if nobody else were selling.                                            *)
(***************************************************************************)
EXTENDS Integers, Sequences

CONSTANTS
  Devices,   \* the devices of one tenant
  Products,  \* its products
  Worth(_),  \* what the customer pays for what is sold
  Carts,     \* what is sold: sequences of products, each product in one line
  MaxLines,  \* the most lines an invoice has
  MaxSales   \* bound: sales of a device

VARIABLES
  made,      \* the sales of each device
  book,      \* how each of them ended
  stock,     \* what is on hand of each product
  cash,      \* the balance of cash: debits less credits
  revenue    \* the balance of sales revenue: credits less debits

bookVars == <<made, book, stock, cash, revenue>>

ProductsOf(lines) == {lines[i] : i \in DOMAIN lines}

Make(d) ==
  /\ Len(made[d]) < MaxSales
  /\ \E lines \in Carts : made' = [made EXCEPT ![d] = Append(@, lines)]
  /\ UNCHANGED <<book, stock, cash, revenue>>

\* The next sale of d, which the books have not seen.
Due(d) == made[d][Len(book[d]) + 1]

Enter(d) ==
  /\ Len(book[d]) < Len(made[d])
  /\ Len(Due(d)) <= MaxLines
  /\ book' = [book EXCEPT ![d] = Append(@, "accepted")]
  /\ stock' = [p \in Products |-> IF p \in ProductsOf(Due(d)) THEN stock[p] - 1 ELSE stock[p]]
  /\ cash' = cash + Worth(Due(d))
  /\ revenue' = revenue + Worth(Due(d))
  /\ UNCHANGED made

Refuse(d) ==
  /\ Len(book[d]) < Len(made[d])
  /\ Len(Due(d)) > MaxLines
  /\ book' = [book EXCEPT ![d] = Append(@, "rejected")]
  /\ UNCHANGED <<made, stock, cash, revenue>>

Init ==
  /\ made = [d \in Devices |-> <<>>]
  /\ book = [d \in Devices |-> <<>>]
  /\ stock = [p \in Products |-> 0]
  /\ cash = 0
  /\ revenue = 0

Next == \E d \in Devices : Make(d) \/ Enter(d) \/ Refuse(d)

Spec == Init /\ [][Next]_bookVars
=============================================================================
