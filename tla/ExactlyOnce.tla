---------------------------- MODULE ExactlyOnce ----------------------------
(***************************************************************************)
(* What the push half of core.sync promises (ADR-0020): each operation a   *)
(* device makes enters the server's book once, in the order made, and a    *)
(* device leaves (wipes its data) only when the book has all of them,      *)
(* which it has in the end.                                                *)
(***************************************************************************)
EXTENDS Naturals, Sequences

CONSTANTS
  Devices,   \* the devices of one tenant
  MaxOps     \* bound: operations a device makes

VARIABLES
  made,      \* how many operations each device made
  book,      \* how each of them ended on the server, in order
  gone       \* whether the device wiped its data

bookVars == <<made, book, gone>>

Make(d) ==
  /\ ~gone[d] /\ made[d] < MaxOps
  /\ made' = [made EXCEPT ![d] = @ + 1]
  /\ UNCHANGED <<book, gone>>

Enter(d) ==
  /\ Len(book[d]) < made[d]
  /\ \E status \in {"accepted", "rejected"} : book' = [book EXCEPT ![d] = Append(@, status)]
  /\ UNCHANGED <<made, gone>>

Leave(d) ==
  /\ ~gone[d] /\ Len(book[d]) = made[d]
  /\ gone' = [gone EXCEPT ![d] = TRUE]
  /\ UNCHANGED <<made, book>>

Init ==
  /\ made = [d \in Devices |-> 0]
  /\ book = [d \in Devices |-> <<>>]
  /\ gone = [d \in Devices |-> FALSE]

Next == \E d \in Devices : Make(d) \/ Enter(d) \/ Leave(d)

Spec == Init /\ [][Next]_bookVars

\* Each operation gets into the book in the end.
EntersInTheEnd == \A d \in Devices, n \in 1..MaxOps : made[d] >= n ~> Len(book[d]) >= n
=============================================================================
