------------------------------ MODULE MCSales ------------------------------
(* Instances of SalePosting: three products, the first of them free; two carts with the same     *)
(* two products in either order, and one cart that is too long for an invoice.                   *)
EXTENDS SalePosting, TLC

McPrice == 1 :> 0 @@ 2 :> 5 @@ 3 :> 7

McCarts == {<<1>>, <<2, 3>>, <<3, 2>>, <<3, 1, 2>>}
=============================================================================
