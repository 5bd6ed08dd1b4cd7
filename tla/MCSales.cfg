CONSTANTS
  Devices = {d1, d2}
  Products = {1, 2, 3}
  Price <- McPrice
  Carts <- McCarts
  MaxLines = 2
  MaxSales = 3
SPECIFICATION Spec
INVARIANTS TypeOK NumbersAccounted SomePostingMoves
PROPERTY PostsWhole
CHECK_DEADLOCK FALSE
