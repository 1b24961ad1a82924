------------------------- MODULE MCMenuPublication -------------------------
(***************************************************************************)
(* A small instance of MenuPublication for TLC.                             *)
(***************************************************************************)
EXTENDS MenuRequirements, TLC

CONSTANTS p1, p2, c1, c2, tea, pie

\* Publishers are interchangeable, and so are customers.
Symmetry == Permutations(Publishers) \cup Permutations(Customers)

Line(product, price, available) ==
  [product |-> product, price |-> price, available |-> available]
Menu(version, lines) == [version |-> version, lines |-> lines]
Item(product, quantity) == [product |-> product, quantity |-> quantity]

SeedMenu == Menu(1, <<Line(tea, 2, TRUE)>>)

\* A newer menu in two forms, one newer still, and one whose price is too high.
MenuSnapshots ==
  {Menu(2, <<Line(tea, 3, TRUE), Line(pie, 4, FALSE)>>),
   Menu(2, <<Line(pie, 0, TRUE)>>),
   Menu(3, <<Line(pie, 5, TRUE), Line(tea, 3, FALSE)>>),
   Menu(4, <<Line(tea, 10, TRUE)>>)}

\* Baskets around every refusal: nothing, no quantity, quantities whose cost
\* meets the bound of 9 with and without the fee of 1 or exceeds it at once or
\* in the sum, and a product twice.
MenuBaskets ==
  {<<>>, <<Item(tea, 0)>>, <<Item(tea, 1)>>, <<Item(tea, 4)>>,
   <<Item(pie, 20)>>, <<Item(tea, 3), Item(pie, 1)>>,
   <<Item(tea, 2), Item(tea, 2)>>}
=============================================================================
