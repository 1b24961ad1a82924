---------------------------- MODULE OrderPricing ----------------------------
(***************************************************************************)
(* What CreateOrder charges for a basket: the items one by one, with every  *)
(* reason to refuse in the order in which the code comes upon it.  A line   *)
(* of a menu is a product with its price and availability; an item of a     *)
(* basket is a product with a quantity.                                     *)
(***************************************************************************)
EXTENDS Integers, Sequences, SequencesExt

CONSTANTS MaxMoney,     \* maxMoneyAmount
          DeliveryFee

ASSUME MoneyType == MaxMoney \in Nat /\ DeliveryFee \in 0 .. MaxMoney

Charged(amount) == [code |-> "ok", amount |-> amount]
Refused(code) == [code |-> code, amount |-> 0]

\* findMenuItem: the first line with the product, 0 if there is none.
FindLine(lines, product) ==
  LET places == {i \in DOMAIN lines : lines[i].product = product}
  IN IF places = {} THEN 0 ELSE Min(places)

\* Variant: the largest price that is allowed is refused.
Fits_Strictly(price, quantity, sum) ==
  /\ 0 <= price /\ price < MaxMoney \div quantity
  /\ sum <= MaxMoney - price * quantity

\* The bound is compared before anything is multiplied or added, so that no
\* intermediate result is larger than it.
Fits(price, quantity, sum) ==
  /\ 0 <= price /\ price <= MaxMoney \div quantity
  /\ sum <= MaxMoney - price * quantity

\* One turn of the loop over the items.
AddItem(lines, bill, item) ==
  LET line == lines[FindLine(lines, item.product)]
  IN IF bill.code # "ok" THEN bill
     ELSE IF item.quantity <= 0 THEN Refused("invalid_request")
     ELSE IF FindLine(lines, item.product) = 0 THEN Refused("item_not_found")
     ELSE IF ~line.available THEN Refused("item_unavailable")
     ELSE IF ~Fits(line.price, item.quantity, bill.amount)
       THEN Refused("invalid_request")
     ELSE Charged(bill.amount + line.price * item.quantity)

Subtotal(lines, basket) ==
  FoldLeft(LAMBDA bill, item : AddItem(lines, bill, item), Charged(0), basket)

\* The total of an order, or the code it is refused with.
Bill(lines, basket) ==
  LET sum == Subtotal(lines, basket)
  IN IF basket = <<>> THEN Refused("invalid_request")
     ELSE IF sum.code # "ok" THEN sum
     ELSE IF sum.amount > MaxMoney - DeliveryFee
       THEN Refused("invalid_request")
     ELSE Charged(sum.amount + DeliveryFee)
=============================================================================
