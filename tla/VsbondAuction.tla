---------------------------- MODULE VsbondAuction ----------------------------
(***************************************************************************)
(* The vsbond-auction pallet (src/pallets/vsbond-auction/src/lib.rs): an   *)
(* order book in which an owner sells vsbond for the invoicing currency,   *)
(* or buys vsbond with it, reserving what the order may pay, and any other *)
(* account clinches an order in whole or in part.                          *)
(*                                                                         *)
(* One vsbond type and the invoicing currency are the two tokens; balances *)
(* are the free and reserved balances of orml MultiCurrency. FixedU128 is  *)
(* kept as an integer scaled by Accuracy (10^18 in the code, a small power *)
(* of ten here), which keeps the two roundings of the price computation.   *)
(* Every call is transactional: a failing call is a disabled action.       *)
(***************************************************************************)
EXTENDS Naturals, Sequences, FiniteSets, SequencesExt, TLC

CONSTANTS
  Accounts,            \* signed origins: order owners and opponents
  Amounts,             \* amount / quantity arguments
  Prices,              \* total_price arguments
  MinimumAmount,       \* T::MinimumAmount
  MaximumOrderInTrade, \* T::MaximumOrderInTrade: capacity of UserOrderIds
  Accuracy,            \* FixedU128::accuracy() (DIV)
  UnitPriceRounding,   \* rounding of FixedU128::from((n, d)): "Down" or "NearestPrefDown"
  InitialFree,         \* token -> free balance every account starts with
  MaxOrders            \* NextOrderId bound of the model

Tokens == {"vsbond", "invoicing"}
OrderTypes == {"Buy", "Sell"}
OrderIds == 0 .. MaxOrders - 1

ASSUME UnitPriceRounding \in {"Down", "NearestPrefDown"}
ASSUME InitialFree \in [Tokens -> Nat]

VARIABLES
  nextOrderId,      \* NextOrderId
  userOrderIds,     \* UserOrderIds: account -> order type -> BoundedVec of ids
  totalOrderInfos,  \* TotalOrderInfos: id -> OrderInfo (a partial function)
  free,             \* free balance: account -> token -> amount
  reserved,         \* reserved balance: account -> token -> amount
  lastClinch        \* the last clinch: quantity, price paid and its order (ghost)

vars == <<nextOrderId, userOrderIds, totalOrderInfos, free, reserved, lastClinch>>

OrderInfos ==
  [owner : Accounts, amount : Nat, remain : Nat, total_price : Nat, remain_price : Nat,
   order_id : OrderIds, order_type : OrderTypes]

Clinches == [quantity : Nat, paid : Nat, amount : Nat, total_price : Nat]

TypeOK ==
  /\ nextOrderId \in 0 .. MaxOrders
  /\ userOrderIds \in [Accounts -> [OrderTypes -> BoundedSeq(OrderIds, MaximumOrderInTrade)]]
  /\ DOMAIN totalOrderInfos \subseteq OrderIds
  /\ \A id \in DOMAIN totalOrderInfos : totalOrderInfos[id] \in OrderInfos
  /\ free \in [Accounts -> [Tokens -> Nat]]
  /\ reserved \in [Accounts -> [Tokens -> Nat]]
  /\ lastClinch \in Clinches \cup {<<>>}

Init ==
  /\ nextOrderId = 0
  /\ userOrderIds = [a \in Accounts |-> [t \in OrderTypes |-> <<>>]]
  /\ totalOrderInfos = <<>>
  /\ free = [a \in Accounts |-> InitialFree]
  /\ reserved = [a \in Accounts |-> [t \in Tokens |-> 0]]
  /\ lastClinch = <<>>

(* What an order reserves and pays with: the invoicing currency for a Buy  *)
(* order, the vsbond for a Sell order.                                     *)
OwnerToken(type) == IF type = "Buy" THEN "invoicing" ELSE "vsbond"
OpponentToken(type) == IF type = "Buy" THEN "vsbond" ELSE "invoicing"

(* What an open order still holds in reserve: remain_price or remain. *)
ReservedShare(info) ==
  IF info.order_type = "Buy" THEN info.remain_price ELSE info.remain

(* MultiCurrency::reserve / unreserve (the latter moves at most what is reserved). *)
Reserve(bal, res, a, t, x) ==
  /\ bal' = [bal EXCEPT ![a][t] = @ - x]
  /\ res' = [res EXCEPT ![a][t] = @ + x]

(* Fault variant: nothing is unreserved. *)
UnreservedSkipped(bal, res, a, t, x) == <<bal, res>>

Unreserved(bal, res, a, t, x) ==
  LET moved == Min({x, res[a][t]})
  IN <<[bal EXCEPT ![a][t] = @ + moved], [res EXCEPT ![a][t] = @ - moved]>>

(***************************************************************************)
(* OrderInfo::unit_price: FixedU128::from((total_price, amount)), 0 for a  *)
(* zero amount, as its inner integer (the price times Accuracy).           *)
(***************************************************************************)
UnitPrice(info) ==
  CASE info.amount = 0 -> 0
    [] UnitPriceRounding = "Down" ->
         (info.total_price * Accuracy) \div info.amount
    [] UnitPriceRounding = "NearestPrefDown" ->
         (2 * info.total_price * Accuracy + info.amount - 1) \div (2 * info.amount)

(* price_to_pay: (unit_price * quantity).floor() / accuracy. *)
PriceToPay(quantity, unitPrice) == (unitPrice * quantity) \div Accuracy

(* next_order_id: the stored id, then NextOrderId += 1. *)
NextOrderIdBumped == nextOrderId' = nextOrderId + 1

(* Fault variant: the balance check dropped. *)
CanReserveUnchecked(a, t, x) == TRUE

(* MultiCurrency::can_reserve: the free balance covers the amount. *)
CanReserve(a, t, x) == free[a][t] >= x

(***************************************************************************)
(* create_order: amount above the minimum, can_reserve, fewer than         *)
(* MaximumOrderInTrade orders of that type in trade, then reserve, insert  *)
(* and append the id (the KSM/DOT vsbond check is left to the data         *)
(* abstraction: the model has one valid vsbond).                           *)
(***************************************************************************)
CreateOrder(owner, amount, totalPrice, type) ==
  LET reservedAmount == IF type = "Buy" THEN totalPrice ELSE amount
      id == nextOrderId
  IN /\ amount > MinimumAmount
     /\ CanReserve(owner, OwnerToken(type), reservedAmount)
     /\ Len(userOrderIds[owner][type]) < MaximumOrderInTrade
     /\ id \in OrderIds
     /\ NextOrderIdBumped
     /\ Reserve(free, reserved, owner, OwnerToken(type), reservedAmount)
     /\ totalOrderInfos' = (id :> [owner |-> owner, amount |-> amount, remain |-> amount,
                                   total_price |-> totalPrice, remain_price |-> totalPrice,
                                   order_id |-> id, order_type |-> type]) @@ totalOrderInfos
     /\ userOrderIds' = [userOrderIds EXCEPT ![owner][type] = Append(@, id)]
     /\ UNCHANGED lastClinch

(* Fault variant: the id stays in UserOrderIds. *)
TryToRemoveOrderIdSkipped(ids, account, type, id) == ids

(* try_to_remove_order_id: remove the first position holding the id, if any. *)
TryToRemoveOrderId(ids, account, type, id) ==
  [ids EXCEPT ![account][type] = RemoveFirst(@, id)]

DropOrder(id) == [x \in DOMAIN totalOrderInfos \ {id} |-> totalOrderInfos[x]]

(* revoke_order: by its owner; unreserves what the order still holds. *)
RevokeOrder(from, id) ==
  /\ id \in DOMAIN totalOrderInfos
  /\ LET info == totalOrderInfos[id]
         t == OwnerToken(info.order_type)
         after == Unreserved(free, reserved, info.owner, t, ReservedShare(info))
     IN /\ info.owner = from
        /\ reserved[info.owner][t] >= ReservedShare(info)
        /\ free' = after[1]
        /\ reserved' = after[2]
        /\ totalOrderInfos' = DropOrder(id)
        /\ userOrderIds' = TryToRemoveOrderId(userOrderIds, info.owner, info.order_type, id)
  /\ UNCHANGED <<nextOrderId, lastClinch>>

(* MultiCurrency::transfer from a's free balance to b's. *)
Transfer(bal, t, a, b, x) ==
  [bal EXCEPT ![a][t] = @ - x, ![b][t] = @ + x]

(* Fault variant: remain_price is not decreased by the price paid. *)
SaturatingSubIgnored(x, y) == x

SaturatingSub(x, y) == IF x >= y THEN x - y ELSE 0

(***************************************************************************)
(* partial_clinch_order(opponent, id, quantity) for a non-zero quantity    *)
(* (zero returns Ok at once, a stutter): not the owner's own order; the    *)
(* quantity is capped at remain and priced with price_to_pay; the         *)
(* opponent must be able to pay; the owner's side is unreserved, then the  *)
(* two transfers; a fully clinched order is removed (a Buy order's         *)
(* leftover remain_price unreserved), else stored with the new remains.    *)
(***************************************************************************)
PartialClinchOrder(opponent, id, quantity) ==
  /\ quantity # 0
  /\ id \in DOMAIN totalOrderInfos
  /\ LET info == totalOrderInfos[id]
         qc == Min({info.remain, quantity})
         price == PriceToPay(qc, UnitPrice(info))
         type == info.order_type
         ownerAmount == IF type = "Buy" THEN price ELSE qc
         opponentAmount == IF type = "Buy" THEN qc ELSE price
         newInfo == [info EXCEPT !.remain = IF qc = info.remain THEN 0 ELSE @ - qc,
                                 !.remain_price = SaturatingSub(@, price)]
         unreserved == Unreserved(free, reserved, info.owner, OwnerToken(type), ownerAmount)
         paidOwner == Transfer(unreserved[1], OwnerToken(type), info.owner, opponent, ownerAmount)
         paidBoth == Transfer(paidOwner, OpponentToken(type), opponent, info.owner, opponentAmount)
         leftover == Unreserved(paidBoth, unreserved[2], info.owner, OwnerToken(type),
                                newInfo.remain_price)
     IN /\ info.owner # opponent
        /\ free[opponent][OpponentToken(type)] >= opponentAmount
        /\ reserved[info.owner][OwnerToken(type)] >= ownerAmount
        /\ IF newInfo.remain = 0
           THEN /\ totalOrderInfos' = DropOrder(id)
                /\ userOrderIds' = TryToRemoveOrderId(userOrderIds, info.owner, type, id)
                /\ IF type = "Buy"
                   THEN /\ free' = leftover[1]
                        /\ reserved' = leftover[2]
                   ELSE /\ free' = paidBoth
                        /\ reserved' = unreserved[2]
           ELSE /\ totalOrderInfos' = [totalOrderInfos EXCEPT ![id] = newInfo]
                /\ free' = paidBoth
                /\ reserved' = unreserved[2]
                /\ UNCHANGED userOrderIds
        /\ lastClinch' = [quantity |-> qc, paid |-> price,
                          amount |-> info.amount, total_price |-> info.total_price]
  /\ UNCHANGED nextOrderId

(* clinch_order: partial_clinch_order for the whole remain. *)
ClinchOrder(opponent, id) ==
  /\ id \in DOMAIN totalOrderInfos
  /\ PartialClinchOrder(opponent, id, totalOrderInfos[id].remain)

Next ==
  \/ \E a \in Accounts, x \in Amounts, p \in Prices, t \in OrderTypes : CreateOrder(a, x, p, t)
  \/ \E a \in Accounts, id \in OrderIds : RevokeOrder(a, id) \/ ClinchOrder(a, id)
  \/ \E a \in Accounts, id \in OrderIds, q \in Amounts : PartialClinchOrder(a, id, q)

Spec == Init /\ [][Next]_vars

(***************************************************************************)
(* Properties                                                              *)
(***************************************************************************)

(* The open orders of an account in a token. *)
OpenOrders(a, t) ==
  {id \in DOMAIN totalOrderInfos :
     totalOrderInfos[id].owner = a /\ OwnerToken(totalOrderInfos[id].order_type) = t}

(* What an account has reserved in each token is exactly what its open     *)
(* orders still hold: remain for Sell orders, remain_price for Buy orders. *)
(* Partial clinches unreserve the price they pay, saturating_sub keeps     *)
(* remain_price, and the last clinch of a Buy order unreserves the rest;   *)
(* a price above remain_price would take another order's reserve.          *)
ReservedMatchesOpenOrders ==
  \A a \in Accounts, t \in Tokens :
    reserved[a][t] = SumFunctionOnSet([id \in DOMAIN totalOrderInfos |->
                                          ReservedShare(totalOrderInfos[id])],
                                      OpenOrders(a, t))

(* UserOrderIds lists exactly the orders in trade of each owner and type:  *)
(* create_order appends, and revoke_order and the last clinch remove the   *)
(* id with try_to_remove_order_id, so MaximumOrderInTrade counts open      *)
(* orders only.                                                            *)
UserOrderIdsMatchOrders ==
  \A a \in Accounts, type \in OrderTypes, id \in OrderIds :
    Contains(userOrderIds[a][type], id) <=>
      /\ id \in DOMAIN totalOrderInfos
      /\ totalOrderInfos[id].owner = a
      /\ totalOrderInfos[id].order_type = type

(* The price of a clinch is the order's unit price times the quantity,     *)
(* rounded up ("Get the price(round up) needed to pay", price_to_pay): no  *)
(* clinch pays less than quantity * total_price / amount.                  *)
ClinchPaysRoundedUp ==
  lastClinch # <<>> =>
    lastClinch.paid * lastClinch.amount >= lastClinch.quantity * lastClinch.total_price

=============================================================================
