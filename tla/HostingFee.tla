------------------------------ MODULE HostingFee ------------------------------
(***************************************************************************)
(* inner_calculate_vtoken_hosting_fee (src/pallets/slp/src/agents/         *)
(* common.rs): the vtoken a hosting fee of `amount` tokens is worth,       *)
(* amount * vtoken_issuance / token_pool in U256, narrowed to u128, and 0  *)
(* when the pool is empty or the quotient does not fit. Balances are u128  *)
(* in the code; here they have Bits bits and U256 has 2 * Bits.            *)
(*                                                                         *)
(* Checked over every input: the state is (amount, issuance, pool), chosen *)
(* in Init and left unchanged.                                             *)
(***************************************************************************)
EXTENDS Naturals, TLC

CONSTANTS Bits  \* width of u128 in the model

U128Max == 2^Bits - 1
U256Max == 2^(2 * Bits) - 1
(* Option values are sets: {} for None, {v} for Some(v). *)
Some(v) == {v}
Get(o) == CHOOSE v \in o : TRUE

VARIABLES amount, issuance, pool
vars == <<amount, issuance, pool>>

(* U256::checked_mul, checked_div (Option::and_then), and TryInto<u128>. *)
CheckedMul(a, b) == IF a * b > U256Max THEN {} ELSE Some(a * b)
CheckedDiv(o, b) == IF o = {} \/ b = 0 THEN {} ELSE Some(Get(o) \div b)
(* Fault variant: the U256 result is used without the u128 conversion check. *)
TryIntoU128Unchecked(o) == o

TryIntoU128(o) == IF o = {} \/ Get(o) > U128Max THEN {} ELSE o

(* Fault variant: the quotient is rounded up. *)
CalculateHostingFeeCeil(a, i, p) ==
  IF p = 0 \/ (a * i + p - 1) \div p > U128Max THEN 0 ELSE (a * i + p - 1) \div p

(* inner_calculate_vtoken_hosting_fee for amount > 0 (else AmountZero):    *)
(* the chain of checked operations, then unwrap_or_else(Zero::zero).       *)
CalculateHostingFee(a, i, p) ==
  LET r == TryIntoU128(CheckedDiv(CheckedMul(a, i), p))
  IN IF r = {} THEN 0 ELSE Get(r)

(* The inputs are u128 and so is the fee computed from them. *)
TypeOK ==
  /\ amount \in 1 .. U128Max
  /\ issuance \in 0 .. U128Max
  /\ pool \in 0 .. U128Max
  /\ CalculateHostingFee(amount, issuance, pool) \in 0 .. U128Max

Init ==
  /\ amount \in 1 .. U128Max
  /\ issuance \in 0 .. U128Max
  /\ pool \in 0 .. U128Max

Next == UNCHANGED vars

Spec == Init /\ [][Next]_vars

(***************************************************************************)
(* Properties                                                              *)
(***************************************************************************)

(* The reference: the vtoken worth amount tokens at the pool's rate,       *)
(* rounded down: the largest f with f * pool <= amount * issuance.         *)
FairShare(a, i, p) == CHOOSE f \in 0 .. a * i : f * p <= a * i /\ (f + 1) * p > a * i

(* Whenever the pool is not empty and the fair share fits in a u128, the   *)
(* fee is exactly the fair share rounded down: the U256 intermediate never *)
(* loses the product, and the division never rounds up (the fee charged    *)
(* never exceeds what the amount is worth).                                *)
HostingFeeIsFairShare ==
  pool > 0 /\ FairShare(amount, issuance, pool) <= U128Max =>
    CalculateHostingFee(amount, issuance, pool) = FairShare(amount, issuance, pool)

=============================================================================
