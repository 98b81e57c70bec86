------------------------------- MODULE TimeUnit -------------------------------
(***************************************************************************)
(* The TimeUnit of src/primitives/src/lib.rs: an era, slashing span,       *)
(* round, kblock or hour number, with add_one, add, and the hand-written   *)
(* PartialEq, Ord and PartialOrd. The u32 payload is kept with a width of  *)
(* Bits bits, which keeps saturation at the top.                           *)
(*                                                                         *)
(* The operators are checked over every pair of TimeUnits: the state is a  *)
(* pair (x, y) chosen in Init and left unchanged.                          *)
(***************************************************************************)
EXTENDS Naturals, TLC

CONSTANTS Bits  \* width of the u32 payload

Kinds == {"Era", "SlashingSpan", "Round", "Kblock", "Hour"}
U32Max == 2^Bits - 1
TimeUnits == [kind : Kinds, n : 0 .. U32Max]

VARIABLES x, y
vars == <<x, y>>

(* Fault variant: a plain add in place of saturating_add. *)
SaturatingAddUnchecked(a, b) == a + b

(* u32::saturating_add. *)
SaturatingAdd(a, b) == IF a + b > U32Max THEN U32Max ELSE a + b

(* add_one: the same kind, one further, saturating. *)
AddOne(t) == [t EXCEPT !.n = SaturatingAdd(@, 1)]

(* add: defined for two eras only (None otherwise, here {}). *)
Add(t, u) ==
  IF t.kind = "Era" /\ u.kind = "Era" THEN {[kind |-> "Era", n |-> SaturatingAdd(t.n, u.n)]} ELSE {}

(* u32::cmp. *)
NumCmp(a, b) == CASE a < b -> "Less" [] a = b -> "Equal" [] a > b -> "Greater"

(* PartialEq::eq: the same kind and number. *)
Eq(t, u) == t.kind = u.kind /\ t.n = u.n

(* Fault variant: two different kinds compare Equal. *)
CmpMismatchEqual(t, u) == IF t.kind = u.kind THEN NumCmp(t.n, u.n) ELSE "Equal"

(* Ord::cmp: numbers of the same kind compare, any other pair is Less. *)
Cmp(t, u) == IF t.kind = u.kind THEN NumCmp(t.n, u.n) ELSE "Less"

(* PartialOrd::partial_cmp: numbers of the same kind compare, others None. *)
PartialCmp(t, u) == IF t.kind = u.kind THEN NumCmp(t.n, u.n) ELSE "None"

(* The pair is of TimeUnits, and add_one and add yield TimeUnits. *)
TypeOK ==
  /\ x \in TimeUnits /\ y \in TimeUnits
  /\ AddOne(x) \in TimeUnits
  /\ \A s \in Add(x, y) : s \in TimeUnits

Init == x \in TimeUnits /\ y \in TimeUnits

Next == UNCHANGED vars

Spec == Init /\ [][Next]_vars

(***************************************************************************)
(* Properties                                                              *)
(***************************************************************************)

(* The ordering Ord::cmp answers for the pair the other way round. *)
Opposite(o) == CASE o = "Less" -> "Greater" [] o = "Greater" -> "Less" [] o = "Equal" -> "Equal"

(* eq and cmp agree: two TimeUnits are equal exactly when cmp says Equal,  *)
(* and cmp agrees with partial_cmp wherever partial_cmp gives an order     *)
(* (the consistency Rust requires of Eq, Ord and PartialOrd).              *)
CmpConsistentWithEq ==
  /\ Eq(x, y) <=> Cmp(x, y) = "Equal"
  /\ PartialCmp(x, y) # "None" => PartialCmp(x, y) = Cmp(x, y)

(* Ord::cmp is antisymmetric: if x < y then y > x (Rust's Ord contract, on *)
(* which sort, BTreeMap and max rely). cmp falls back to Less for two      *)
(* TimeUnits of different kinds, in both directions.                       *)
CmpAntisymmetric == Cmp(y, x) = Opposite(Cmp(x, y))

=============================================================================
