--------------------------- MODULE SequenceNumber ---------------------------
(***************************************************************************)
(* Arithmetic of SequenceNumber<T> (utils/packet_id.rs): wrapping sums of  *)
(* fixed-width integers and the order and distance that a clipping window  *)
(* gives them near the wrap.  The width is a parameter: u16 is Modulus =   *)
(* 65536.  Every operand is a number of Ids, so one conditional            *)
(* subtraction is exactly wrapping_add / wrapping_sub.                     *)
(***************************************************************************)
EXTENDS Integers

CONSTANT Modulus   \* number of values of T; T::max_value() is Modulus - 1

ASSUME ModulusAssumption == Modulus \in Nat \ {0}

Ids == 0 .. Modulus - 1
MaxValue == Modulus - 1

\* Faulty: a sum that does not wrap.
PlainAdd(a, b) == a + b

WrappingAdd(a, b) == IF a + b > MaxValue THEN a + b - Modulus ELSE a + b

\* Faulty: a difference that does not wrap.
PlainSub(a, b) == a - b

WrappingSub(a, b) == IF a < b THEN a - b + Modulus ELSE a - b

\* SequenceNumber::is_less with clipping_window = Some(w).
IsLess(a, b, w) ==
  IF a < w
  THEN a < b /\ b < MaxValue - w
  ELSE \/ a < b
       \/ a > MaxValue - w /\ WrappingAdd(a, w) >= b

Gap(a, b) == IF a > b THEN a - b ELSE b - a

\* SequenceNumber::difference with clipping_window = Some(w).
Difference(a, b, w) ==
  IF a < w /\ b > MaxValue - w
  THEN MaxValue - b + a + 1
  ELSE IF a >= w /\ b < w /\ a > MaxValue - w
       THEN MaxValue - a + b + 1
       ELSE Gap(a, b)
=============================================================================
