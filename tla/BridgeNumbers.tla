---------------------------- MODULE BridgeNumbers ----------------------------
(***************************************************************************)
(* The numbers of the bridge: integers of IntBits bits, doubles whose      *)
(* significand has Mantissa bits, and the test by which the worker's end   *)
(* of the bridge (v8_codec.rs, from_v8) decides whether a BigInt travels   *)
(* as a number or as its decimal digits.                                   *)
(***************************************************************************)
EXTENDS Integers

CONSTANTS
  IntBits,   \* bits of the machine's i64
  Mantissa   \* bits of the significand of its f64

ASSUME CodecAssumption == IntBits \in Nat /\ Mantissa \in 1..IntBits

(* F64 rounds to the nearest number of Mantissa bits, ties to even.         *)
Magnitude(i) == IF i < 0 THEN -i ELSE i
Ulp(i) == CHOOSE p \in {2 ^ e : e \in 0..(IntBits + 2)} :
            /\ Magnitude(i) < p * 2 ^ Mantissa
            /\ p = 1 \/ Magnitude(i) >= (p \div 2) * 2 ^ Mantissa
F64(i) ==
  LET p == Ulp(i)
      q == Magnitude(i) \div p
      r == Magnitude(i) % p
      up == 2 * r > p \/ (2 * r = p /\ q % 2 = 1)
      m == p * (IF up THEN q + 1 ELSE q)
  IN IF i < 0 THEN -m ELSE m

MaxI64 == 2 ^ (IntBits - 1) - 1
MaxU64 == 2 ^ IntBits - 1
I64 == -(2 ^ (IntBits - 1)) .. MaxI64
U64 == 0 .. MaxU64

(* A Rust cast from f64 to an integer saturates. *)
Saturate(i, high) == IF i > high THEN high ELSE i

(* Casting the integer to f64 and back gives the same integer. *)
GoesAsNumber(i) ==
  \/ i \in I64 /\ Saturate(F64(i), MaxI64) = i
  \/ i \in U64 /\ Saturate(F64(i), MaxU64) = i
=============================================================================
