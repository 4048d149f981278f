----------------------------- MODULE Base58Ref ------------------------------
(***************************************************************************)
(* Pure operators of the Base58 conversion, for TLC only (they fold and    *)
(* recurse over sequences and numbers).                                    *)
(*   IntFromBytes   int.from_bytes(d, byteorder='big') of the source;      *)
(*   SpecEncode     Base58Codec.encode as the specification states it;     *)
(*   SpecDecode     Base58Codec.decode as the specification states it.     *)
(***************************************************************************)
EXTENDS Base58Params, SequencesExt

(* int.from_bytes(d, byteorder='big'): the bytes of d, most significant  *)
(* first, as one number.                                                  *)
IntFromBytes(d) == FoldLeft(LAMBDA acc, b : acc * ByteBase + b, 0, d)

(* The number of leading zeros of s (zero bytes, or '1' characters).      *)
RECURSIVE LeadCount(_)
LeadCount(s) == IF s # <<>> /\ Head(s) = 0 THEN 1 + LeadCount(Tail(s)) ELSE 0

Zeros(k) == [j \in 1 .. k |-> 0]

(* The digits of v in base r, most significant first, none for v = 0.     *)
RECURSIVE DigitsIn(_, _)
DigitsIn(v, r) == IF v = 0 THEN <<>> ELSE DigitsIn(v \div r, r) \o <<v % r>>

(* The value of a digit sequence in base r, most significant first.       *)
ValueIn(s, r) == FoldLeft(LAMBDA acc, c : acc * r + c, 0, s)

(* Spec 4.2 encode: one '1' per leading zero byte, then the base-58      *)
(* digits of the big-endian integer.                                      *)
SpecEncode(d) == Zeros(LeadCount(d)) \o DigitsIn(IntFromBytes(d), Radix)

(* Spec 4.2 decode: one zero byte per leading '1', then the minimal       *)
(* big-endian bytes of the base-58 number.                                *)
SpecDecode(s) == Zeros(LeadCount(s)) \o DigitsIn(ValueIn(s, Radix), ByteBase)
=============================================================================
