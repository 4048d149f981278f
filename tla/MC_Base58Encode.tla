-------------------------- MODULE MC_Base58Encode ---------------------------
(***************************************************************************)
(* Model-checking instance of Base58Encode: int.from_bytes is the          *)
(* big-endian fold of Base58Ref, the inputs are all byte strings up to     *)
(* MaxLen over a few bytes chosen so that zero bytes lead, sit inside and  *)
(* trail, and remainders 0, 1 and Radix-1 all occur.                       *)
(***************************************************************************)
EXTENDS Base58Encode, Base58Ref

CONSTANTS SampleBytes, MaxLen

MCInputs == BoundedSeq(SampleBytes, MaxLen)

(* base58_encode implements the specification's encoder: under the       *)
(* mapping that hides the loop locals while a call runs, every call of    *)
(* the code is a call of Base58Call that returns SpecEncode(data), and    *)
(* every call returns.                                                    *)
Abstract == INSTANCE Base58Call WITH
    pc <- IF pc = "idle" THEN "idle" ELSE "busy",
    result <- IF pc = "idle" THEN result ELSE <<>>

EncodeRefinement == Abstract!Spec
=============================================================================
