---------------------------- MODULE Base58Params ----------------------------
(***************************************************************************)
(* The two radices of the Base58 conversion in generate_premine_simple.py: *)
(* bytes of the input (int.from_bytes, base 256) and characters of         *)
(* BASE58_ALPHABET (line 16, 58 characters).  A model may shrink both.     *)
(***************************************************************************)
EXTENDS Naturals

CONSTANTS
    ByteBase,   \* 256: a byte is a digit in 0..ByteBase-1
    Radix       \* 58: len(BASE58_ALPHABET)

ASSUME BaseAssumption == ByteBase \in Nat \ {0, 1} /\ Radix \in Nat \ {0, 1}

Byte  == 0 .. ByteBase - 1
Digit == 0 .. Radix - 1

\* The character '1' = BASE58_ALPHABET[0].
One == 0
=============================================================================
