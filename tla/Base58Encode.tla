---------------------------- MODULE Base58Encode ----------------------------
(***************************************************************************)
(* The Base58 encoder base58_encode(data) of                               *)
(* src/generate_premine_simple.py (lines 28-46), step by step:             *)
(*                                                                         *)
(*    n = int.from_bytes(data, byteorder='big')                            *)
(*    result = ""                                                          *)
(*    while n > 0:                                                         *)
(*        n, remainder = divmod(n, 58)                                     *)
(*        result = BASE58_ALPHABET[remainder] + result                     *)
(*    for byte in data:                                                    *)
(*        if byte == 0: result = '1' + result                              *)
(*        else: break                                                      *)
(*    return result                                                        *)
(*                                                                         *)
(* A character of the result is represented by its index in               *)
(* BASE58_ALPHABET (a digit in 0..Radix-1); the alphabet is a bijection    *)
(* from digits to characters and '1' is the character of digit 0.         *)
(* The function is called again and again by a caller (generate_address,  *)
(* generate_wif) with inputs from the finite set Inputs; each call starts  *)
(* from fresh locals.                                                      *)
(***************************************************************************)
EXTENDS Base58Params, Sequences

CONSTANTS
    Inputs,     \* the byte strings a caller passes in
    ToInt(_)    \* int.from_bytes(_, byteorder='big')

ASSUME InputsAssumption == Inputs \subseteq Seq(Byte)
ASSUME ToIntAssumption == \A d \in Inputs : ToInt(d) \in Nat

VARIABLES
    pc,      \* "idle" (no call running), "divmod" (while loop), "zeros" (for loop)
    data,    \* the argument of the current (or last) call
    n,       \* the local n
    result,  \* the local result, as a sequence of digits
    i,       \* the position of the for loop in data (1-based)
    done     \* a call has returned result for data

vars == <<pc, data, n, result, i, done>>

Init ==
    /\ pc = "idle"
    /\ data = <<>>
    /\ n = 0
    /\ result = <<>>
    /\ i = 1
    /\ done = FALSE

(* Mutant: the locals of the previous call are not reset.                *)
CallKeepResult(d) ==
    /\ pc = "idle"
    /\ pc' = "divmod"
    /\ data' = d
    /\ n' = ToInt(d)
    /\ i' = 1
    /\ done' = FALSE
    /\ UNCHANGED result

(* A caller calls base58_encode(d): n = int.from_bytes(d), result = "".   *)
Call(d) ==
    /\ pc = "idle"
    /\ pc' = "divmod"
    /\ data' = d
    /\ n' = ToInt(d)
    /\ result' = <<>>
    /\ i' = 1
    /\ done' = FALSE

(* Mutant: the loop test is n >= 0, so a digit 0 can be prepended.      *)
DivModAtZero ==
    /\ pc = "divmod"
    /\ n >= 0
    /\ n' = n \div Radix
    /\ result' = <<n % Radix>> \o result
    /\ UNCHANGED <<pc, data, i, done>>

(* One iteration of the while loop: divmod and prepend the remainder.      *)
DivMod ==
    /\ pc = "divmod"
    /\ n > 0
    /\ n' = n \div Radix
    /\ result' = <<n % Radix>> \o result
    /\ UNCHANGED <<pc, data, i, done>>

(* The while loop ends when n = 0; the for loop starts at the first byte. *)
EndDivMod ==
    /\ pc = "divmod"
    /\ n = 0
    /\ pc' = "zeros"
    /\ i' = 1
    /\ UNCHANGED <<data, n, result, done>>

(* Mutant: the for loop advances two bytes per zero byte.                *)
PrependOneSkip ==
    /\ pc = "zeros"
    /\ i <= Len(data)
    /\ data[i] = 0
    /\ result' = <<One>> \o result
    /\ i' = i + 2
    /\ UNCHANGED <<pc, data, n, done>>

(* A zero byte in the leading run prepends a '1' (digit 0).               *)
PrependOne ==
    /\ pc = "zeros"
    /\ i <= Len(data)
    /\ data[i] = 0
    /\ result' = <<One>> \o result
    /\ i' = i + 1
    /\ UNCHANGED <<pc, data, n, done>>

(* The for loop breaks at the first non-zero byte, or runs out of bytes,  *)
(* and the function returns result.                                       *)
Return ==
    /\ pc = "zeros"
    /\ ~(i <= Len(data) /\ data[i] = 0)
    /\ pc' = "idle"
    /\ done' = TRUE
    /\ UNCHANGED <<data, n, result, i>>

Body == DivMod \/ EndDivMod \/ PrependOne \/ Return

Next == (\E d \in Inputs : Call(d)) \/ Body

Spec == Init /\ [][Next]_vars /\ WF_vars(Body)

-----------------------------------------------------------------------------
TypeOK ==
    /\ pc \in {"idle", "divmod", "zeros"}
    /\ data \in Seq(Byte)
    /\ n \in Nat
    /\ result \in Seq(Digit)
    /\ i \in 1 .. Len(data) + 1
    /\ done \in BOOLEAN

(* s starts with exactly k zeros (k zero bytes, or k '1' characters).     *)
LeadingZeros(s, k) ==
    /\ k \in 0 .. Len(s)
    /\ \A j \in 1 .. k : s[j] = 0
    /\ k < Len(s) => s[k + 1] # 0

(* Leading-zero law: a returned string starts with exactly as many '1'   *)
(* characters as the input has leading zero bytes.  It needs the for      *)
(* loop to stop at the first non-zero byte and the while loop never to    *)
(* leave a digit 0 at the front of the converted number.                  *)
LeadingOnesLaw ==
    done => \E k \in 0 .. Len(data) : LeadingZeros(data, k) /\ LeadingZeros(result, k)

=============================================================================
