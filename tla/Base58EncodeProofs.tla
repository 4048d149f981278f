------------------------- MODULE Base58EncodeProofs -------------------------
(***************************************************************************)
(* Proofs about base58_encode (module Base58Encode), for every ByteBase,   *)
(* Radix > 1 and every set of inputs.                                      *)
(*                                                                         *)
(* LeadingOnesLaw is not inductive: it speaks only of returned calls.  The *)
(* strengthening IInv says what holds inside the two loops:                *)
(*   - in the while loop, once n = 0 the result does not start with a      *)
(*     digit 0 (the last digit prepended was n itself, 0 < n < Radix);     *)
(*   - in the for loop, the bytes before i are all 0 and the result        *)
(*     starts with exactly i-1 digits 0;                                   *)
(*   - after a return, additionally, byte i is not a leading zero.         *)
(***************************************************************************)
EXTENDS Base58Encode, TLAPS

(* The state of the for loop: the first k bytes of data were zero, and    *)
(* result has exactly k leading '1' characters.                           *)
ZerosDone(k) ==
    /\ k \in 0 .. Len(data)
    /\ \A j \in 1 .. k : data[j] = 0
    /\ LeadingZeros(result, k)

IInv ==
    /\ TypeOK
    /\ pc = "divmod" /\ n = 0 => LeadingZeros(result, 0)
    /\ pc = "zeros" => ZerosDone(i - 1)
    /\ done => /\ pc = "idle"
               /\ ZerosDone(i - 1)
               /\ ~(i <= Len(data) /\ data[i] = 0)

USE BaseAssumption DEF Byte, Digit, One

-----------------------------------------------------------------------------
(* Prepending one digit to a sequence of digits.                          *)
LEMMA ConsDigits ==
    ASSUME NEW s \in Seq(Digit), NEW x \in Digit
    PROVE  /\ <<x>> \o s \in Seq(Digit)
           /\ Len(<<x>> \o s) = Len(s) + 1
           /\ (<<x>> \o s)[1] = x
           /\ \A j \in 2 .. Len(s) + 1 : (<<x>> \o s)[j] = s[j - 1]
OBVIOUS

(* Prepending a '1' to a result with k leading '1's gives k+1 of them.    *)
LEMMA PrependOneLeading ==
    ASSUME NEW s \in Seq(Digit), NEW k \in Nat, LeadingZeros(s, k)
    PROVE  LeadingZeros(<<One>> \o s, k + 1)
<1>1. One \in Digit
  OBVIOUS
<1>2. /\ Len(<<One>> \o s) = Len(s) + 1
      /\ (<<One>> \o s)[1] = 0
      /\ \A j \in 2 .. Len(s) + 1 : (<<One>> \o s)[j] = s[j - 1]
  BY <1>1, ConsDigits
<1>. QED
  BY <1>2 DEF LeadingZeros

-----------------------------------------------------------------------------
(* Type correctness.  done is Boolean-valued, which Zenon handles and   *)
(* SMT does not; the other conjuncts need arithmetic, which SMT handles.  *)
NumTypeOK ==
    /\ pc \in {"idle", "divmod", "zeros"}
    /\ data \in Seq(Byte)
    /\ n \in Nat
    /\ result \in Seq(Digit)
    /\ i \in 1 .. Len(data) + 1

LEMMA TypeSplit == TypeOK <=> NumTypeOK /\ done \in BOOLEAN
  BY Zenon DEF TypeOK, NumTypeOK

(* One step of the while loop keeps n a natural and yields a digit.      *)
LEMMA DivModArith ==
    ASSUME NEW m \in Nat
    PROVE  m % Radix \in Digit /\ m \div Radix \in Nat
OBVIOUS

LEMMA TypeStep == TypeOK /\ [Next]_vars => TypeOK'
<1> SUFFICES ASSUME TypeOK, [Next]_vars PROVE TypeOK'
  OBVIOUS
<1>0. NumTypeOK /\ done \in BOOLEAN
  BY TypeSplit
<1>1. done' \in BOOLEAN
  BY <1>0, Zenon DEF Next, Body, Call, DivMod, EndDivMod, PrependOne, Return, vars
<1>2. NumTypeOK'
  <2>1. ASSUME NEW d \in Inputs, Call(d) PROVE NumTypeOK'
    <3>1. d \in Seq(Byte) /\ ToInt(d) \in Nat
      BY InputsAssumption, ToIntAssumption
    <3>. QED
      BY <2>1, <3>1 DEF Call, NumTypeOK
  <2>2. CASE DivMod
    <3>1. n % Radix \in Digit /\ n \div Radix \in Nat
      BY <1>0, DivModArith DEF NumTypeOK
    <3>2. <<n % Radix>> \o result \in Seq(Digit)
      BY <1>0, <3>1, ConsDigits DEF NumTypeOK
    <3>. QED
      BY <1>0, <2>2, <3>1, <3>2 DEF DivMod, NumTypeOK
  <2>3. CASE EndDivMod
    BY <1>0, <2>3 DEF EndDivMod, NumTypeOK
  <2>4. CASE PrependOne
    BY <1>0, <2>4, ConsDigits DEF PrependOne, NumTypeOK
  <2>5. CASE Return
    BY <1>0, <2>5 DEF Return, NumTypeOK
  <2>6. CASE UNCHANGED vars
    BY <1>0, <2>6 DEF vars, NumTypeOK
  <2>. QED
    BY <2>1, <2>2, <2>3, <2>4, <2>5, <2>6 DEF Next, Body
<1>. QED
  BY <1>1, <1>2, Zenon DEF TypeOK, NumTypeOK

LEMMA TypeInit == Init => TypeOK
<1> SUFFICES ASSUME Init PROVE NumTypeOK /\ done \in BOOLEAN
  BY Zenon DEF TypeOK, NumTypeOK
<1>1. done \in BOOLEAN
  BY Zenon DEF Init
<1>2. NumTypeOK
  BY DEF Init, NumTypeOK
<1>. QED
  BY <1>1, <1>2

(* Type correctness: every variable of base58_encode keeps its type.      *)
THEOREM TypeCorrect == Spec => []TypeOK
  BY TypeInit, TypeStep, PTL DEF Spec
-----------------------------------------------------------------------------
(* The for loop, the while loop and the return keep IInv.                 *)
LEMMA InvInit == Init => IInv
<1> SUFFICES ASSUME Init PROVE IInv
  OBVIOUS
<1>1. TypeOK
  BY TypeInit
<1>2. pc = "idle" /\ ~done
  BY Zenon DEF Init
<1>. QED
  BY <1>1, <1>2, Zenon DEF IInv

LEMMA InvStep == IInv /\ [Next]_vars => IInv'
<1> SUFFICES ASSUME IInv, [Next]_vars PROVE IInv'
  OBVIOUS
<1>0. /\ TypeOK /\ NumTypeOK /\ TypeOK'
      /\ pc = "divmod" /\ n = 0 => LeadingZeros(result, 0)
      /\ pc = "zeros" => ZerosDone(i - 1)
      /\ done => /\ pc = "idle"
                 /\ ZerosDone(i - 1)
                 /\ ~(i <= Len(data) /\ data[i] = 0)
  BY TypeStep, TypeSplit, Zenon DEF IInv
<1>1. ASSUME NEW d \in Inputs, Call(d) PROVE IInv'
  <2>1. pc' = "divmod" /\ ~done'
    BY <1>1, Zenon DEF Call
  <2>2. LeadingZeros(result', 0)
    BY <1>1 DEF Call, LeadingZeros
  <2>. QED
    BY <1>0, <2>1, <2>2, Zenon DEF IInv
<1>2. CASE DivMod
  <2>1. pc' = "divmod" /\ pc = "divmod" /\ done' = done /\ ~done
    BY <1>0, <1>2, Zenon DEF DivMod
  <2>2. n' = 0 => LeadingZeros(result', 0)
    <3>1. n \in Nat /\ n > 0 /\ result \in Seq(Digit)
      BY <1>0, <1>2 DEF NumTypeOK, DivMod
    <3>2. n % Radix \in Digit
      BY <3>1, DivModArith
    <3>3. (<<n % Radix>> \o result)[1] = n % Radix /\ Len(<<n % Radix>> \o result) > 0
      BY <3>1, <3>2, ConsDigits
    <3>4. n \div Radix = 0 => n % Radix # 0
      BY <3>1
    <3>. QED
      BY <1>2, <3>3, <3>4 DEF DivMod, LeadingZeros
  <2>. QED
    BY <1>0, <2>1, <2>2, Zenon DEF IInv
<1>3. CASE EndDivMod
  <2>1. pc' = "zeros" /\ pc = "divmod" /\ n = 0 /\ ~done /\ done' = done
    BY <1>0, <1>3, Zenon DEF EndDivMod
  <2>2. ZerosDone(i - 1)'
    BY <1>0, <1>3, <2>1 DEF EndDivMod, ZerosDone, NumTypeOK
  <2>. QED
    BY <1>0, <2>1, <2>2, Zenon DEF IInv
<1>4. CASE PrependOne
  <2>1. pc' = "zeros" /\ pc = "zeros" /\ ~done /\ done' = done
    BY <1>0, <1>4, Zenon DEF PrependOne
  <2>2. ZerosDone(i - 1)
    BY <1>0, <2>1
  <2>3. LeadingZeros(<<One>> \o result, (i - 1) + 1)
    BY <1>0, <2>2, PrependOneLeading DEF ZerosDone, NumTypeOK
  <2>4. ZerosDone(i - 1)'
    BY <1>0, <1>4, <2>2, <2>3 DEF PrependOne, ZerosDone, NumTypeOK
  <2>. QED
    BY <1>0, <2>1, <2>4, Zenon DEF IInv
<1>5. CASE Return
  <2>1. pc' = "idle" /\ pc = "zeros" /\ done'
    BY <1>5, Zenon DEF Return
  <2>2. ZerosDone(i - 1)' /\ ~(i' <= Len(data') /\ data'[i'] = 0)
    BY <1>0, <1>5, <2>1 DEF Return, ZerosDone
  <2>. QED
    BY <1>0, <2>1, <2>2, Zenon DEF IInv
<1>6. CASE UNCHANGED vars
  BY <1>0, <1>6, Zenon DEF IInv, vars, ZerosDone, LeadingZeros
<1>. QED
  BY <1>1, <1>2, <1>3, <1>4, <1>5, <1>6 DEF Next, Body

LEMMA InvImpliesLaw == IInv => LeadingOnesLaw
<1> SUFFICES ASSUME IInv, done
             PROVE  \E k \in 0 .. Len(data) : LeadingZeros(data, k) /\ LeadingZeros(result, k)
  BY Zenon DEF LeadingOnesLaw
<1>1. ZerosDone(i - 1) /\ ~(i <= Len(data) /\ data[i] = 0) /\ NumTypeOK
  BY TypeSplit, Zenon DEF IInv
<1>2. LeadingZeros(data, i - 1) /\ LeadingZeros(result, i - 1)
  BY <1>1 DEF ZerosDone, LeadingZeros, NumTypeOK
<1>3. i - 1 \in 0 .. Len(data)
  BY <1>1 DEF ZerosDone
<1>. QED
  BY <1>2, <1>3

(* Leading-zero law of base58_encode: whenever a call has returned, the   *)
(* result starts with exactly as many '1' characters as the input has     *)
(* leading zero bytes, for every input and every radix.                   *)
THEOREM LeadingOnes == Spec => []LeadingOnesLaw
  BY InvInit, InvStep, InvImpliesLaw, PTL DEF Spec
=============================================================================
