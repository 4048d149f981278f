----------------------------- MODULE Base58Call -----------------------------
(***************************************************************************)
(* What a call of base58_encode promises (spec 4.2, Base58Codec.encode):   *)
(* a call with data d eventually returns, in one step, the string          *)
(* SpecEncode(d); nothing else is observable.  Base58Encode implements it  *)
(* (see MC_Base58Encode).                                                  *)
(***************************************************************************)
EXTENDS Base58Ref

CONSTANT Inputs

VARIABLES pc, data, result, done

avars == <<pc, data, result, done>>

Init ==
    /\ pc = "idle"
    /\ data = <<>>
    /\ result = <<>>
    /\ done = FALSE

Call(d) ==
    /\ pc = "idle"
    /\ pc' = "busy"
    /\ data' = d
    /\ result' = <<>>
    /\ done' = FALSE

Return ==
    /\ pc = "busy"
    /\ pc' = "idle"
    /\ result' = SpecEncode(data)
    /\ done' = TRUE
    /\ UNCHANGED data

Next == (\E d \in Inputs : Call(d)) \/ Return

Spec == Init /\ [][Next]_avars /\ WF_avars(Return)
=============================================================================
