------------------------------ MODULE MCTransfer ------------------------------
(* The forged-batch instance of Transfer: Alice's object of two chunks of *)
(* three bytes, and an attacker on the wire.                               *)
EXTENDS Transfer

B(s) == [i \in DOMAIN s |-> Byte(s[i])]

MCForgeInputs == {B(<<1, 2, 3, 3, 2, 1>>)}
=============================================================================
