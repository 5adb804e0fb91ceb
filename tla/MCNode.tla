------------------------------- MODULE MCNode -------------------------------
(* The connections of MCHandshake, with a transfer on Alice's direct       *)
(* connection to Bob of one object of three chunks, in chunks of three     *)
(* bytes, one of which does not fit a batch uncompressed.                  *)
EXTENDS Node, Bytes, TLC

CONSTANTS Alice, Bob, c0, c1, c2

MCHonest == {Alice, Bob}
MCConns == {c0, c1, c2}
MCDialer == (c0 :> Alice) @@ (c1 :> Alice) @@ (c2 :> Mallory)
MCListener == (c0 :> Bob) @@ (c1 :> Mallory) @@ (c2 :> Bob)
B(s) == [i \in DOMAIN s |-> Byte(s[i])]
MCInputs == {B(<<1, 2, 3, 3, 2, 1, 4>>)}
=============================================================================
