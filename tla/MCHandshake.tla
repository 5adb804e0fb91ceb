----------------------------- MODULE MCHandshake -----------------------------
(* Two honest principals and Mallory: Alice dials Bob directly (c0), Alice *)
(* dials Mallory (c1) and Mallory dials Bob (c2), so Mallory sits between  *)
(* Alice and Bob on c1 and c2 while both also have a direct connection.    *)
EXTENDS Handshake, TLC

CONSTANTS Alice, Bob, c0, c1, c2

MCHonest == {Alice, Bob}
MCConns == {c0, c1, c2}
MCDialer == (c0 :> Alice) @@ (c1 :> Alice) @@ (c2 :> Mallory)
MCListener == (c0 :> Bob) @@ (c1 :> Mallory) @@ (c2 :> Bob)
=============================================================================
