------------------------------ MODULE MCRatchet ------------------------------
(* Small instances of Ratchet for TLC.  Generation numbers are 4 bits wide  *)
(* (0 .. 15); the sender may seal 6 messages and the receiver tolerates a  *)
(* gap of 2, so in-window, out-of-window and cached deliveries all occur.  *)
EXTENDS Ratchet

MCW == 4
MCMaxGeneration == 6
MCMaxSkip == 2

\* No forgeries: an honest network that loses, duplicates and reorders.
MCForgedNone == {}
\* Forged copies of sealed generations 1 and 3 and of the future generation 6,
\* all within the positive half of the signed range.
MCForgedInRange == {1, 3, 6}
\* A forged generation whose distance from the receiver's 0 is >= 2^(W-1).
MCForgedFar == {12}
=============================================================================
