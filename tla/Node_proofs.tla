----------------------------- MODULE Node_proofs -----------------------------
(***************************************************************************)
(* The handshake's authenticity carries over to the node that runs a bulk *)
(* transfer on one of its sessions:                                       *)
(*   NodeAuthentic     Spec => []Authenticity                              *)
(* The transfer's steps leave the handshake's variables alone and the      *)
(* handshake's steps are Handshake's, so Handshake_proofs's inductive      *)
(* invariant IInv holds of every state of Node as well.                    *)
(***************************************************************************)
EXTENDS Node, TLAPS

HP == INSTANCE Handshake_proofs

-----------------------------------------------------------------------------
(* H (Node's instance of Handshake) and HP (of Handshake_proofs, which     *)
(* extends Handshake) name the same operators: each equals its namesake,   *)
(* shown from the bottom of Handshake's definitions up.                    *)

LEMMA SameBasics ==
  /\ H!Roles = HP!Roles /\ H!Principals = HP!Principals
  /\ H!MessageTypeHello = HP!MessageTypeHello
  /\ H!MessageTypeData = HP!MessageTypeData
  /\ \A r : H!Other(r) = HP!Other(r)
  /\ \A c, r : H!EndOf(c, r) = HP!EndOf(c, r)
  /\ \A p : H!PeerIDFromPublicKey(p) = HP!PeerIDFromPublicKey(p)
  /\ \A n : H!Byte(n) = HP!Byte(n)
  /\ \A n, k : H!BE(n, k) = HP!BE(n, k)
  /\ \A s, o, n : H!Slice(s, o, n) = HP!Slice(s, o, n)
  /\ \A s : H!Uint32BE(s) = HP!Uint32BE(s)
  /\ \A a : H!ByteVal(a) = HP!ByteVal(a)
  /\ H!MalloryNonce = HP!MalloryNonce
BY DEF H!Roles, HP!Roles, H!Principals, HP!Principals, H!MessageTypeHello,
       HP!MessageTypeHello, H!MessageTypeData, HP!MessageTypeData,
       H!Other, HP!Other, H!EndOf, HP!EndOf, H!PeerIDFromPublicKey,
       HP!PeerIDFromPublicKey, H!Sha, HP!Sha, H!Byte, HP!Byte, H!BE, HP!BE, H!Slice, HP!Slice,
       H!Uint32BE, HP!Uint32BE, H!ByteVal, HP!ByteVal, H!MalloryNonce, HP!MalloryNonce

LEMMA SameHello ==
  /\ \A p, m : H!Sign(p, m) = HP!Sign(p, m)
  /\ \A h : H!SigningBytes(h) = HP!SigningBytes(h)
  /\ \A p, n : H!SignedHello(p, n) = HP!SignedHello(p, n)
  /\ \A h : H!Verify(h) <=> HP!Verify(h)
  /\ \A h : H!EncodeHello(h) = HP!EncodeHello(h)
  /\ \A p : H!DecodeHello(p) = HP!DecodeHello(p)
  /\ \A t, p : H!WriteFrame(t, p) = HP!WriteFrame(t, p)
  /\ \A c, r : H!LocalHello(c, r) = HP!LocalHello(c, r)
BY SameBasics DEF H!Sign, HP!Sign, H!SigningBytes, HP!SigningBytes,
   H!SignedHello, HP!SignedHello, H!Verify, HP!Verify, H!VerifySig, HP!VerifySig,
   H!EncodeHello, HP!EncodeHello, H!DecodeHello, HP!DecodeHello, H!Ok, HP!Ok,
   H!Err, HP!Err, H!WriteFrame, HP!WriteFrame, H!LocalHello, HP!LocalHello

LEMMA SameFrames ==
  /\ \A s, pos : H!ReadFrame(s, pos) = HP!ReadFrame(s, pos)
  /\ \A f : H!AcceptHello(f) <=> HP!AcceptHello(f)
  /\ H!MalloryFrames = HP!MalloryFrames
<1>1. \A s, pos : H!ReadFrame(s, pos) = HP!ReadFrame(s, pos)
  BY SameBasics DEF H!ReadFrame, HP!ReadFrame
<1>2. \A f : H!AcceptHello(f) <=> HP!AcceptHello(f)
  BY SameBasics, SameHello DEF H!AcceptHello, HP!AcceptHello
<1>3. H!Heard = HP!Heard
  BY SameBasics DEF H!Heard, HP!Heard
<1>4. \A q, pub : H!Claim(q, pub) = HP!Claim(q, pub)
  BY SameBasics, SameHello DEF H!Claim, HP!Claim
<1>6. H!MalloryHellos = HP!MalloryHellos
  BY <1>3, <1>4, SameBasics, SameHello DEF H!MalloryHellos, HP!MalloryHellos
<1>5. H!MalloryFrames = HP!MalloryFrames
  BY <1>6, SameBasics, SameHello DEF H!MalloryFrames, HP!MalloryFrames
<1>. QED BY <1>1, <1>2, <1>5

LEMMA SameSpec ==
  /\ H!HandshakeAssumption <=> HP!HandshakeAssumption
  /\ H!Init <=> HP!Init
  /\ H!vars = HP!vars
  /\ H!Authenticity <=> HP!Authenticity
  /\ H!Next <=> HP!Next
<1>1. H!HandshakeAssumption <=> HP!HandshakeAssumption
  BY SameBasics DEF H!HandshakeAssumption, HP!HandshakeAssumption
<1>2. H!Init <=> HP!Init
  BY SameBasics, SameHello DEF H!Init, HP!Init, H!NoHello, HP!NoHello
<1>3. H!vars = HP!vars
  BY DEF H!vars, HP!vars
<1>4. H!Authenticity <=> HP!Authenticity
  BY SameBasics DEF H!Authenticity, HP!Authenticity, H!HonestPeerIDs, HP!HonestPeerIDs
<1>5. \A c : H!ClientHello(c) <=> HP!ClientHello(c)
  BY SameBasics, SameHello DEF H!ClientHello, HP!ClientHello
<1>6. \A c : H!ClientRead(c) <=> HP!ClientRead(c)
  BY SameBasics, SameHello, SameFrames DEF H!ClientRead, HP!ClientRead
<1>7. \A c : H!ServerRead(c) <=> HP!ServerRead(c)
  BY SameBasics, SameHello, SameFrames DEF H!ServerRead, HP!ServerRead
<1>8. \A c, r : H!MalloryWrite(c, r) <=> HP!MalloryWrite(c, r)
  BY SameBasics, SameFrames DEF H!MalloryWrite, HP!MalloryWrite
<1>9. H!Next <=> HP!Next
  BY <1>5, <1>6, <1>7, <1>8, SameBasics DEF H!Next, HP!Next
<1>. QED BY <1>1, <1>2, <1>3, <1>4, <1>9

LEMMA NodeInit == Init => HP!IInv
BY NodeAssumption, HP!InitIInv, SameSpec DEF Init

LEMMA NodeStep == HP!IInv /\ [Next]_vars => HP!IInv'
<1> SUFFICES ASSUME HP!IInv, [Next]_vars PROVE HP!IInv'
  OBVIOUS
<1>1. [HP!Next]_(HP!vars)
  BY SameSpec DEF Next, vars, hvars, HP!vars
<1>. QED BY <1>1, NodeAssumption, SameSpec, HP!StepIInv

\* Running a transfer on DataConn does not weaken the handshake: a session
\* any end of any connection builds naming an honest principal's PeerID
\* still rests on a HELLO that principal made, bound to its key.
THEOREM NodeAuthentic == Spec => []Authenticity
<1>1. Init => HP!IInv
  BY NodeInit
<1>2. HP!IInv /\ [Next]_vars => HP!IInv'
  BY NodeStep
<1>3. HP!IInv => Authenticity
  BY NodeAssumption, SameSpec, HP!IInvAuthenticity DEF Authenticity
<1>. QED BY <1>1, <1>2, <1>3, PTL DEF Spec

=============================================================================
