--------------------------------- MODULE Node ---------------------------------
(***************************************************************************)
(* A bulk transfer carried by an authenticated session: the Handshake of   *)
(* the connection DataConn and a Transfer between its two ends, alongside  *)
(* handshakes on the other connections, Mallory's among them.  spec.md's  *)
(* Session invariant fixes how the two compose: no application stream is   *)
(* opened or accepted before the session is ESTABLISHED, so the sender     *)
(* (the dialer, which opens the pool's streams with Session.OpenStream)   *)
(* starts only once its HandshakeClient has returned, and the receiver     *)
(* (Session.AcceptStream) reads batches and assembles only once its        *)
(* HandshakeServer has.                                                     *)
(***************************************************************************)
EXTENDS Naturals

CONSTANTS
    Inputs, ChunkSize, MaxBatchSize,
    Honest, Mallory, NoKey, NoPeer, Conns, Dialer, Listener, MaxFramePayload,
    DataConn    \* the connection the transfer runs on

VARIABLES
    input, sender, root, wire, recv, assembled,   \* Transfer
    log, rpos, pc, remote, accepted, made         \* Handshake

tvars == <<input, sender, root, wire, recv, assembled>>
hvars == <<log, rpos, pc, remote, accepted, made>>
vars == <<tvars, hvars>>

T == INSTANCE Transfer WITH Attack <- FALSE
H == INSTANCE Handshake

ASSUME NodeAssumption ==
    /\ T!TransferAssumption
    /\ H!HandshakeAssumption
    /\ DataConn \in Conns /\ Dialer[DataConn] \in Honest /\ Listener[DataConn] \in Honest

Init == T!Init /\ H!Init

\* The application's steps on DataConn's session: Send (BulkSender on the
\* dialer's session), Receive and Assemble (BulkReceiver on the listener's).
SenderReady == pc[DataConn]["client"] = "done"
ReceiverReady == pc[DataConn]["server"] = "done"

Next ==
    \/ H!Next /\ UNCHANGED tvars
    \/ SenderReady /\ T!Send /\ UNCHANGED hvars
    \/ ReceiverReady /\ T!Receive /\ UNCHANGED hvars
    \/ ReceiverReady /\ T!Assemble /\ UNCHANGED hvars

Fairness ==
    \A c \in Conns :
        /\ WF_vars(H!ClientHello(c) /\ UNCHANGED tvars)
        /\ WF_vars(H!ClientRead(c) /\ UNCHANGED tvars)
        /\ WF_vars(H!ServerRead(c) /\ UNCHANGED tvars)

Spec == Init /\ [][Next]_vars
FairSpec == Spec /\ Fairness

-----------------------------------------------------------------------------
TypeOK == T!TypeOK /\ H!TypeOK

(* Transfer's AssembleIntact on the session's receiver. *)
AssembleIntact == T!AssembleIntact

(* Transfer's MerkleProofsVerify on the root the session's sender returned. *)
MerkleProofsVerify == T!MerkleProofsVerify

(* Handshake's Authenticity on every connection, DataConn's included. *)
Authenticity == H!Authenticity

(* Handshake's HandshakeCompletes, with the transfer running alongside. *)
HandshakeCompletes == H!HandshakeCompletes
=============================================================================
