------------------------------ MODULE Handshake ------------------------------
(***************************************************************************)
(* The I6P session handshake (package session, HandshakeClient and         *)
(* HandshakeServer) over the frame codec (package protocol, WriteFrame and *)
(* ReadFrame) with signed HELLO records (Hello: NewHello, Sign, Verify,    *)
(* EncodeHello, DecodeHello) and PeerIDs (package identity).               *)
(*                                                                         *)
(* Each connection c has a dialer (the client) and a listener (the         *)
(* server).  QUIC and TLS carry each end's control-stream bytes to the     *)
(* other end unaltered; TLS does not say who the other end is (the         *)
(* certificates are self-signed and not verified), so who is at the other *)
(* end of a connection is the handshake's to establish.  Honest principals *)
(* run the code; Mallory is a principal with a key pair of its own who may *)
(* write any frame it can build on the streams it is an end of: HELLOs it  *)
(* has read on its other connections, its own, and HELLOs that claim       *)
(* another principal's identity with a signature it can make.              *)
(*                                                                         *)
(* A principal's public key is the principal itself; an Ed25519 signature  *)
(* is the record of signer and message, which only the signer can make.    *)
(* The timestamp and the capabilities of a HELLO are left out: no check    *)
(* reads them.                                                              *)
(***************************************************************************)
EXTENDS Naturals, Sequences, FiniteSets, Bytes

CONSTANTS
    Honest,           \* principals that run HandshakeClient / HandshakeServer
    Mallory,          \* a principal driven by an attacker
    NoKey,            \* an absent public key
    NoPeer,           \* no remote PeerID yet
    Conns,            \* connections
    Dialer,           \* Dialer[c]: the principal that dialled c (client)
    Listener,         \* Listener[c]: the principal that accepted c (server)
    MaxFramePayload   \* MaxFramePayload (1 MiB)

Principals == Honest \cup {Mallory}
Roles == {"client", "server"}
Other(r) == IF r = "client" THEN "server" ELSE "client"
EndOf(c, r) == IF r = "client" THEN Dialer[c] ELSE Listener[c]

\* types.go: the message types the handshake writes or meets.
MessageTypeHello == 1
MessageTypeData == 3

-----------------------------------------------------------------------------
(* Identity and HELLO.                                                     *)

\* PeerIDFromPublicKey: SHA-256 of the public key.
PeerIDFromPublicKey(pub) == Sha(pub)

\* What the constants must satisfy; Node assumes it of the instance it
\* runs.
HandshakeAssumption ==
    /\ Mallory \notin Honest
    /\ NoKey \notin Honest \cup {Mallory}
    /\ Dialer \in [Conns -> Honest \cup {Mallory}]
    /\ Listener \in [Conns -> Honest \cup {Mallory}]
    /\ MaxFramePayload \in Nat
    /\ NoPeer \notin {PeerIDFromPublicKey(p) : p \in Principals}

\* KeyPair.Sign and identity.Verify (Ed25519).
Sign(p, msg) == [by |-> p, msg |-> msg]
VerifySig(pub, msg, sig) == sig = Sign(pub, msg)

\* Hello.SigningBytes: PeerID, public key, (timestamp,) nonce.
SigningBytes(h) == <<h.peer, h.pub, h.nonce>>

\* NewHello followed by Sign: p's identity and a fresh nonce, signed by p.
SignedHello(p, nonce) ==
    [peer |-> PeerIDFromPublicKey(p), pub |-> p, nonce |-> nonce,
     sig |-> Sign(p, <<PeerIDFromPublicKey(p), p, nonce>>)]

\* Mutant: the signature is not checked.
VerifyNoSig(h) ==
    /\ h.pub # NoKey
    /\ PeerIDFromPublicKey(h.pub) = h.peer

\* Hello.Verify: key length, PeerID = SHA-256(public key), and the
\* signature over the signing bytes.  Nothing about the nonce or the time.
Verify(h) ==
    /\ h.pub # NoKey
    /\ PeerIDFromPublicKey(h.pub) = h.peer
    /\ VerifySig(h.pub, SigningBytes(h), h.sig)

\* EncodeHello / DecodeHello: the JSON payload is one atom; anything else
\* fails to decode.
EncodeHello(h) == <<[hello |-> h]>>
DecodeHello(payload) ==
    IF Len(payload) = 1 /\ DOMAIN payload[1] = {"hello"} THEN Ok(payload[1].hello) ELSE Err

-----------------------------------------------------------------------------
(* Frame codec.                                                            *)

\* Mutant: the bufio.Writer is never flushed, so nothing reaches the stream.
WriteFrameUnflushed(t, payload) == <<>>

\* WriteFrame: type byte, big-endian payload length, payload, written out
\* by the final bw.Flush.  (The type-0 and size checks never fail for the
\* frames an honest end writes.)
WriteFrame(t, payload) == <<Byte(t)>> \o BE(Len(payload), 4) \o payload

\* ReadFrame on a stream whose bytes are s, of which pos are consumed:
\* "wait" while the header or the payload has not all arrived (the reads
\* block), "err" for a length over MaxFramePayload or type 0.
ReadFrame(s, pos) ==
    LET avail == Len(s) - pos
        n == Uint32BE(Slice(s, pos + 1, 4))
    IN  IF avail < 5 THEN [status |-> "wait"]
        ELSE IF n > MaxFramePayload THEN [status |-> "err", next |-> pos + 5]
        ELSE IF avail < 5 + n THEN [status |-> "wait"]
        ELSE IF ByteVal(s[pos + 1]) = 0 THEN [status |-> "err", next |-> pos + 5 + n]
        ELSE [status |-> "ok", type |-> ByteVal(s[pos + 1]),
              payload |-> Slice(s, pos + 5, n), next |-> pos + 5 + n]

\* The checks both sides apply to the frame read: HELLO type, DecodeHello,
\* Verify (ParsePeerIDHex of a PeerID always succeeds here).
AcceptHello(f) ==
    /\ f.status = "ok"
    /\ f.type = MessageTypeHello
    /\ DecodeHello(f.payload).ok
    /\ Verify(DecodeHello(f.payload).val)

-----------------------------------------------------------------------------
(* The handshake.                                                          *)

NoHello == [none |-> TRUE]

VARIABLES
    log,        \* log[c][r]: the bytes end r has written on c's control stream
    rpos,       \* rpos[c][r]: how many of the other end's bytes r has read
    pc,         \* pc[c][r]: "start", "wait" (client: HELLO sent), "done", "failed"
    remote,     \* remote[c][r]: Session.remotePeerID, or NoPeer
    accepted,   \* accepted[c][r]: the HELLO the session was built from, or NoHello
    made        \* every HELLO an honest principal has created and signed

vars == <<log, rpos, pc, remote, accepted, made>>

Init ==
    /\ log = [c \in Conns |-> [r \in Roles |-> <<>>]]
    /\ rpos = [c \in Conns |-> [r \in Roles |-> 0]]
    /\ pc = [c \in Conns |-> [r \in Roles |-> "start"]]
    /\ remote = [c \in Conns |-> [r \in Roles |-> NoPeer]]
    /\ accepted = [c \in Conns |-> [r \in Roles |-> NoHello]]
    /\ made = {}

\* The HELLO end r of c creates: a nonce of its own for every handshake.
LocalHello(c, r) == SignedHello(EndOf(c, r), <<c, r>>)

\* HandshakeClient up to its read: OpenStreamSync, NewHello, Sign,
\* EncodeHello, WriteFrame(HELLO).
ClientHello(c) ==
    /\ Dialer[c] \in Honest
    /\ pc[c]["client"] = "start"
    /\ log' = [log EXCEPT ![c]["client"] = @ \o WriteFrame(MessageTypeHello, EncodeHello(LocalHello(c, "client")))]
    /\ made' = made \cup {LocalHello(c, "client")}
    /\ pc' = [pc EXCEPT ![c]["client"] = "wait"]
    /\ UNCHANGED <<rpos, remote, accepted>>

\* HandshakeClient from ReadFrame on: a HELLO that verifies makes the
\* Session with the PeerID it claims; any other outcome aborts.
ClientRead(c) ==
    /\ pc[c]["client"] = "wait"
    /\ LET f == ReadFrame(log[c]["server"], rpos[c]["client"])
       IN  /\ f.status # "wait"
           /\ rpos' = [rpos EXCEPT ![c]["client"] = f.next]
           /\ IF AcceptHello(f)
                THEN LET h == DecodeHello(f.payload).val
                     IN  /\ pc' = [pc EXCEPT ![c]["client"] = "done"]
                         /\ remote' = [remote EXCEPT ![c]["client"] = h.peer]
                         /\ accepted' = [accepted EXCEPT ![c]["client"] = h]
                ELSE /\ pc' = [pc EXCEPT ![c]["client"] = "failed"]
                     /\ UNCHANGED <<remote, accepted>>
    /\ UNCHANGED <<log, made>>

\* HandshakeServer: AcceptStream (the client's stream, once its first bytes
\* arrive), ReadFrame and the HELLO checks; then NewHello, Sign and
\* WriteFrame of its own HELLO, and the Session.  A failed check aborts
\* before the server writes anything.
ServerRead(c) ==
    /\ Listener[c] \in Honest
    /\ pc[c]["server"] = "start"
    /\ LET f == ReadFrame(log[c]["client"], rpos[c]["server"])
       IN  /\ f.status # "wait"
           /\ rpos' = [rpos EXCEPT ![c]["server"] = f.next]
           /\ IF AcceptHello(f)
                THEN LET h == DecodeHello(f.payload).val
                         mine == LocalHello(c, "server")
                     IN  /\ log' = [log EXCEPT ![c]["server"] = @ \o WriteFrame(MessageTypeHello, EncodeHello(mine))]
                         /\ made' = made \cup {mine}
                         /\ pc' = [pc EXCEPT ![c]["server"] = "done"]
                         /\ remote' = [remote EXCEPT ![c]["server"] = h.peer]
                         /\ accepted' = [accepted EXCEPT ![c]["server"] = h]
                ELSE /\ pc' = [pc EXCEPT ![c]["server"] = "failed"]
                     /\ UNCHANGED <<log, made, remote, accepted>>

\* Every HELLO Mallory has read on the streams it is the reading end of.
Heard ==
    LET toMallory == {cr \in Conns \X Roles : EndOf(cr[1], Other(cr[2])) = Mallory}
        atoms == UNION {{log[cr[1]][cr[2]][i] : i \in DOMAIN log[cr[1]][cr[2]]} : cr \in toMallory}
    IN  {a.hello : a \in {x \in atoms : DOMAIN x = {"hello"}}}

\* The HELLOs Mallory can build: those it has heard, its own, and claims of
\* an honest identity, with any key or none, under Mallory's signature.
MalloryNonce == <<Mallory>>
Claim(q, pub) ==
    [peer |-> PeerIDFromPublicKey(q), pub |-> pub, nonce |-> MalloryNonce,
     sig |-> Sign(Mallory, <<PeerIDFromPublicKey(q), pub, MalloryNonce>>)]
MalloryHellos ==
    Heard \cup {SignedHello(Mallory, MalloryNonce)}
          \cup {Claim(q, pub) : q \in Honest, pub \in Principals \cup {NoKey}}

\* The frames Mallory can write: a HELLO frame of each of those, and frames
\* the reader must refuse (a DATA frame, an undecodable payload, an
\* oversized length, type 0).
MalloryFrames ==
    {WriteFrame(MessageTypeHello, EncodeHello(h)) : h \in MalloryHellos}
      \cup {WriteFrame(MessageTypeData, EncodeHello(SignedHello(Mallory, MalloryNonce))),
            WriteFrame(MessageTypeHello, <<Byte(0)>>),
            <<Byte(MessageTypeHello)>> \o BE(MaxFramePayload + 1, 4),
            WriteFrame(0, EncodeHello(SignedHello(Mallory, MalloryNonce)))}

\* Mallory writes its one handshake frame on a control stream it is an end
\* of (an honest end reads only the first frame of the handshake).
MalloryWrite(c, r) ==
    /\ EndOf(c, r) = Mallory
    /\ log[c][r] = <<>>
    /\ \E f \in MalloryFrames : log' = [log EXCEPT ![c][r] = f]
    /\ UNCHANGED <<rpos, pc, remote, accepted, made>>

Next ==
    \/ \E c \in Conns : ClientHello(c) \/ ClientRead(c) \/ ServerRead(c)
    \/ \E c \in Conns, r \in Roles : MalloryWrite(c, r)

\* The honest ends' goroutines run until they return.
Fairness ==
    \A c \in Conns : WF_vars(ClientHello(c)) /\ WF_vars(ClientRead(c)) /\ WF_vars(ServerRead(c))

Spec == Init /\ [][Next]_vars
FairSpec == Spec /\ Fairness

-----------------------------------------------------------------------------
HonestPeerIDs == {PeerIDFromPublicKey(q) : q \in Honest}

TypeOK ==
    /\ \A c \in Conns, r \in Roles :
         /\ pc[c][r] \in {"start", "wait", "done", "failed"}
         /\ rpos[c][r] \in 0 .. Len(log[c][Other(r)])
         /\ remote[c][r] \in {PeerIDFromPublicKey(p) : p \in Principals} \cup {NoPeer}
         /\ (pc[c][r] = "done") = (remote[c][r] # NoPeer)
    /\ made \subseteq {LocalHello(c, r) : c \in Conns, r \in Roles}

(* A session an honest end builds naming an honest principal q as its      *)
(* remote PeerID rests on a HELLO q itself created and signed (q took part *)
(* in some handshake): Verify's PeerID and signature checks together keep  *)
(* Mallory from claiming q's identity with its own key or its own          *)
(* signature, whatever frames it writes on its connections.               *)
Authenticity ==
    \A c \in Conns, r \in Roles :
        EndOf(c, r) \in Honest /\ remote[c][r] \in HonestPeerIDs
            => /\ accepted[c][r] \in made
               /\ remote[c][r] = PeerIDFromPublicKey(accepted[c][r].pub)

(* On a connection between two honest principals, both HandshakeClient and *)
(* HandshakeServer eventually return sessions, each naming the other's     *)
(* PeerID: the client's HELLO frame is flushed before it blocks in         *)
(* ReadFrame, and the server answers once it has verified it.              *)
HandshakeCompletes ==
    \A c \in Conns :
        Dialer[c] \in Honest /\ Listener[c] \in Honest =>
            <>(/\ remote[c]["client"] = PeerIDFromPublicKey(Listener[c])
               /\ remote[c]["server"] = PeerIDFromPublicKey(Dialer[c]))

(* The signed HELLO binds the session to the principal at the other end of *)
(* this connection (spec.md: identity is enforced at the session layer, so *)
(* TLS verification is disabled): an honest end's session names, as its   *)
(* remote PeerID, the principal that dialled or accepted the connection.  *)
Agreement ==
    \A c \in Conns, r \in Roles :
        EndOf(c, r) \in Honest /\ pc[c][r] = "done"
            => remote[c][r] = PeerIDFromPublicKey(EndOf(c, Other(r)))
=============================================================================
