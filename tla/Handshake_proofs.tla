--------------------------- MODULE Handshake_proofs ---------------------------
(***************************************************************************)
(* Proofs about Handshake, for every set of honest principals, every set   *)
(* of connections with any dialler and listener, and every frame limit:    *)
(*   TypeCorrect   Spec => []TypeOK                                        *)
(*   Authentic     Spec => []Authenticity                                  *)
(* under HandshakeAssumption (Mallory is not honest, NoKey and NoPeer are  *)
(* no key and no PeerID).                                                  *)
(*                                                                         *)
(* Authenticity is not inductive: a session's HELLO was read from a        *)
(* stream, so the proof needs to know what can be on a stream at all.      *)
(* IInv says it: every HELLO written on any control stream, by an honest   *)
(* end or by Mallory, that names an honest PeerID and passes Verify was    *)
(* created by an honest principal (LogsGenuine), and every session rests   *)
(* on such a HELLO (Sessions).  The step that matters is MalloryWrite:     *)
(* what Mallory relays she has read on a stream, and what she signs       *)
(* herself fails Verify for an honest PeerID (ForgeryFails).               *)
(***************************************************************************)
EXTENDS Handshake, SequenceTheorems, TLAPS

\* The values the model's HELLOs and bytes are drawn from.
PeerIDs == {PeerIDFromPublicKey(p) : p \in Principals}
Keys == Principals \cup {NoKey}
Nonces == (Conns \X Roles) \cup {MalloryNonce}
Sigs == [by : Principals, msg : PeerIDs \X Keys \X Nonces]
Hellos == [peer : PeerIDs, pub : Keys, nonce : Nonces, sig : Sigs]
Atoms == [byte : Nat] \cup [hello : Hellos]
PCs == {"start", "wait", "done", "failed"}

\* A HELLO that names an honest PeerID and verifies was created by its
\* principal, i.e. it is among the HELLOs M.
Genuine(h, M) == h.peer \in HonestPeerIDs /\ Verify(h) => h \in M

\* A string of atoms all of whose HELLOs are genuine with respect to M.
GoodSeq(s, M) ==
    /\ s \in Seq(Atoms)
    /\ \A i \in 1 .. Len(s) : s[i] \in [hello : Hellos] => Genuine(s[i].hello, M)

FuncTypes ==
    /\ log \in [Conns -> [Roles -> Seq(Atoms)]]
    /\ rpos \in [Conns -> [Roles -> Nat]]
    /\ pc \in [Conns -> [Roles -> PCs]]
    /\ remote \in [Conns -> [Roles -> PeerIDs \cup {NoPeer}]]
    /\ accepted \in [Conns -> [Roles -> Hellos \cup {NoHello}]]
    /\ made \subseteq {LocalHello(c, r) : c \in Conns, r \in Roles}

\* No end has read past what the other end has written.
ReadInBounds == \A c \in Conns, r \in Roles : rpos[c][r] <= Len(log[c][Other(r)])

\* Every HELLO on every control stream is genuine.
LogsGenuine == \A c \in Conns, r \in Roles : GoodSeq(log[c][r], made)

\* A finished handshake rests on a verified, genuine HELLO whose PeerID is
\* the session's remote; an unfinished one has no remote.
Sessions ==
    \A c \in Conns, r \in Roles :
        IF pc[c][r] = "done"
          THEN /\ accepted[c][r] \in Hellos
               /\ Verify(accepted[c][r])
               /\ Genuine(accepted[c][r], made)
               /\ remote[c][r] = accepted[c][r].peer
          ELSE remote[c][r] = NoPeer

IInv == FuncTypes /\ ReadInBounds /\ LogsGenuine /\ Sessions

-----------------------------------------------------------------------------
(* Lemmas about the byte strings and the HELLO records.                    *)

\* The powers of 256 that BE uses are positive naturals.
LEMMA PowByte == \A e \in 0 .. 3 : 256^e \in Nat \ {0}
<1> SUFFICES ASSUME NEW e \in 0 .. 3 PROVE 256^e \in Nat \ {0}
  OBVIOUS
<1>1. CASE e = 0 BY <1>1
<1>2. CASE e = 1 BY <1>2
<1>3. CASE e = 2 BY <1>3
<1>4. CASE e = 3 BY <1>4
<1>. QED BY <1>1, <1>2, <1>3, <1>4

\* A big-endian length field is four bytes.
LEMMA BEType == \A n \in Nat : BE(n, 4) \in Seq([byte : Nat])
BY PowByte DEF BE, Byte

\* Every atom reads as a natural byte value.
LEMMA ByteValNat == \A a \in Atoms : ByteVal(a) \in Nat
BY DEF Atoms, ByteVal

\* A byte is not a HELLO atom.
LEMMA ByteNotHello == \A x \in [byte : Nat] : x \notin [hello : Hellos]
<1> SUFFICES ASSUME NEW x \in [byte : Nat], x \in [hello : Hellos] PROVE FALSE
  OBVIOUS
<1>1. DOMAIN x = {"byte"} /\ DOMAIN x = {"hello"}
  OBVIOUS
<1>. QED BY <1>1

\* A string of bytes holds no HELLO, so it is good for any M.
LEMMA GoodBytes ==
  ASSUME NEW s \in Seq([byte : Nat]), NEW M
  PROVE  GoodSeq(s, M)
<1>1. \A i \in 1 .. Len(s) : s[i] \notin [hello : Hellos]
  BY ByteNotHello, ElementOfSeq
<1>2. s \in Seq(Atoms)
  <2>1. [byte : Nat] \subseteq Atoms
    BY DEF Atoms
  <2>. QED BY <2>1, SeqMonotonic
<1>. QED BY <1>1, <1>2 DEF GoodSeq

\* Concatenation keeps strings good.
LEMMA GoodConcat ==
  ASSUME NEW s, NEW t, NEW M, GoodSeq(s, M), GoodSeq(t, M)
  PROVE  GoodSeq(s \o t, M)
BY DEF GoodSeq

\* A string good for M is good for any superset of M.
LEMMA GoodMono ==
  ASSUME NEW s, NEW M, NEW M2, GoodSeq(s, M), M \subseteq M2
  PROVE  GoodSeq(s, M2)
BY DEF GoodSeq, Genuine

\* The JSON payload of a genuine HELLO is good.
LEMMA GoodHello ==
  ASSUME NEW h \in Hellos, NEW M, Genuine(h, M)
  PROVE  GoodSeq(EncodeHello(h), M)
BY DEF GoodSeq, EncodeHello, Atoms

\* WriteFrame of a good payload is good: the header is bytes.
LEMMA GoodFrame ==
  ASSUME NEW t \in Nat, NEW p, NEW M, GoodSeq(p, M)
  PROVE  GoodSeq(WriteFrame(t, p), M)
<1>1. Len(p) \in Nat
  BY DEF GoodSeq
<1>2. GoodSeq(<<Byte(t)>> \o BE(Len(p), 4), M)
  <2>1. <<Byte(t)>> \o BE(Len(p), 4) \in Seq([byte : Nat])
    BY <1>1, BEType DEF Byte
  <2>. QED BY <2>1, GoodBytes
<1>. QED BY <1>2, GoodConcat DEF WriteFrame

-----------------------------------------------------------------------------
(* What Mallory can write.                                                 *)

\* PeerIDFromPublicKey is injective (SHA-256 as an ideal hash).
LEMMA PeerIDInjective ==
  ASSUME NEW p, NEW q, PeerIDFromPublicKey(p) = PeerIDFromPublicKey(q)
  PROVE  p = q
BY DEF PeerIDFromPublicKey, Sha

\* A HELLO signed by Mallory fails Verify when it names an honest PeerID:
\* Verify ties the PeerID to the key and the key to the signer.
LEMMA MalloryCannotSign ==
  ASSUME HandshakeAssumption, NEW h, h.sig.by = Mallory, h.peer \in HonestPeerIDs
  PROVE  ~ Verify(h)
<1> SUFFICES ASSUME Verify(h) PROVE FALSE
  OBVIOUS
<1>1. PICK q \in Honest : h.peer = PeerIDFromPublicKey(q)
  BY DEF HonestPeerIDs
<1>2. h.pub = q
  BY <1>1, PeerIDInjective DEF Verify
<1>3. h.sig.by = q
  BY <1>2 DEF Verify, VerifySig, Sign
<1>. QED BY <1>3 DEF HandshakeAssumption

\* Mallory's own HELLO is well formed and names no honest PeerID.
LEMMA MalloryOwnHello ==
  ASSUME HandshakeAssumption, NEW M
  PROVE  /\ SignedHello(Mallory, MalloryNonce) \in Hellos
         /\ Genuine(SignedHello(Mallory, MalloryNonce), M)
<1>1. SignedHello(Mallory, MalloryNonce) \in Hellos
  BY DEF SignedHello, Hellos, PeerIDs, Keys, Nonces, Sigs, Sign, Principals
<1>2. PeerIDFromPublicKey(Mallory) \notin HonestPeerIDs
  BY PeerIDInjective DEF HonestPeerIDs, HandshakeAssumption
<1>. QED BY <1>1, <1>2 DEF Genuine, SignedHello

\* An atom of a good string that looks like a HELLO is one, and genuine.
LEMMA HelloAtom ==
  ASSUME NEW s, NEW M, GoodSeq(s, M), NEW i \in 1 .. Len(s), DOMAIN s[i] = {"hello"}
  PROVE  s[i] \in [hello : Hellos] /\ Genuine(s[i].hello, M)
<1>1. s[i] \in Atoms
  BY ElementOfSeq DEF GoodSeq
<1>2. s[i] \notin [byte : Nat]
  OBVIOUS
<1>3. s[i] \in [hello : Hellos]
  BY <1>1, <1>2 DEF Atoms
<1>. QED BY <1>3 DEF GoodSeq

\* Every HELLO Mallory can build is well formed and genuine.
LEMMA MalloryHellosGenuine ==
  ASSUME HandshakeAssumption, FuncTypes, LogsGenuine, NEW h \in MalloryHellos
  PROVE  h \in Hellos /\ Genuine(h, made)
<1>1. CASE h \in Heard
  <2>0. PICK c \in Conns, r \in Roles :
                \E i \in DOMAIN log[c][r] : DOMAIN log[c][r][i] = {"hello"} /\ h = log[c][r][i].hello
    BY <1>1 DEF Heard
  <2>1. PICK i \in DOMAIN log[c][r] : DOMAIN log[c][r][i] = {"hello"} /\ h = log[c][r][i].hello
    BY <2>0
  <2>2. GoodSeq(log[c][r], made) /\ log[c][r] \in Seq(Atoms)
    BY DEF LogsGenuine, FuncTypes
  <2>3. i \in 1 .. Len(log[c][r])
    BY <2>1, <2>2
  <2>. QED BY <2>1, <2>2, <2>3, HelloAtom
<1>2. CASE h = SignedHello(Mallory, MalloryNonce)
  BY <1>2, MalloryOwnHello
<1>3. CASE \E q \in Honest, pub \in Principals \cup {NoKey} : h = Claim(q, pub)
  <2>1. PICK q \in Honest, pub \in Principals \cup {NoKey} : h = Claim(q, pub)
    BY <1>3
  <2>2. h \in Hellos
    BY <2>1 DEF Claim, Hellos, PeerIDs, Keys, Nonces, Sigs, Sign, Principals
  <2>3. h.sig.by = Mallory
    BY <2>1 DEF Claim, Sign
  <2>. QED BY <2>2, <2>3, MalloryCannotSign DEF Genuine
<1>. QED BY <1>1, <1>2, <1>3 DEF MalloryHellos

\* Every frame Mallory can write is good.
LEMMA MalloryFramesGood ==
  ASSUME HandshakeAssumption, FuncTypes, LogsGenuine, NEW f \in MalloryFrames
  PROVE  GoodSeq(f, made)
<1>1. GoodSeq(EncodeHello(SignedHello(Mallory, MalloryNonce)), made)
  BY MalloryOwnHello, GoodHello
<1>2. CASE \E h \in MalloryHellos : f = WriteFrame(MessageTypeHello, EncodeHello(h))
  <2>1. PICK h \in MalloryHellos : f = WriteFrame(MessageTypeHello, EncodeHello(h))
    BY <1>2
  <2>2. GoodSeq(EncodeHello(h), made)
    BY MalloryHellosGenuine, GoodHello
  <2>. QED BY <2>1, <2>2, GoodFrame DEF MessageTypeHello
<1>3. CASE f = WriteFrame(MessageTypeData, EncodeHello(SignedHello(Mallory, MalloryNonce)))
  BY <1>1, <1>3, GoodFrame DEF MessageTypeData
<1>4. CASE f = WriteFrame(MessageTypeHello, <<Byte(0)>>)
  <2>1. <<Byte(0)>> \in Seq([byte : Nat])
    BY DEF Byte
  <2>. QED BY <1>4, <2>1, GoodBytes, GoodFrame DEF MessageTypeHello
<1>5. CASE f = <<Byte(MessageTypeHello)>> \o BE(MaxFramePayload + 1, 4)
  <2>1. <<Byte(MessageTypeHello)>> \o BE(MaxFramePayload + 1, 4) \in Seq([byte : Nat])
    BY BEType DEF Byte, MessageTypeHello, HandshakeAssumption
  <2>. QED BY <1>5, <2>1, GoodBytes
<1>6. CASE f = WriteFrame(0, EncodeHello(SignedHello(Mallory, MalloryNonce)))
  BY <1>1, <1>6, GoodFrame
<1>. QED BY <1>2, <1>3, <1>4, <1>5, <1>6 DEF MalloryFrames

-----------------------------------------------------------------------------
(* What ReadFrame returns.                                                 *)

\* The length field of a frame header reads as a natural.
LEMMA Uint32Nat ==
  ASSUME NEW s \in Seq(Atoms), NEW pos \in Nat, pos + 5 <= Len(s)
  PROVE  Uint32BE(Slice(s, pos + 1, 4)) \in Nat
<1>1. \A i \in 1 .. 4 : Slice(s, pos + 1, 4)[i] = s[pos + 1 + i]
  BY DEF Slice
<1>2. \A i \in 1 .. 4 : s[pos + 1 + i] \in Atoms
  BY ElementOfSeq
<1>3. \A i \in 1 .. 4 : ByteVal(Slice(s, pos + 1, 4)[i]) \in Nat
  BY <1>1, <1>2, ByteValNat
<1> DEFINE b(i) == ByteVal(Slice(s, pos + 1, 4)[i])
<1>4. b(1) \in Nat /\ b(2) \in Nat /\ b(3) \in Nat /\ b(4) \in Nat
  BY <1>3
<1>. QED BY <1>4 DEF Uint32BE

\* A frame that is read consumes bytes that are there.
LEMMA ReadFrameNext ==
  ASSUME HandshakeAssumption, NEW s \in Seq(Atoms), NEW pos \in 0 .. Len(s),
         ReadFrame(s, pos).status # "wait"
  PROVE  /\ ReadFrame(s, pos).status \in {"err", "ok"}
         /\ ReadFrame(s, pos).next \in pos .. Len(s)
<1>1. Len(s) - pos >= 5
  BY DEF ReadFrame
<1>2. Uint32BE(Slice(s, pos + 1, 4)) \in Nat
  BY <1>1, Uint32Nat
<1>. QED BY <1>1, <1>2 DEF ReadFrame, HandshakeAssumption

\* A HELLO that AcceptHello takes from a good string is one of the string's
\* atoms: well formed, verified and genuine.
LEMMA ReadHello ==
  ASSUME HandshakeAssumption, NEW s, NEW M, GoodSeq(s, M), NEW pos \in 0 .. Len(s),
         AcceptHello(ReadFrame(s, pos))
  PROVE  LET h == DecodeHello(ReadFrame(s, pos).payload).val
         IN  h \in Hellos /\ Verify(h) /\ Genuine(h, M)
<1> DEFINE f == ReadFrame(s, pos)
           n == Uint32BE(Slice(s, pos + 1, 4))
           p == f.payload
<1>1. s \in Seq(Atoms)
  BY DEF GoodSeq
<1>2. Len(s) - pos >= 5
  BY DEF AcceptHello, ReadFrame
<1>3. n \in Nat
  BY <1>1, <1>2, Uint32Nat
<1>4. Len(s) - pos >= 5 + n /\ p = Slice(s, pos + 5, n)
  BY <1>2, <1>3 DEF AcceptHello, ReadFrame, HandshakeAssumption
<1>5. DecodeHello(p).ok
  BY DEF AcceptHello
<1>6. Len(p) = 1 /\ DOMAIN p[1] = {"hello"} /\ DecodeHello(p).val = p[1].hello
  BY <1>5 DEF DecodeHello, Ok, Err
<1>7. \A i \in (pos + 6) .. (pos + 5 + n) : s[i] \in Atoms
  BY <1>1, <1>3, <1>4, ElementOfSeq
<1>8. /\ Len(SubSeq(s, pos + 6, pos + 5 + n)) = IF pos + 6 <= pos + 5 + n THEN n ELSE 0
      /\ \A i \in 1 .. n : SubSeq(s, pos + 6, pos + 5 + n)[i] = s[pos + 5 + i]
  BY <1>3, <1>7, SubSeqProperties
<1>9. n = 1 /\ p[1] = s[pos + 6]
  <2>0. pos + 5 + 1 = pos + 6
    BY <1>1
  <2>1. p = SubSeq(s, pos + 6, pos + 5 + n)
    BY <1>4, <2>0, Zenon DEF Slice
  <2>2. n = 1
    BY <1>3, <1>6, <1>8, <2>1
  <2>. QED BY <1>8, <2>1, <2>2
<1>10. pos + 6 \in 1 .. Len(s)
  BY <1>3, <1>4, <1>9
<1>11. s[pos + 6] \in [hello : Hellos] /\ Genuine(s[pos + 6].hello, M)
  BY <1>6, <1>9, <1>10, HelloAtom
<1>. QED BY <1>6, <1>9, <1>11 DEF AcceptHello

-----------------------------------------------------------------------------
(* The inductive invariant.                                                *)

\* An honest end's HELLO is well formed.
LEMMA LocalHelloType ==
  ASSUME HandshakeAssumption, NEW c \in Conns, NEW r \in Roles
  PROVE  LocalHello(c, r) \in Hellos
<1>1. EndOf(c, r) \in Principals
  BY DEF EndOf, Roles, HandshakeAssumption, Principals
<1>. QED BY <1>1 DEF LocalHello, SignedHello, Hellos, PeerIDs, Keys, Nonces, Sigs, Sign

\* Genuineness survives new HELLOs being made.
LEMMA GenuineMono ==
  ASSUME NEW h, NEW M, NEW M2, Genuine(h, M), M \subseteq M2
  PROVE  Genuine(h, M2)
BY DEF Genuine

LEMMA InitIInv == HandshakeAssumption /\ Init => IInv
<1> SUFFICES ASSUME HandshakeAssumption, Init PROVE IInv
  OBVIOUS
<1>1. FuncTypes
  BY DEF Init, FuncTypes, PCs
<1>2. ReadInBounds
  BY DEF Init, ReadInBounds, Other, Roles
<1>3. LogsGenuine
  BY DEF Init, LogsGenuine, GoodSeq
<1>4. Sessions
  BY DEF Init, Sessions
<1>. QED BY <1>1, <1>2, <1>3, <1>4 DEF IInv

\* A step that replaces one control stream's bytes by a good string at
\* least as long keeps the logs typed, growing and genuine.
LEMMA WriteLog ==
  ASSUME FuncTypes, LogsGenuine, made \subseteq made',
         NEW c \in Conns, NEW r \in Roles, NEW v,
         GoodSeq(v, made'), Len(v) >= Len(log[c][r]),
         log' = [log EXCEPT ![c][r] = v]
  PROVE  /\ log' \in [Conns -> [Roles -> Seq(Atoms)]]
         /\ \A c2 \in Conns, r2 \in Roles : Len(log'[c2][r2]) >= Len(log[c2][r2])
         /\ LogsGenuine'
<1>1. v \in Seq(Atoms)
  BY DEF GoodSeq
<1>2. \A c2 \in Conns, r2 \in Roles :
        log'[c2][r2] = IF c2 = c /\ r2 = r THEN v ELSE log[c2][r2]
  BY DEF FuncTypes
<1>3. \A c2 \in Conns, r2 \in Roles : GoodSeq(log[c2][r2], made')
  BY GoodMono DEF LogsGenuine
<1>. QED BY <1>1, <1>2, <1>3 DEF FuncTypes, LogsGenuine

\* ClientHello: the dialler writes its HELLO frame and makes its HELLO.
LEMMA ClientHelloStep ==
  ASSUME HandshakeAssumption, IInv, NEW c \in Conns, ClientHello(c)
  PROVE  IInv'
<1> DEFINE h == LocalHello(c, "client")
           w == WriteFrame(MessageTypeHello, EncodeHello(h))
           v == log[c]["client"] \o w
<1>1. /\ made' = made \cup {h}
      /\ log' = [log EXCEPT ![c]["client"] = v]
      /\ pc' = [pc EXCEPT ![c]["client"] = "wait"]
      /\ pc[c]["client"] = "start"
      /\ UNCHANGED <<rpos, remote, accepted>>
  BY DEF ClientHello
<1>2. h \in Hellos
  BY LocalHelloType DEF Roles
<1>3. GoodSeq(w, made')
  <2>1. Genuine(h, made')
    BY <1>1 DEF Genuine
  <2>. QED BY <1>2, <2>1, GoodHello, GoodFrame DEF MessageTypeHello
<1>4. GoodSeq(v, made') /\ Len(v) >= Len(log[c]["client"])
  <2>1. GoodSeq(log[c]["client"], made')
    BY <1>1, GoodMono DEF IInv, LogsGenuine, Roles
  <2>2. GoodSeq(v, made')
    BY <1>3, <2>1, GoodConcat
  <2>. QED BY <1>3, <2>1, <2>2 DEF GoodSeq
<1>5. /\ log' \in [Conns -> [Roles -> Seq(Atoms)]]
      /\ \A c2 \in Conns, r2 \in Roles : Len(log'[c2][r2]) >= Len(log[c2][r2])
      /\ LogsGenuine'
  BY <1>1, <1>4, WriteLog DEF IInv, Roles
<1>6. FuncTypes'
  <2>1. made' \subseteq {LocalHello(c2, r2) : c2 \in Conns, r2 \in Roles}
    BY <1>1 DEF IInv, FuncTypes, Roles
  <2>. QED BY <1>1, <1>5, <2>1 DEF IInv, FuncTypes, PCs
<1>7. ReadInBounds'
  BY <1>1, <1>5 DEF IInv, ReadInBounds, FuncTypes, Other, Roles
<1>8. Sessions'
  BY <1>1, GenuineMono DEF IInv, Sessions, FuncTypes
<1>. QED BY <1>5, <1>6, <1>7, <1>8 DEF IInv

\* ClientRead: the dialler reads the listener's frame and either builds the
\* session from a verified HELLO or fails.
LEMMA ClientReadStep ==
  ASSUME HandshakeAssumption, IInv, NEW c \in Conns, ClientRead(c)
  PROVE  IInv'
<1> DEFINE s == log[c]["server"]
           pos == rpos[c]["client"]
           f == ReadFrame(s, pos)
           h == DecodeHello(f.payload).val
<1>1. /\ pc[c]["client"] = "wait"
      /\ f.status # "wait"
      /\ rpos' = [rpos EXCEPT ![c]["client"] = f.next]
      /\ UNCHANGED <<log, made>>
  BY DEF ClientRead
<1>2. s \in Seq(Atoms) /\ pos \in 0 .. Len(s) /\ GoodSeq(s, made)
  BY DEF IInv, FuncTypes, ReadInBounds, LogsGenuine, Other, Roles
<1>3. f.next \in pos .. Len(s)
  BY <1>1, <1>2, ReadFrameNext
<1>4. remote[c]["client"] = NoPeer
  BY <1>1 DEF IInv, Sessions, Roles
<1>5. /\ rpos' \in [Conns -> [Roles -> Nat]]
      /\ ReadInBounds'
  BY <1>1, <1>2, <1>3 DEF IInv, FuncTypes, ReadInBounds, Other, Roles
<1>6. LogsGenuine'
  BY <1>1 DEF IInv, LogsGenuine
<1>7. CASE AcceptHello(f)
  <2>1. /\ pc' = [pc EXCEPT ![c]["client"] = "done"]
        /\ remote' = [remote EXCEPT ![c]["client"] = h.peer]
        /\ accepted' = [accepted EXCEPT ![c]["client"] = h]
    BY <1>7 DEF ClientRead
  <2>2. h \in Hellos /\ Verify(h) /\ Genuine(h, made)
    BY <1>2, <1>7, ReadHello
  <2>3. h.peer \in PeerIDs
    BY <2>2 DEF Hellos
  <2>4. FuncTypes'
    BY <1>1, <1>5, <2>1, <2>2, <2>3 DEF IInv, FuncTypes, PCs
  <2>5. Sessions'
    BY <1>1, <2>1, <2>2 DEF IInv, Sessions, FuncTypes
  <2>. QED BY <1>5, <1>6, <2>4, <2>5 DEF IInv
<1>8. CASE ~ AcceptHello(f)
  <2>1. /\ pc' = [pc EXCEPT ![c]["client"] = "failed"]
        /\ UNCHANGED <<remote, accepted>>
    BY <1>8 DEF ClientRead
  <2>2. FuncTypes'
    BY <1>1, <1>5, <2>1 DEF IInv, FuncTypes, PCs
  <2>3. Sessions'
    BY <1>1, <1>4, <2>1 DEF IInv, Sessions, FuncTypes
  <2>. QED BY <1>5, <1>6, <2>2, <2>3 DEF IInv
<1>. QED BY <1>7, <1>8

\* ServerRead: the listener reads the dialler's frame; on a verified HELLO
\* it writes and makes its own HELLO and builds the session, else it fails.
LEMMA ServerReadStep ==
  ASSUME HandshakeAssumption, IInv, NEW c \in Conns, ServerRead(c)
  PROVE  IInv'
<1> DEFINE s == log[c]["client"]
           pos == rpos[c]["server"]
           f == ReadFrame(s, pos)
           h == DecodeHello(f.payload).val
           mine == LocalHello(c, "server")
           v == log[c]["server"] \o WriteFrame(MessageTypeHello, EncodeHello(mine))
<1>1. /\ pc[c]["server"] = "start"
      /\ f.status # "wait"
      /\ rpos' = [rpos EXCEPT ![c]["server"] = f.next]
  BY DEF ServerRead
<1>2. s \in Seq(Atoms) /\ pos \in 0 .. Len(s) /\ GoodSeq(s, made)
  BY DEF IInv, FuncTypes, ReadInBounds, LogsGenuine, Other, Roles
<1>3. f.next \in pos .. Len(s)
  BY <1>1, <1>2, ReadFrameNext
<1>4. remote[c]["server"] = NoPeer
  BY <1>1 DEF IInv, Sessions, Roles
<1>5. rpos' \in [Conns -> [Roles -> Nat]]
  BY <1>1, <1>2, <1>3 DEF IInv, FuncTypes, Roles
<1>7. CASE AcceptHello(f)
  <2>1. /\ log' = [log EXCEPT ![c]["server"] = v]
        /\ made' = made \cup {mine}
        /\ pc' = [pc EXCEPT ![c]["server"] = "done"]
        /\ remote' = [remote EXCEPT ![c]["server"] = h.peer]
        /\ accepted' = [accepted EXCEPT ![c]["server"] = h]
    BY <1>7 DEF ServerRead
  <2>2. h \in Hellos /\ Verify(h) /\ Genuine(h, made)
    BY <1>2, <1>7, ReadHello
  <2>3. mine \in Hellos
    BY LocalHelloType DEF Roles
  <2>4. GoodSeq(v, made') /\ Len(v) >= Len(log[c]["server"])
    <3>1. GoodSeq(WriteFrame(MessageTypeHello, EncodeHello(mine)), made')
      <4>1. Genuine(mine, made')
        BY <2>1 DEF Genuine
      <4>. QED BY <2>3, <4>1, GoodHello, GoodFrame DEF MessageTypeHello
    <3>2. GoodSeq(log[c]["server"], made')
      BY <2>1, GoodMono DEF IInv, LogsGenuine, Roles
    <3>3. GoodSeq(v, made')
      BY <3>1, <3>2, GoodConcat
    <3>. QED BY <3>1, <3>2, <3>3 DEF GoodSeq
  <2>5. /\ log' \in [Conns -> [Roles -> Seq(Atoms)]]
        /\ \A c2 \in Conns, r2 \in Roles : Len(log'[c2][r2]) >= Len(log[c2][r2])
        /\ LogsGenuine'
    BY <2>1, <2>4, WriteLog DEF IInv, Roles
  <2>6. log'[c]["client"] = s
    BY <2>1 DEF IInv, FuncTypes, Roles
  <2>7. ReadInBounds'
    BY <1>1, <1>3, <2>5, <2>6 DEF IInv, ReadInBounds, FuncTypes, Other, Roles
  <2>8. FuncTypes'
    <3>1. made' \subseteq {LocalHello(c2, r2) : c2 \in Conns, r2 \in Roles}
      BY <2>1 DEF IInv, FuncTypes, Roles
    <3>2. h.peer \in PeerIDs
      BY <2>2 DEF Hellos
    <3>. QED BY <1>5, <2>1, <2>2, <2>5, <3>1, <3>2 DEF IInv, FuncTypes, PCs
  <2>9. Sessions'
    <3>1. Genuine(h, made')
      BY <2>1, <2>2, GenuineMono
    <3>. QED BY <2>1, <2>2, <3>1, GenuineMono DEF IInv, Sessions, FuncTypes
  <2>. QED BY <2>5, <2>7, <2>8, <2>9 DEF IInv
<1>8. CASE ~ AcceptHello(f)
  <2>1. /\ pc' = [pc EXCEPT ![c]["server"] = "failed"]
        /\ log' = log /\ made' = made /\ remote' = remote /\ accepted' = accepted
    BY <1>8 DEF ServerRead
  <2>2. ReadInBounds'
    BY <1>1, <1>2, <1>3, <2>1 DEF IInv, ReadInBounds, FuncTypes, Other, Roles
  <2>3. FuncTypes'
    <3>1. pc' \in [Conns -> [Roles -> PCs]]
      BY <2>1 DEF IInv, FuncTypes, PCs, Roles
    <3>. QED BY <1>5, <2>1, <3>1 DEF IInv, FuncTypes
  <2>4. LogsGenuine'
    BY <2>1 DEF IInv, LogsGenuine
  <2>5. Sessions'
    BY <1>4, <2>1 DEF IInv, Sessions, FuncTypes
  <2>. QED BY <2>2, <2>3, <2>4, <2>5 DEF IInv
<1>. QED BY <1>7, <1>8

\* MalloryWrite: Mallory puts one frame she can build on an empty stream.
LEMMA MalloryWriteStep ==
  ASSUME HandshakeAssumption, IInv, NEW c \in Conns, NEW r \in Roles, MalloryWrite(c, r)
  PROVE  IInv'
<1>1. PICK f \in MalloryFrames :
        /\ log[c][r] = <<>>
        /\ log' = [log EXCEPT ![c][r] = f]
        /\ UNCHANGED <<rpos, pc, remote, accepted, made>>
  BY DEF MalloryWrite
<1>2. GoodSeq(f, made')
  BY <1>1, MalloryFramesGood DEF IInv
<1>3. Len(f) >= Len(log[c][r])
  BY <1>1, <1>2 DEF GoodSeq
<1>4. /\ log' \in [Conns -> [Roles -> Seq(Atoms)]]
      /\ \A c2 \in Conns, r2 \in Roles : Len(log'[c2][r2]) >= Len(log[c2][r2])
      /\ LogsGenuine'
  BY <1>1, <1>2, <1>3, WriteLog DEF IInv
<1>5. ReadInBounds'
  BY <1>1, <1>4 DEF IInv, ReadInBounds, FuncTypes, Other, Roles
<1>6. FuncTypes'
  BY <1>1, <1>4 DEF IInv, FuncTypes
<1>7. Sessions'
  BY <1>1 DEF IInv, Sessions
<1>. QED BY <1>4, <1>5, <1>6, <1>7 DEF IInv

LEMMA StepIInv == HandshakeAssumption /\ IInv /\ [Next]_vars => IInv'
<1> SUFFICES ASSUME HandshakeAssumption, IInv, [Next]_vars PROVE IInv'
  OBVIOUS
<1>1. ASSUME NEW c \in Conns, ClientHello(c) PROVE IInv'
  BY <1>1, ClientHelloStep
<1>2. ASSUME NEW c \in Conns, ClientRead(c) PROVE IInv'
  BY <1>2, ClientReadStep
<1>3. ASSUME NEW c \in Conns, ServerRead(c) PROVE IInv'
  BY <1>3, ServerReadStep
<1>4. ASSUME NEW c \in Conns, NEW r \in Roles, MalloryWrite(c, r) PROVE IInv'
  BY <1>4, MalloryWriteStep
<1>5. CASE UNCHANGED vars
  BY <1>5 DEF vars, IInv, FuncTypes, ReadInBounds, LogsGenuine, GoodSeq, Genuine, Sessions
<1>. QED BY <1>1, <1>2, <1>3, <1>4, <1>5 DEF Next

\* IInv gives TypeOK: a finished session's remote is a PeerID, never NoPeer.
LEMMA IInvTypeOK == HandshakeAssumption /\ IInv => TypeOK
<1> SUFFICES ASSUME HandshakeAssumption, IInv PROVE TypeOK
  OBVIOUS
<1>1. ASSUME NEW c \in Conns, NEW r \in Roles
      PROVE  (pc[c][r] = "done") = (remote[c][r] # NoPeer)
  <2>1. CASE pc[c][r] = "done"
    <3>1. remote[c][r] \in PeerIDs
      BY <2>1 DEF IInv, Sessions, Hellos
    <3>. QED BY <2>1, <3>1 DEF HandshakeAssumption, PeerIDs
  <2>2. CASE pc[c][r] # "done"
    BY <2>2 DEF IInv, Sessions
  <2>. QED BY <2>1, <2>2
<1>2. \A c \in Conns, r \in Roles : rpos[c][r] \in 0 .. Len(log[c][Other(r)])
  <2>1. \A r \in Roles : Other(r) \in Roles
    BY DEF Other, Roles
  <2>. QED BY <2>1 DEF IInv, FuncTypes, ReadInBounds
<1>. QED BY <1>1, <1>2 DEF IInv, FuncTypes, TypeOK, PCs, PeerIDs

\* IInv gives Authenticity: the session's HELLO verifies, so its PeerID is
\* its key's, and is genuine, so it was made by an honest principal.
LEMMA IInvAuthenticity == HandshakeAssumption /\ IInv => Authenticity
<1> SUFFICES ASSUME HandshakeAssumption, IInv,
                    NEW c \in Conns, NEW r \in Roles,
                    remote[c][r] \in HonestPeerIDs
             PROVE  /\ accepted[c][r] \in made
                    /\ remote[c][r] = PeerIDFromPublicKey(accepted[c][r].pub)
  BY DEF Authenticity
<1>1. remote[c][r] # NoPeer
  BY DEF HandshakeAssumption, HonestPeerIDs, Principals
<1>2. pc[c][r] = "done"
  BY <1>1 DEF IInv, Sessions
<1>3. /\ Verify(accepted[c][r])
      /\ Genuine(accepted[c][r], made)
      /\ remote[c][r] = accepted[c][r].peer
  BY <1>2 DEF IInv, Sessions
<1>. QED BY <1>3 DEF Genuine, Verify

-----------------------------------------------------------------------------
(* The theorems.                                                           *)

\* Every reachable state is well typed: pc, the read positions within the
\* bytes written, remote set exactly when the handshake is done, and only
\* the honest ends' HELLOs made.
THEOREM TypeCorrect ==
  ASSUME HandshakeAssumption
  PROVE  Spec => []TypeOK
<1>1. Init => IInv
  BY InitIInv
<1>2. IInv /\ [Next]_vars => IInv'
  BY StepIInv
<1>3. IInv => TypeOK
  BY IInvTypeOK
<1>. QED BY <1>1, <1>2, <1>3, PTL DEF Spec

\* HandshakeClient and HandshakeServer never build a session naming an
\* honest principal's PeerID from a HELLO that principal did not create,
\* whatever frames Mallory writes on the connections she is an end of.
THEOREM Authentic ==
  ASSUME HandshakeAssumption
  PROVE  Spec => []Authenticity
<1>1. Init => IInv
  BY InitIInv
<1>2. IInv /\ [Next]_vars => IInv'
  BY StepIInv
<1>3. IInv => Authenticity
  BY IInvAuthenticity
<1>. QED BY <1>1, <1>2, <1>3, PTL DEF Spec

=============================================================================
