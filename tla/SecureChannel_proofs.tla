------------------------- MODULE SecureChannel_proofs -------------------------
(***************************************************************************)
(* Proofs about SecureChannel, for every W, MaxGeneration and MaxSkip:     *)
(*   KeysAgreeAlways      Spec => []KeysAgree                              *)
(*   ChannelTypeCorrect   Spec => []TypeOK                                 *)
(*   DirectionsRefine     Spec => PR!Spec /\ PI!Spec                       *)
(*   ChannelForwardSecure Spec => [](ForwardSecrecy /\ NoReplay, both ways) *)
(*   ChannelKeysRetained  ~Reflect /\ MaxGeneration < 2^W                  *)
(*                          => (Spec => []ChannelKeyRetained)              *)
(* An established endpoint completed with its peer's genuine key (the only *)
(* non-zero key the model offers), so its keys are the two halves bound to *)
(* (Initiator, Responder), in the order its role dictates: KeyShape.  Each *)
(* ciphertext was sealed by an established endpoint under its send key at  *)
(* a generation its Chain has passed: MsgShape.  With these, every channel *)
(* step is a step of each direction's Ratchet, so the inductive invariants *)
(* of Ratchet_proofs carry over to the channel.                            *)
(***************************************************************************)
EXTENDS SecureChannel, TLAPS

Mine(e) == IF IsInitiator(e) THEN "initiator" ELSE "responder"
Theirs(e) == IF IsInitiator(e) THEN "responder" ELSE "initiator"

KeyShape ==
    \A e \in Endpoints :
        established[e] =>
            /\ remote[e] = PeerOf(e)
            /\ sendKey[e] = SessionKey(Initiator, Responder, Mine(e))
            /\ recvKey[e] = SessionKey(Initiator, Responder, Theirs(e))

KInv ==
    /\ established \in [Endpoints -> BOOLEAN]
    /\ remote \in [Endpoints -> Endpoints \cup {Zero, NoChannelKey}]
    /\ sendKey \in [Endpoints -> Keys \cup {NoChannelKey}]
    /\ recvKey \in [Endpoints -> Keys \cup {NoChannelKey}]
    /\ KeyShape

LEMMA KInvInit == Init => KInv
BY DEF Init, KInv, KeyShape, Endpoints

(* Complete establishes e with exactly the keys KeyShape names, or changes *)
(* only remote[e] of an endpoint that is not established.                  *)
LEMMA CompleteKInv ==
  ASSUME KInv, NEW e \in Endpoints, NEW p \in {PeerOf(e), Zero}, Complete(e, p)
  PROVE  KInv'
<1>1. CASE p = Zero
  BY <1>1, EndpointsAssumption DEF Complete, KInv, KeyShape, Endpoints
<1>2. CASE p # Zero
  <2>1. p = PeerOf(e)
    BY <1>2
  <2>2. /\ (IF IsInitiator(e) THEN e ELSE p) = Initiator
        /\ (IF IsInitiator(e) THEN p ELSE e) = Responder
    BY <2>1, EndpointsAssumption DEF PeerOf, IsInitiator, Endpoints
  <2>3. /\ remote' = [remote EXCEPT ![e] = p]
        /\ sendKey' = [sendKey EXCEPT ![e] = SessionKey(Initiator, Responder, Mine(e))]
        /\ recvKey' = [recvKey EXCEPT ![e] = SessionKey(Initiator, Responder, Theirs(e))]
        /\ established' = [established EXCEPT ![e] = TRUE]
    BY <1>2, <2>2 DEF Complete, Mine, Theirs
  <2>4. SessionKey(Initiator, Responder, Mine(e)) \in Keys
        /\ SessionKey(Initiator, Responder, Theirs(e)) \in Keys
    BY DEF SessionKey, Keys, Mine, Theirs, Endpoints
  <2>5. p \in Endpoints
    BY <2>1 DEF PeerOf, Endpoints
  <2>6. /\ established' \in [Endpoints -> BOOLEAN]
        /\ remote' \in [Endpoints -> Endpoints \cup {Zero, NoChannelKey}]
        /\ sendKey' \in [Endpoints -> Keys \cup {NoChannelKey}]
        /\ recvKey' \in [Endpoints -> Keys \cup {NoChannelKey}]
    BY <2>3, <2>4, <2>5 DEF KInv
  <2>7. KeyShape'
    <3> SUFFICES ASSUME NEW f \in Endpoints, established'[f]
                 PROVE  /\ remote'[f] = PeerOf(f)
                        /\ sendKey'[f] = SessionKey(Initiator, Responder, Mine(f))
                        /\ recvKey'[f] = SessionKey(Initiator, Responder, Theirs(f))
      BY DEF KeyShape
    <3>1. CASE f = e
      BY <3>1, <2>1, <2>3 DEF KInv
    <3>2. CASE f # e
      BY <3>2, <2>3 DEF KInv, KeyShape
    <3>3. QED
      BY <3>1, <3>2
  <2>8. QED
    BY <2>6, <2>7 DEF KInv
<1>3. QED
  BY <1>1, <1>2

LEMMA KInvStep == KInv /\ [Next]_vars => KInv'
<1> SUFFICES ASSUME KInv, [Next]_vars PROVE KInv'
  OBVIOUS
<1>1. ASSUME NEW e \in Endpoints, NEW p \in {PeerOf(e), Zero}, Complete(e, p)
      PROVE  KInv'
  BY <1>1, CompleteKInv
<1>2. ASSUME NEW e \in Endpoints, Encrypt(e) PROVE KInv'
  BY <1>2 DEF Encrypt, KInv, KeyShape
<1>3. ASSUME NEW e \in Endpoints, NEW m \in Deliverable(e), Decrypt(e, m)
      PROVE  KInv'
  BY <1>3 DEF Decrypt, chanVars, KInv, KeyShape
<1>4. CASE UNCHANGED vars
  BY <1>4 DEF vars, chanVars, KInv, KeyShape
<1>5. QED
  BY <1>1, <1>2, <1>3, <1>4 DEF Next

(* KeysAgree follows from KeyShape: the halves differ, and the two roles   *)
(* pick them crosswise.                                                     *)
LEMMA KInvKeysAgree == KInv => KeysAgree
BY EndpointsAssumption DEF KInv, KeyShape, KeysAgree, SessionKey, Mine, Theirs,
                          PeerOf, IsInitiator, Endpoints

(* The two endpoints of a SecureChannel always agree on the key of each    *)
(* direction, and no endpoint receives with its own send key, for every    *)
(* ratchet parameter and whatever the network delivers.                    *)
THEOREM KeysAgreeAlways == Spec => []KeysAgree
<1>1. Spec => []KInv
  BY KInvInit, KInvStep, PTL DEF Spec
<1>2. QED
  BY <1>1, KInvKeysAgree, PTL
-----------------------------------------------------------------------------
(***************************************************************************)
(* Each direction of the channel is a Ratchet.  The network of the channel *)
(* is richer than Ratchet's in one way: with Reflect, an endpoint may be   *)
(* handed its own ciphertexts, which its receive key does not             *)
(* authenticate.  To Ratchet these are forged messages, whose generations  *)
(* are those Encrypt can produce: ReflectedGens.  PR and PI are the two    *)
(* directions as instances of Ratchet_proofs with that adversary.          *)
(***************************************************************************)
ReflectedGens == IF Reflect THEN 0 .. (MaxGeneration - 1) ELSE {}

PR == INSTANCE Ratchet_proofs WITH sendGen <- sgI, current <- curR, currentGen <- cgR,
                                   chains <- chR, delivered <- dlR, last <- lastR,
                                   Forged <- ReflectedGens
PI == INSTANCE Ratchet_proofs WITH sendGen <- sgR, current <- curI, currentGen <- cgI,
                                   chains <- chI, delivered <- dlI, last <- lastI,
                                   Forged <- ReflectedGens

\* The generation endpoint e's send Chain is at.
SentBy(e) == IF e = Initiator THEN sgI ELSE sgR

\* Every ciphertext was sealed by an established endpoint, with its send
\* key, at a generation its Chain has passed.
MsgShape ==
    /\ msgs \subseteq [from : Endpoints, key : Keys, gen : 0 .. (MaxGeneration - 1)]
    /\ \A m \in msgs : /\ established[m.from]
                       /\ m.key = sendKey[m.from]
                       /\ m.gen < SentBy(m.from)

CInv == KInv /\ MsgShape /\ PR!IInv /\ PI!IInv

(* The assumptions of Ratchet hold of both instances.                      *)
LEMMA RatchetInstances ==
    /\ W \in Nat \ {0}
    /\ MaxGeneration \in 1 .. 2^W
    /\ MaxSkip \in Nat
    /\ ReflectedGens \subseteq PR!Gen
    /\ ReflectedGens \subseteq PI!Gen
BY RatchetAssumption DEF ReflectedGens, PR!Gen, PI!Gen

LEMMA InitRefines == Init => PR!Init /\ PI!Init
BY DEF Init, ToR!Init, ToI!Init, PR!Init, PI!Init, ToR!Gen, ToI!Gen, PR!Gen, PI!Gen,
       ToR!NoKey, ToI!NoKey, PR!NoKey, PI!NoKey

LEMMA CInvInit == Init => CInv
<1> SUFFICES ASSUME Init PROVE CInv
  OBVIOUS
<1>1. KInv
  BY KInvInit
<1>2. MsgShape
  BY DEF Init, MsgShape
<1>3. PR!Init /\ PI!Init
  BY InitRefines
<1>4. PR!IInv
  BY <1>3, RatchetInstances, PR!IInvInit
<1>5. PI!IInv
  BY <1>3, RatchetInstances, PI!IInvInit
<1>. QED BY <1>1, <1>2, <1>4, <1>5 DEF CInv

(* Receiver.Open and Chain.Seal of the channel's instances are those of    *)
(* the proof instances: only the adversary differs, and Open does not      *)
(* mention it.                                                             *)
LEMMA SameOpen ==
  ASSUME NEW x
  PROVE  /\ ToR!Open(x) <=> PR!Open(x)
         /\ ToI!Open(x) <=> PI!Open(x)
         /\ ToR!Seal <=> PR!Seal
         /\ ToI!Seal <=> PI!Seal
BY DEF ToR!Open, ToR!OpenInOrder, ToR!OpenCached, ToR!OpenSkipRejected,
       ToR!OpenSkipAhead, ToR!OpenStale, ToR!Decrypt, ToR!Opens, ToR!WithinWindow,
       ToR!ToInt, ToR!NoKey, ToR!Gen, ToR!Seal,
       PR!Open, PR!OpenInOrder, PR!OpenCached, PR!OpenSkipRejected,
       PR!OpenSkipAhead, PR!OpenStale, PR!Decrypt, PR!Opens, PR!WithinWindow,
       PR!ToInt, PR!NoKey, PR!Gen, PR!Seal,
       ToI!Open, ToI!OpenInOrder, ToI!OpenCached, ToI!OpenSkipRejected,
       ToI!OpenSkipAhead, ToI!OpenStale, ToI!Decrypt, ToI!Opens, ToI!WithinWindow,
       ToI!ToInt, ToI!NoKey, ToI!Gen, ToI!Seal,
       PI!Open, PI!OpenInOrder, PI!OpenCached, PI!OpenSkipRejected,
       PI!OpenSkipAhead, PI!OpenStale, PI!Decrypt, PI!Opens, PI!WithinWindow,
       PI!ToInt, PI!NoKey, PI!Gen, PI!Seal

\* Receiver.Open never touches the peer's send Chain.
LEMMA OpenKeepsSender ==
  ASSUME NEW x
  PROVE  /\ PR!Open(x) => sgI' = sgI
         /\ PI!Open(x) => sgR' = sgR
BY DEF PR!Open, PR!OpenInOrder, PR!OpenCached, PR!OpenSkipRejected,
       PR!OpenSkipAhead, PR!OpenStale,
       PI!Open, PI!OpenInOrder, PI!OpenCached, PI!OpenSkipRejected,
       PI!OpenSkipAhead, PI!OpenStale

\* The established keys of the two roles, spelled out.
LEMMA RoleKeys ==
  ASSUME KInv
  PROVE  /\ established[Initiator] =>
               /\ sendKey[Initiator] = SessionKey(Initiator, Responder, "initiator")
               /\ recvKey[Initiator] = SessionKey(Initiator, Responder, "responder")
         /\ established[Responder] =>
               /\ sendKey[Responder] = SessionKey(Initiator, Responder, "responder")
               /\ recvKey[Responder] = SessionKey(Initiator, Responder, "initiator")
BY EndpointsAssumption DEF KInv, KeyShape, Mine, Theirs, IsInitiator, Endpoints

(* What the network hands to the responder is, to its Receiver, a message  *)
(* of Ratchet's network: the initiator's ciphertexts authenticate and were *)
(* sealed; its own, reflected, do not authenticate and carry a generation  *)
(* Encrypt can produce.                                                    *)
LEMMA SeenAtResponder ==
  ASSUME KInv, MsgShape, PR!TypeOK, established[Responder],
         NEW m \in Deliverable(Responder)
  PROVE  Seen(Responder, m) \in PR!Network
<1>1. /\ m \in msgs /\ m.from \in Endpoints /\ m.gen \in 0 .. (MaxGeneration - 1)
      /\ established[m.from] /\ m.key = sendKey[m.from] /\ m.gen < SentBy(m.from)
  BY DEF Deliverable, MsgShape
<1>2. sgI \in Nat
  BY DEF PR!TypeOK
<1>3. CASE m.from = Initiator
  <2>1. m.key = recvKey[Responder]
    BY <1>1, <1>3, RoleKeys
  <2>2. m.gen \in 0 .. (sgI - 1)
    BY <1>1, <1>2, <1>3, EndpointsAssumption DEF SentBy
  <2>. QED BY <2>1, <2>2 DEF Seen, PR!Network, PR!Genuine
<1>4. CASE m.from = Responder
  <2>1. Reflect
    BY <1>4 DEF Deliverable
  <2>2. m.key # recvKey[Responder]
    BY <1>1, <1>4, RoleKeys DEF SessionKey
  <2>3. m.gen \in ReflectedGens
    BY <1>1, <2>1 DEF ReflectedGens
  <2>. QED BY <2>2, <2>3 DEF Seen, PR!Network, PR!ForgedMsgs
<1>. QED BY <1>1, <1>3, <1>4 DEF Endpoints

\* The same at the initiator.
LEMMA SeenAtInitiator ==
  ASSUME KInv, MsgShape, PI!TypeOK, established[Initiator],
         NEW m \in Deliverable(Initiator)
  PROVE  Seen(Initiator, m) \in PI!Network
<1>1. /\ m \in msgs /\ m.from \in Endpoints /\ m.gen \in 0 .. (MaxGeneration - 1)
      /\ established[m.from] /\ m.key = sendKey[m.from] /\ m.gen < SentBy(m.from)
  BY DEF Deliverable, MsgShape
<1>2. sgR \in Nat
  BY DEF PI!TypeOK
<1>3. CASE m.from = Responder
  <2>1. m.key = recvKey[Initiator]
    BY <1>1, <1>3, RoleKeys
  <2>2. m.gen \in 0 .. (sgR - 1)
    BY <1>1, <1>2, <1>3, EndpointsAssumption DEF SentBy
  <2>. QED BY <2>1, <2>2 DEF Seen, PI!Network, PI!Genuine
<1>4. CASE m.from = Initiator
  <2>1. Reflect
    BY <1>4 DEF Deliverable
  <2>2. m.key # recvKey[Initiator]
    BY <1>1, <1>4, RoleKeys DEF SessionKey
  <2>3. m.gen \in ReflectedGens
    BY <1>1, <2>1 DEF ReflectedGens
  <2>. QED BY <2>2, <2>3 DEF Seen, PI!Network, PI!ForgedMsgs
<1>. QED BY <1>1, <1>3, <1>4 DEF Endpoints

(* Every step of the channel is a step of the initiator -> responder       *)
(* Ratchet, or leaves its variables alone: Encrypt at the initiator is     *)
(* Seal, Decrypt at the responder is Receive of a message of its network.  *)
LEMMA ToRStep ==
  ASSUME KInv, MsgShape, PR!TypeOK, [Next]_vars
  PROVE  [PR!Next]_(PR!vars)
<1>1. ASSUME NEW e \in Endpoints, NEW p \in {PeerOf(e), Zero}, Complete(e, p)
      PROVE  UNCHANGED PR!vars
  BY <1>1 DEF Complete, PR!vars, toRVars
<1>2. ASSUME NEW e \in Endpoints, Encrypt(e) PROVE [PR!Next]_(PR!vars)
  <2>1. CASE e = Initiator
    BY <1>2, <2>1, SameOpen DEF Encrypt, PR!Next
  <2>2. CASE e = Responder
    BY <1>2, <2>2, EndpointsAssumption DEF Encrypt, PR!vars, toRVars
  <2>. QED BY <2>1, <2>2 DEF Endpoints
<1>3. ASSUME NEW e \in Endpoints, NEW m \in Deliverable(e), Decrypt(e, m)
      PROVE  [PR!Next]_(PR!vars)
  <2>1. CASE e = Responder
    <3>1. Seen(Responder, m) \in PR!Network
      BY <1>3, <2>1, SeenAtResponder DEF Decrypt
    <3>2. PR!Open(Seen(Responder, m))
      BY <1>3, <2>1, SameOpen DEF Decrypt
    <3>. QED BY <3>1, <3>2 DEF PR!Next, PR!Receive
  <2>2. CASE e = Initiator
    BY <1>3, <2>2, EndpointsAssumption DEF Decrypt, PR!vars, toRVars
  <2>. QED BY <2>1, <2>2 DEF Endpoints
<1>4. CASE UNCHANGED vars
  BY <1>4 DEF vars, PR!vars, toRVars
<1>. QED BY <1>1, <1>2, <1>3, <1>4 DEF Next

\* The same for the responder -> initiator Ratchet.
LEMMA ToIStep ==
  ASSUME KInv, MsgShape, PI!TypeOK, [Next]_vars
  PROVE  [PI!Next]_(PI!vars)
<1>1. ASSUME NEW e \in Endpoints, NEW p \in {PeerOf(e), Zero}, Complete(e, p)
      PROVE  UNCHANGED PI!vars
  BY <1>1 DEF Complete, PI!vars, toIVars
<1>2. ASSUME NEW e \in Endpoints, Encrypt(e) PROVE [PI!Next]_(PI!vars)
  <2>1. CASE e = Responder
    BY <1>2, <2>1, SameOpen, EndpointsAssumption DEF Encrypt, PI!Next
  <2>2. CASE e = Initiator
    BY <1>2, <2>2 DEF Encrypt, PI!vars, toIVars
  <2>. QED BY <2>1, <2>2 DEF Endpoints
<1>3. ASSUME NEW e \in Endpoints, NEW m \in Deliverable(e), Decrypt(e, m)
      PROVE  [PI!Next]_(PI!vars)
  <2>1. CASE e = Initiator
    <3>1. Seen(Initiator, m) \in PI!Network
      BY <1>3, <2>1, SeenAtInitiator DEF Decrypt
    <3>2. PI!Open(Seen(Initiator, m))
      BY <1>3, <2>1, SameOpen, EndpointsAssumption DEF Decrypt
    <3>. QED BY <3>1, <3>2 DEF PI!Next, PI!Receive
  <2>2. CASE e = Responder
    BY <1>3, <2>2, EndpointsAssumption DEF Decrypt, PI!vars, toIVars
  <2>. QED BY <2>1, <2>2 DEF Endpoints
<1>4. CASE UNCHANGED vars
  BY <1>4 DEF vars, PI!vars, toIVars
<1>. QED BY <1>1, <1>2, <1>3, <1>4 DEF Next

(* Complete changes keys only of an endpoint that has sent nothing; Encrypt *)
(* adds a ciphertext under its own key and generation and moves its Chain  *)
(* past it; Decrypt changes neither ciphertexts nor send Chains.           *)
LEMMA MsgShapeStep ==
  ASSUME KInv, MsgShape, PR!TypeOK, PI!TypeOK, [Next]_vars
  PROVE  MsgShape'
<1>1. ASSUME NEW e \in Endpoints, NEW p \in {PeerOf(e), Zero}, Complete(e, p)
      PROVE  MsgShape'
  <2>1. /\ msgs' = msgs /\ sgI' = sgI /\ sgR' = sgR
        /\ \A f \in Endpoints : f # e => /\ established'[f] = established[f]
                                         /\ sendKey'[f] = sendKey[f]
    BY <1>1 DEF Complete, toRVars, toIVars, KInv
  <2>2. \A m \in msgs : m.from # e
    BY <1>1 DEF Complete, MsgShape
  <2>. QED BY <2>1, <2>2 DEF MsgShape, SentBy
<1>2. ASSUME NEW e \in Endpoints, Encrypt(e) PROVE MsgShape'
  <2>1. /\ established[e] /\ UNCHANGED <<established, sendKey>>
        /\ sendKey[e] \in Keys
    BY <1>2, RoleKeys DEF Encrypt, SessionKey, Keys, Endpoints
  <2>2. sgI \in 0 .. MaxGeneration /\ sgR \in 0 .. MaxGeneration
    BY DEF PR!TypeOK, PI!TypeOK
  <2>3. CASE e = Initiator
    <3>1. /\ msgs' = msgs \cup {[from |-> e, key |-> sendKey[e], gen |-> sgI]}
          /\ sgI < MaxGeneration /\ sgI' = sgI + 1 /\ sgR' = sgR
      BY <1>2, <2>3 DEF Encrypt, ToR!Seal, toIVars
    <3>2. msgs' \subseteq [from : Endpoints, key : Keys, gen : 0 .. (MaxGeneration - 1)]
      BY <2>1, <2>2, <2>3, <3>1, RatchetInstances DEF MsgShape, Endpoints
    <3>3. sgI <= sgI' /\ sgR <= sgR' /\ sgI' \in Nat /\ sgR' \in Nat
      BY <2>2, <3>1
    <3>4. ASSUME NEW m \in msgs'
          PROVE  /\ established'[m.from] /\ m.key = sendKey'[m.from]
                 /\ m.gen < SentBy(m.from)'
      <4>1. CASE m \in msgs
        <5>1. m.from \in Endpoints /\ m.gen \in Nat /\ established[m.from]
              /\ m.key = sendKey[m.from] /\ m.gen < SentBy(m.from)
          BY <4>1 DEF MsgShape
        <5>2. established'[m.from] /\ m.key = sendKey'[m.from]
          BY <2>1, <5>1
        <5>3. m.gen < SentBy(m.from)'
          BY <2>2, <3>3, <5>1 DEF SentBy, Endpoints
        <5>. QED BY <5>2, <5>3
      <4>2. CASE m = [from |-> e, key |-> sendKey[e], gen |-> sgI]
        BY <2>1, <2>2, <2>3, <3>1, <4>2, EndpointsAssumption DEF SentBy
      <4>. QED BY <3>1, <4>1, <4>2
    <3>. QED BY <3>2, <3>4 DEF MsgShape
  <2>4. CASE e = Responder
    <3>1. /\ msgs' = msgs \cup {[from |-> e, key |-> sendKey[e], gen |-> sgR]}
          /\ sgR < MaxGeneration /\ sgR' = sgR + 1 /\ sgI' = sgI
      BY <1>2, <2>4, EndpointsAssumption DEF Encrypt, ToI!Seal, toRVars
    <3>2. msgs' \subseteq [from : Endpoints, key : Keys, gen : 0 .. (MaxGeneration - 1)]
      BY <2>1, <2>2, <2>4, <3>1, RatchetInstances DEF MsgShape, Endpoints
    <3>3. sgI <= sgI' /\ sgR <= sgR' /\ sgI' \in Nat /\ sgR' \in Nat
      BY <2>2, <3>1
    <3>4. ASSUME NEW m \in msgs'
          PROVE  /\ established'[m.from] /\ m.key = sendKey'[m.from]
                 /\ m.gen < SentBy(m.from)'
      <4>1. CASE m \in msgs
        <5>1. m.from \in Endpoints /\ m.gen \in Nat /\ established[m.from]
              /\ m.key = sendKey[m.from] /\ m.gen < SentBy(m.from)
          BY <4>1 DEF MsgShape
        <5>2. established'[m.from] /\ m.key = sendKey'[m.from]
          BY <2>1, <5>1
        <5>3. m.gen < SentBy(m.from)'
          BY <2>2, <3>3, <5>1 DEF SentBy, Endpoints
        <5>. QED BY <5>2, <5>3
      <4>2. CASE m = [from |-> e, key |-> sendKey[e], gen |-> sgR]
        BY <2>1, <2>2, <2>4, <3>1, <4>2, EndpointsAssumption DEF SentBy
      <4>. QED BY <3>1, <4>1, <4>2
    <3>. QED BY <3>2, <3>4 DEF MsgShape
  <2>. QED BY <2>3, <2>4 DEF Endpoints
<1>3. ASSUME NEW e \in Endpoints, NEW m \in Deliverable(e), Decrypt(e, m)
      PROVE  MsgShape'
  <2>1. sgI' = sgI /\ sgR' = sgR
    BY <1>3, SameOpen, OpenKeepsSender DEF Decrypt, toRVars, toIVars
  <2>. QED BY <1>3, <2>1 DEF Decrypt, chanVars, MsgShape, SentBy
<1>4. CASE UNCHANGED vars
  BY <1>4 DEF vars, chanVars, toRVars, toIVars, MsgShape, SentBy
<1>. QED BY <1>1, <1>2, <1>3, <1>4 DEF Next

LEMMA CInvStep == CInv /\ [Next]_vars => CInv'
<1> SUFFICES ASSUME CInv, [Next]_vars PROVE CInv'
  OBVIOUS
<1>0. KInv /\ MsgShape /\ PR!IInv /\ PI!IInv /\ PR!TypeOK /\ PI!TypeOK
  BY DEF CInv, PR!IInv, PI!IInv
<1>1. KInv'
  BY <1>0, KInvStep
<1>2. MsgShape'
  BY <1>0, MsgShapeStep
<1>3. PR!IInv'
  BY <1>0, ToRStep, RatchetInstances, PR!IInvStep
<1>4. PI!IInv'
  BY <1>0, ToIStep, RatchetInstances, PI!IInvStep
<1>. QED BY <1>1, <1>2, <1>3, <1>4 DEF CInv

LEMMA CInvTypeOK == CInv => TypeOK
BY DEF CInv, KInv, MsgShape, PR!IInv, PI!IInv, TypeOK,
       ToR!TypeOK, ToI!TypeOK, PR!TypeOK, PI!TypeOK, ToR!Gen, ToI!Gen, PR!Gen, PI!Gen,
       ToR!NoKey, ToI!NoKey, PR!NoKey, PI!NoKey, ToR!Results, ToI!Results,
       PR!Results, PI!Results

(* Every variable of the channel and of both ratchets keeps its type, for  *)
(* every ratchet parameter and whether or not the network reflects         *)
(* ciphertexts: in particular no Decrypt finds a ciphertext of a           *)
(* generation outside the uint64 range or an endpoint not established.     *)
THEOREM ChannelTypeCorrect == Spec => []TypeOK
BY CInvInit, CInvStep, CInvTypeOK, PTL DEF Spec

(* Each direction of SecureChannel implements Ratchet: the initiator's     *)
(* Encrypt is Chain.Seal, the responder's Decrypt is Receiver.Open of a    *)
(* message Ratchet's network may deliver, every other step leaves that     *)
(* direction alone, and the only messages that do not authenticate are the *)
(* reflected ones.  So every property Ratchet_proofs proves for a network  *)
(* forging ReflectedGens holds of each direction of the channel.          *)
THEOREM DirectionsRefine == Spec => PR!Spec /\ PI!Spec
<1>1. CInv /\ [Next]_vars => [PR!Next]_(PR!vars) /\ [PI!Next]_(PI!vars)
  BY ToRStep, ToIStep DEF CInv, PR!IInv, PI!IInv
<1>2. Init => PR!Init /\ PI!Init
  BY InitRefines
<1>. QED BY <1>1, <1>2, CInvInit, CInvStep, PTL DEF Spec, PR!Spec, PI!Spec

(* No ciphertext is accepted twice by either endpoint, and once one is     *)
(* decrypted its endpoint keeps no key that opens it again, whatever the   *)
(* network replays and even when it reflects an endpoint's own ciphertexts *)
(* back to it: Receiver.Open's deletion of used keys, composed with the    *)
(* channel's key separation, which makes reflections fail authentication.  *)
THEOREM ChannelForwardSecure ==
    Spec => [](/\ ToR!ForwardSecrecy /\ ToR!NoReplay
               /\ ToI!ForwardSecrecy /\ ToI!NoReplay)
<1>1. CInv => /\ ToR!ForwardSecrecy /\ ToR!NoReplay
              /\ ToI!ForwardSecrecy /\ ToI!NoReplay
  BY DEF CInv, PR!IInv, PI!IInv, PR!ForwardSecrecy, PR!NoReplay, PI!ForwardSecrecy,
         PI!NoReplay, ToR!ForwardSecrecy, ToR!NoReplay, ToI!ForwardSecrecy,
         ToI!NoReplay, PR!Opened, PI!Opened, ToR!Opened, ToI!Opened, PR!Gen, PI!Gen,
         ToR!Gen, ToI!Gen
<1>. QED BY <1>1, CInvInit, CInvStep, PTL DEF Spec

CKInv == CInv /\ PR!KInv /\ PI!KInv

LEMMA CKInvInit ==
  ASSUME ~ Reflect, MaxGeneration < 2^W
  PROVE  Init => CKInv
<1> SUFFICES ASSUME Init PROVE CKInv
  OBVIOUS
<1>1. PR!Init /\ PI!Init
  BY InitRefines
<1>2. PR!KInv
  BY <1>1, RatchetInstances, PR!KInvInit
<1>3. PI!KInv
  BY <1>1, RatchetInstances, PI!KInvInit
<1>. QED BY <1>2, <1>3, CInvInit DEF CKInv

LEMMA CKInvStep ==
  ASSUME ~ Reflect, MaxGeneration < 2^W
  PROVE  CKInv /\ [Next]_vars => CKInv'
<1> SUFFICES ASSUME CKInv, [Next]_vars PROVE CKInv'
  OBVIOUS
<1>0. /\ ReflectedGens = {}
      /\ KInv /\ MsgShape /\ PR!TypeOK /\ PI!TypeOK /\ PR!KInv /\ PI!KInv
  BY DEF ReflectedGens, CKInv, CInv, PR!IInv, PI!IInv
<1>1. CInv'
  BY CInvStep DEF CKInv
<1>2. PR!KInv'
  BY <1>0, ToRStep, RatchetInstances, PR!KInvStep
<1>3. PI!KInv'
  BY <1>0, ToIStep, RatchetInstances, PI!KInvStep
<1>. QED BY <1>1, <1>2, <1>3 DEF CKInv

LEMMA CKInvRetained == CKInv => ChannelKeyRetained
BY DEF CKInv, PR!KInv, PI!KInv, ChannelKeyRetained, ToR!KeyRetained, ToI!KeyRetained,
       PR!KeyRetained, PI!KeyRetained, ToR!Opened, ToI!Opened, PR!Opened, PI!Opened

(* When the network does not reflect ciphertexts and MaxGeneration < 2^W   *)
(* (2^32 < 2^64 in the code), every ciphertext an endpoint has encrypted   *)
(* and its peer has not yet decrypted can still be decrypted, in both      *)
(* directions, whatever the network loses, duplicates or reorders.         *)
THEOREM ChannelKeysRetained ==
  ASSUME ~ Reflect, MaxGeneration < 2^W
  PROVE  Spec => []ChannelKeyRetained
BY CKInvInit, CKInvStep, CKInvRetained, PTL DEF Spec
=============================================================================
