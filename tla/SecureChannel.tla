----------------------------- MODULE SecureChannel -----------------------------
(***************************************************************************)
(* SecureChannel (package crypto, channel.go): two endpoints, an initiator  *)
(* and a responder, agree on session keys from their ephemeral X25519 keys  *)
(* (Complete, with ECDH and DeriveSessionKeys of kdf.go), then Encrypt with *)
(* their send Chain and Decrypt with their receive Receiver.  Each          *)
(* direction is an instance of Ratchet: the initiator's Chain with the      *)
(* responder's Receiver, and the reverse.                                  *)
(*                                                                         *)
(* An ephemeral public key is the name of its endpoint; Zero is the        *)
(* all-zero key ECDH rejects.  A session key is the triple DeriveSessionKeys *)
(* binds it to: initiator public key, responder public key, and which half *)
(* of the 64 bytes of HKDF output it is.  Ciphertexts carry the key that   *)
(* sealed them; a Receiver authenticates a ciphertext exactly when that key *)
(* is its own receive key.  The network keeps every ciphertext and may hand *)
(* any of them to the peer, any number of times and in any order, and, when *)
(* Reflect holds, back to the endpoint that sent it.                        *)
(***************************************************************************)
EXTENDS Naturals

CONSTANTS
    Initiator, Responder,   \* the two endpoints
    Zero,                   \* the all-zero public key
    NoChannelKey,           \* no key or peer key set yet
    W, MaxGeneration, MaxSkip,
    Reflect                 \* whether the network may return a ciphertext to its sender

ASSUME ReflectAssumption == Reflect \in BOOLEAN
ASSUME EndpointsAssumption ==
    Initiator # Responder /\ Zero \notin {Initiator, Responder}
\* The assumptions of Ratchet, for both directions (W = 64,
\* MaxGeneration = 1 << 32 and MaxSkip = 1000 in the code).
ASSUME RatchetAssumption ==
    W \in Nat \ {0} /\ MaxGeneration \in 1 .. 2^W /\ MaxSkip \in Nat

Endpoints == {Initiator, Responder}
PeerOf(e) == IF e = Initiator THEN Responder ELSE Initiator
IsInitiator(e) == e = Initiator

Keys == [ipub : Endpoints, rpub : Endpoints, half : {"initiator", "responder"}]

VARIABLES
    established,   \* SecureChannel.established
    remote,        \* SecureChannel.remoteEphPub, or NoChannelKey
    sendKey,       \* the key sendChain was created from
    recvKey,       \* the key recvChain was created from
    msgs,          \* every ciphertext Encrypt has produced
    \* the initiator -> responder direction
    sgI, curR, cgR, chR, dlR, lastR,
    \* the responder -> initiator direction
    sgR, curI, cgI, chI, dlI, lastI

chanVars == <<established, remote, sendKey, recvKey, msgs>>
toRVars == <<sgI, curR, cgR, chR, dlR, lastR>>
toIVars == <<sgR, curI, cgI, chI, dlI, lastI>>
vars == <<chanVars, toRVars, toIVars>>

ToR == INSTANCE Ratchet WITH sendGen <- sgI, current <- curR, currentGen <- cgR,
                             chains <- chR, delivered <- dlR, last <- lastR,
                             Forged <- {}
ToI == INSTANCE Ratchet WITH sendGen <- sgR, current <- curI, currentGen <- cgI,
                             chains <- chI, delivered <- dlI, last <- lastI,
                             Forged <- {}

-----------------------------------------------------------------------------
\* NewSecureChannelInitiator / NewSecureChannelResponder.
Init ==
    /\ established = [e \in Endpoints |-> FALSE]
    /\ remote = [e \in Endpoints |-> NoChannelKey]
    /\ sendKey = [e \in Endpoints |-> NoChannelKey]
    /\ recvKey = [e \in Endpoints |-> NoChannelKey]
    /\ msgs = {}
    /\ ToR!Init
    /\ ToI!Init

\* DeriveSessionKeys(shared, initiatorPub, responderPub): the first half of
\* the output is the initiator's key, the second the responder's.
SessionKey(ipub, rpub, half) == [ipub |-> ipub, rpub |-> rpub, half |-> half]

\* Mutant: both roles send with the initiator half.
CompleteSwapped(e, p) ==
    /\ ~ established[e]
    /\ remote' = [remote EXCEPT ![e] = p]
    /\ IF p = Zero
         THEN UNCHANGED <<established, sendKey, recvKey>>
         ELSE LET ipub == IF IsInitiator(e) THEN e ELSE p
                  rpub == IF IsInitiator(e) THEN p ELSE e
              IN /\ sendKey' = [sendKey EXCEPT ![e] = SessionKey(ipub, rpub, "initiator")]
                 /\ recvKey' = [recvKey EXCEPT ![e] = SessionKey(ipub, rpub, "responder")]
                 /\ established' = [established EXCEPT ![e] = TRUE]
    /\ UNCHANGED <<msgs, toRVars, toIVars>>

\* Complete(peerEphPub): nothing once established; remoteEphPub is stored
\* before ECDH, which rejects the all-zero key; the initiator sends with the
\* initiator half and receives with the responder half, and the responder
\* the other way round.  (DeriveSessionKeys, NewChain and NewReceiver cannot
\* fail on 32-byte inputs.)
Complete(e, p) ==
    /\ ~ established[e]
    /\ remote' = [remote EXCEPT ![e] = p]
    /\ IF p = Zero
         THEN UNCHANGED <<established, sendKey, recvKey>>
         ELSE LET ipub == IF IsInitiator(e) THEN e ELSE p
                  rpub == IF IsInitiator(e) THEN p ELSE e
                  mine == IF IsInitiator(e) THEN "initiator" ELSE "responder"
                  theirs == IF IsInitiator(e) THEN "responder" ELSE "initiator"
              IN /\ sendKey' = [sendKey EXCEPT ![e] = SessionKey(ipub, rpub, mine)]
                 /\ recvKey' = [recvKey EXCEPT ![e] = SessionKey(ipub, rpub, theirs)]
                 /\ established' = [established EXCEPT ![e] = TRUE]
    /\ UNCHANGED <<msgs, toRVars, toIVars>>

\* Mutant: Encrypt does not check that the channel is established.
EncryptUnestablished(e) ==
    /\ IF e = Initiator
         THEN /\ ToR!Seal
              /\ msgs' = msgs \cup {[from |-> e, key |-> sendKey[e], gen |-> sgI]}
              /\ UNCHANGED toIVars
         ELSE /\ ToI!Seal
              /\ msgs' = msgs \cup {[from |-> e, key |-> sendKey[e], gen |-> sgR]}
              /\ UNCHANGED toRVars
    /\ UNCHANGED <<established, remote, sendKey, recvKey>>

\* Encrypt: refused until established; Chain.Seal under sc.mu.
Encrypt(e) ==
    /\ established[e]
    /\ IF e = Initiator
         THEN /\ ToR!Seal
              /\ msgs' = msgs \cup {[from |-> e, key |-> sendKey[e], gen |-> sgI]}
              /\ UNCHANGED toIVars
         ELSE /\ ToI!Seal
              /\ msgs' = msgs \cup {[from |-> e, key |-> sendKey[e], gen |-> sgR]}
              /\ UNCHANGED toRVars
    /\ UNCHANGED <<established, remote, sendKey, recvKey>>

\* Mutant: the receiver checks ciphertexts against its send key.
SeenWrongKey(e, m) == [gen |-> m.gen, auth |-> m.key = sendKey[e]]

\* The message Receiver.Open sees at endpoint e: the generation the
\* ciphertext carries, and whether its AEAD tag verifies under e's keys.
Seen(e, m) == [gen |-> m.gen, auth |-> m.key = recvKey[e]]

\* Decrypt: refused until established; Receiver.Open under sc.mu.
Decrypt(e, m) ==
    /\ established[e]
    /\ IF e = Responder
         THEN ToR!Open(Seen(e, m)) /\ UNCHANGED toIVars
         ELSE ToI!Open(Seen(e, m)) /\ UNCHANGED toRVars
    /\ UNCHANGED chanVars

\* What the network may hand to endpoint e.
Deliverable(e) == {m \in msgs : m.from # e \/ Reflect}

Next ==
    \/ \E e \in Endpoints : \E p \in {PeerOf(e), Zero} : Complete(e, p)
    \/ \E e \in Endpoints : Encrypt(e)
    \/ \E e \in Endpoints : \E m \in Deliverable(e) : Decrypt(e, m)

Spec == Init /\ [][Next]_vars

-----------------------------------------------------------------------------
TypeOK ==
    /\ established \in [Endpoints -> BOOLEAN]
    /\ remote \in [Endpoints -> Endpoints \cup {Zero, NoChannelKey}]
    /\ sendKey \in [Endpoints -> Keys \cup {NoChannelKey}]
    /\ recvKey \in [Endpoints -> Keys \cup {NoChannelKey}]
    /\ msgs \subseteq [from : Endpoints, key : Keys, gen : 0 .. (MaxGeneration - 1)]
    /\ ToR!TypeOK
    /\ ToI!TypeOK

(* When both endpoints have completed with each other's genuine ephemeral  *)
(* key, each one's send key is the other's receive key, and no endpoint    *)
(* receives with its own send key (so its own ciphertexts, reflected back, *)
(* do not authenticate).  This rests on Complete's role-dependent choice of *)
(* the HKDF halves and on DeriveSessionKeys binding both public keys in    *)
(* the same order on both sides.                                           *)
KeysAgree ==
    /\ \A e \in Endpoints : established[e] => sendKey[e] # recvKey[e]
    /\ (\A e \in Endpoints : established[e] /\ remote[e] = PeerOf(e))
         => \A e \in Endpoints : sendKey[e] = recvKey[PeerOf(e)]

(* Every ciphertext an endpoint has encrypted and its peer has not yet     *)
(* decrypted can still be decrypted by the peer, in both directions: the   *)
(* composed channel keeps Receiver's out-of-order tolerance.               *)
ChannelKeyRetained == ToR!KeyRetained /\ ToI!KeyRetained

=============================================================================
