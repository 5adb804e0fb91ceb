------------------------------- MODULE Ratchet -------------------------------
(***************************************************************************)
(* The symmetric key ratchet of package ratchet (unnamed/part_012): a send  *)
(* Chain (Step/Seal) and an out-of-order Receiver (Open), connected by a    *)
(* network that loses, duplicates and reorders messages and on which an     *)
(* adversary may inject messages with a chosen generation number.          *)
(*                                                                         *)
(* Chain keys are abstracted by their POSITION in the hash chain: the key  *)
(* obtained by applying nextChainKey = SHA-256(ck || 0x02) p times to the   *)
(* initial key is position p, and the message key SHA-256(ck || 0x01) of   *)
(* position p decrypts exactly the message sealed at generation p.  The    *)
(* receiver keeps the code's GENERATION LABELS (currentGen, the keys of    *)
(* the chains map) separately from the positions of the keys it stores, so *)
(* that a label that no longer matches its key is visible.                 *)
(*                                                                         *)
(* uint64 is scaled to W bits: generation numbers are 0 .. 2^W - 1, and    *)
(* Go's int(uint64) conversion is the W-bit two's complement reading.      *)
(***************************************************************************)
EXTENDS Naturals, Integers

CONSTANTS
    W,              \* bit width of the generation counter (64 in the code)
    MaxGeneration,  \* Chain refuses to step at this generation (1 << 32)
    MaxSkip,        \* Receiver.maxSkip (1000 from SecureChannel.Complete)
    Forged          \* generations the adversary may put on forged messages

ASSUME WAssumption == W \in Nat \ {0}
ASSUME MaxGenerationAssumption == MaxGeneration \in 1 .. 2^W
ASSUME MaxSkipAssumption == MaxSkip \in Nat

Gen == 0 .. (2^W - 1)                  \* values of a uint64 generation

ASSUME ForgedAssumption == Forged \subseteq Gen

NoKey == -1                             \* "no entry" in the chains map

\* Go's int(x) for a uint64 x, at width W.
ToInt(x) == IF x < 2^(W - 1) THEN x ELSE x - 2^W

VARIABLES
    sendGen,     \* Chain.generation of the sender
    current,     \* position of Receiver.current
    currentGen,  \* Receiver.currentGen
    chains,      \* Receiver.chains: label -> position of the cached key
    delivered,   \* history: successful Opens of each genuine generation
    last         \* outcome of the most recent Receiver.Open

vars == <<sendGen, current, currentGen, chains, delivered, last>>

Results == {"none", "ok", "decryption_failed", "invalid_generation"}

\* Messages on the network: every sealed message (the network may deliver
\* any of them, any number of times, in any order) and forged ones, whose
\* AEAD tag is not valid under any key.
Genuine == [gen : 0 .. (sendGen - 1), auth : {TRUE}]
ForgedMsgs == [gen : Forged, auth : {FALSE}]
Network == Genuine \cup ForgedMsgs

\* AEAD.Open with the message key of chain position key: it authenticates
\* exactly the genuine message sealed at that generation.
Opens(key, m) == m.auth /\ key = m.gen

-----------------------------------------------------------------------------
Init ==
    /\ sendGen = 0                           \* NewChain
    /\ current = 0                           \* NewReceiver: initial key
    /\ currentGen = 0
    /\ chains = [l \in Gen |-> NoKey]
    /\ delivered = [g \in 0 .. (MaxGeneration - 1) |-> 0]
    /\ last = "none"

\* Mutant: Step without the MaxGeneration check.
SealUnbounded ==
    /\ sendGen' = sendGen + 1
    /\ UNCHANGED <<current, currentGen, chains, delivered, last>>

\* Chain.Seal: Step derives the message key, advances the chain and the
\* generation under the lock and fails with ErrRatchetExhausted at
\* MaxGeneration; the message carries the pre-increment generation.
Seal ==
    /\ sendGen < MaxGeneration
    /\ sendGen' = sendGen + 1
    /\ UNCHANGED <<current, currentGen, chains, delivered, last>>

\* The AEAD.Open that ends every path of Receiver.Open, with the key it
\* derived: the outcome is recorded, a success counted.
Decrypt(key, m) ==
    /\ last' = IF Opens(key, m) THEN "ok" ELSE "decryption_failed"
    /\ delivered' = IF Opens(key, m)
                      THEN [delivered EXCEPT ![m.gen] = @ + 1]
                      ELSE delivered

\* gen == currentGen: decrypt with the current key; advance only on success.
OpenInOrder(m) ==
    /\ m.gen = currentGen
    /\ Decrypt(current, m)
    /\ \/ /\ Opens(current, m)
          /\ current' = current + 1
          /\ currentGen' = (currentGen + 1) % 2^W
       \/ /\ ~ Opens(current, m)
          /\ UNCHANGED <<current, currentGen>>
    /\ UNCHANGED <<sendGen, chains>>

\* Mutant: the cached key is used but not deleted.
OpenCachedKeep(m) ==
    /\ m.gen # currentGen
    /\ chains[m.gen] # NoKey
    /\ Decrypt(chains[m.gen], m)
    /\ UNCHANGED <<sendGen, current, currentGen, chains>>

\* Mutant: the cache is consulted only for generations ahead of currentGen
\* (the stale check placed before the lookup).
OpenCachedLate(m) ==
    /\ m.gen > currentGen
    /\ chains[m.gen] # NoKey
    /\ chains' = [chains EXCEPT ![m.gen] = NoKey]
    /\ Decrypt(chains[m.gen], m)
    /\ UNCHANGED <<sendGen, current, currentGen>>

\* A cached key for gen: the entry is deleted before the AEAD is opened.
OpenCached(m) ==
    /\ m.gen # currentGen
    /\ chains[m.gen] # NoKey
    /\ chains' = [chains EXCEPT ![m.gen] = NoKey]
    /\ Decrypt(chains[m.gen], m)
    /\ UNCHANGED <<sendGen, current, currentGen>>

\* Mutant: the window check compares with maxSkip + 1.
WithinWindowLoose(m) == ToInt(m.gen - currentGen) <= MaxSkip + 1

\* skip := int(gen - currentGen); the message is refused if skip > maxSkip.
WithinWindow(m) == ToInt(m.gen - currentGen) <= MaxSkip

OpenSkipRejected(m) ==
    /\ m.gen # currentGen
    /\ chains[m.gen] = NoKey
    /\ m.gen > currentGen
    /\ ~ WithinWindow(m)
    /\ last' = "invalid_generation"
    /\ UNCHANGED <<sendGen, current, currentGen, chains, delivered>>

\* Mutant: skipping ahead forgets to cache the intermediate keys.
OpenSkipAheadNoCache(m) ==
    /\ m.gen # currentGen
    /\ chains[m.gen] = NoKey
    /\ m.gen > currentGen
    /\ WithinWindow(m)
    /\ current' = current + (m.gen - currentGen) + 1
    /\ currentGen' = (m.gen + 1) % 2^W
    /\ Decrypt(current + (m.gen - currentGen), m)
    /\ UNCHANGED <<sendGen, chains>>

\* A message from the future: the keys of generations currentGen .. gen-1
\* are cached, the chain is moved past gen, and only then is the AEAD
\* opened with the key of position current + (gen - currentGen).
OpenSkipAhead(m) ==
    /\ m.gen # currentGen
    /\ chains[m.gen] = NoKey
    /\ m.gen > currentGen
    /\ WithinWindow(m)
    /\ chains' = [l \in Gen |->
                    IF currentGen <= l /\ l < m.gen
                      THEN current + (l - currentGen)
                      ELSE chains[l]]
    /\ current' = current + (m.gen - currentGen) + 1
    /\ currentGen' = (m.gen + 1) % 2^W
    /\ Decrypt(current + (m.gen - currentGen), m)
    /\ UNCHANGED sendGen

\* A message from the past whose key is not cached (replay or too old).
OpenStale(m) ==
    /\ m.gen # currentGen
    /\ chains[m.gen] = NoKey
    /\ m.gen < currentGen
    /\ last' = "invalid_generation"
    /\ UNCHANGED <<sendGen, current, currentGen, chains, delivered>>

\* Receiver.Open runs entirely under the receiver's mutex: one atomic step.
Open(m) ==
    \/ OpenInOrder(m)
    \/ OpenCached(m)
    \/ OpenSkipRejected(m)
    \/ OpenSkipAhead(m)
    \/ OpenStale(m)

Receive == \E m \in Network : Open(m)

Next == Seal \/ Receive

\* The transport eventually hands every sealed message to Decrypt.
Fairness ==
    \A g \in 0 .. (MaxGeneration - 1) :
        WF_vars(g < sendGen /\ Open([gen |-> g, auth |-> TRUE]))

Spec == Init /\ [][Next]_vars
FairSpec == Spec /\ Fairness

-----------------------------------------------------------------------------
TypeOK ==
    /\ sendGen \in 0 .. MaxGeneration
    /\ current \in Nat
    /\ currentGen \in Gen
    /\ chains \in [Gen -> Nat \cup {NoKey}]
    /\ delivered \in [0 .. (MaxGeneration - 1) -> Nat]
    /\ last \in Results

Opened == {g \in 0 .. (MaxGeneration - 1) : delivered[g] > 0}

(* Forward secrecy and replay protection of Receiver.Open: once the        *)
(* message of generation g has been decrypted, the receiver holds no key   *)
(* from which its message key can be derived again: the current chain key  *)
(* is past it and no cached entry of the chains map holds it.  Breaking it *)
(* takes an out-of-order delivery that fills the cache and then a          *)
(* delivery that uses a cached key without removing it.                    *)
ForwardSecrecy ==
    \A g \in Opened :
        /\ g < current
        /\ \A l \in Gen : chains[l] # g

(* No genuine message is accepted twice, whatever the network duplicates  *)
(* and in whichever order: Receiver.Open returns each sealed plaintext at  *)
(* most once, because every key it decrypts with is consumed, by moving    *)
(* the chain past it (in order or after a skip) or by deleting it from the *)
(* cache.  A path that decrypts and keeps its key lets a duplicate through.*)
NoReplay == \A g \in DOMAIN delivered : delivered[g] <= 1

(* Every sealed message that has not been decrypted yet can still be       *)
(* decrypted: its key is cached under its own generation, or the current   *)
(* chain key has not moved past it.  This is what lets SecureChannel       *)
(* tolerate reordering; a step that moves the chain or drops a cached key  *)
(* without decrypting the message it was for breaks it.                    *)
KeyRetained ==
    \A g \in 0 .. (sendGen - 1) :
        g \notin Opened => (chains[g] = g \/ g >= current)

(* One Open never moves the receive chain over more than MaxSkip skipped   *)
(* keys: the maxSkip check of Receiver.Open bounds both the work done      *)
(* under the lock and the keys it caches.                                  *)
WindowRespected == [][current' - current <= MaxSkip + 1]_vars

(* Every message the sender seals is eventually decrypted, when the        *)
(* transport delivers each one and nobody forges messages.                 *)
AllEventuallyOpened ==
    \A g \in 0 .. (MaxGeneration - 1) : (g < sendGen) ~> (g \in Opened)

=============================================================================
