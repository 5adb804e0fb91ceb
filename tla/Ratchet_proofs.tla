---------------------------- MODULE Ratchet_proofs ----------------------------
(***************************************************************************)
(* Proofs about Ratchet, for every width W, every MaxGeneration, every      *)
(* MaxSkip and every set Forged of forged generations:                     *)
(*   TypeCorrect     Spec => []TypeOK                                      *)
(*   ForwardSecure   Spec => []ForwardSecrecy                              *)
(*   ReplayFree      Spec => []NoReplay                                    *)
(* ForwardSecrecy is not inductive by itself: a step that uses a cached    *)
(* key must know that no other cache entry holds the same key, and a step  *)
(* that moves the chain must know that cached keys lie behind it.  IInv    *)
(* adds exactly these two facts about the chains map.                      *)
(***************************************************************************)
EXTENDS Ratchet, FiniteSetTheorems, TLAPS

\* Every cached key lies strictly behind the receiver's current chain key.
CacheBehind == \A l \in Gen : chains[l] # NoKey => chains[l] < current

\* No two labels of the chains map hold the same key.
CacheInjective ==
    \A l1, l2 \in Gen : chains[l1] # NoKey /\ chains[l1] = chains[l2] => l1 = l2

IInv ==
    /\ TypeOK
    /\ CacheBehind
    /\ CacheInjective
    /\ ForwardSecrecy
    /\ NoReplay

-----------------------------------------------------------------------------
(* 2^W is the cardinality of SUBSET (1 .. W), hence a positive natural.    *)
LEMMA PowPositive == 2^W \in Nat \ {0}
<1>1. IsFiniteSet(1 .. W) /\ Cardinality(1 .. W) = W
  BY WAssumption, FS_Interval
<1>2. IsFiniteSet(SUBSET (1 .. W)) /\ Cardinality(SUBSET (1 .. W)) = 2^W
  BY <1>1, FS_SUBSET
<1>3. Cardinality(SUBSET (1 .. W)) \in Nat
  BY <1>2, FS_CardinalityType
<1>4. Cardinality(SUBSET (1 .. W)) # 0
  <2>1. SUBSET (1 .. W) # {}
    OBVIOUS
  <2>2. QED
    BY <1>2, <2>1, FS_EmptySet
<1>5. QED
  BY <1>2, <1>3, <1>4

(* What a message on the network carries: a generation of the uint64       *)
(* range, and, when it is genuine, one the sender has sealed.              *)
LEMMA NetworkType ==
  ASSUME TypeOK, NEW m \in Network
  PROVE  /\ m.gen \in Gen
         /\ m.auth \in BOOLEAN
         /\ m.auth => m.gen \in 0 .. (MaxGeneration - 1)
<1>1. CASE m \in Genuine
  <2>1. m.gen \in 0 .. (sendGen - 1) /\ m.auth = TRUE
    BY <1>1 DEF Genuine
  <2>2. sendGen \in Nat /\ MaxGeneration \in Nat /\ sendGen <= MaxGeneration /\ MaxGeneration <= 2^W
    BY MaxGenerationAssumption, PowPositive DEF TypeOK
  <2>3. m.gen \in Gen
    BY <2>1, <2>2, PowPositive DEF Gen
  <2>4. m.gen \in 0 .. (MaxGeneration - 1)
    BY <2>1, <2>2
  <2>5. QED
    BY <2>1, <2>3, <2>4
<1>2. CASE m \in ForgedMsgs
  <2>1. m.gen \in Forged /\ m.auth = FALSE
    BY <1>2 DEF ForgedMsgs
  <2>2. QED
    BY <2>1, ForgedAssumption
<1>3. QED
  BY <1>1, <1>2 DEF Network

(* Decrypt keeps the history variables well typed.                          *)
LEMMA DecryptType ==
  ASSUME TypeOK, NEW m \in Network, NEW key, Decrypt(key, m)
  PROVE  /\ delivered' \in [0 .. (MaxGeneration - 1) -> Nat]
         /\ last' \in Results
<1>1. Opens(key, m) => m.gen \in 0 .. (MaxGeneration - 1)
  BY NetworkType DEF Opens
<1>. QED
  BY <1>1 DEF Decrypt, TypeOK, Results

LEMMA TypeInit == Init => TypeOK
BY PowPositive, MaxGenerationAssumption DEF Init, TypeOK, Gen, NoKey, Results

LEMMA TypeStep == TypeOK /\ [Next]_vars => TypeOK'
<1> SUFFICES ASSUME TypeOK, [Next]_vars PROVE TypeOK'
  OBVIOUS
<1>. USE PowPositive, MaxGenerationAssumption DEF TypeOK, Gen, NoKey
<1>1. CASE Seal
  BY <1>1 DEF Seal
<1>2. ASSUME NEW m \in Network, OpenInOrder(m) PROVE TypeOK'
  <2>1. (currentGen + 1) % 2 ^ W \in Gen
    BY PowPositive
  <2>2. /\ delivered' \in [0 .. (MaxGeneration - 1) -> Nat]
        /\ last' \in Results
    BY <1>2, DecryptType DEF OpenInOrder
  <2>3. /\ current' \in Nat
        /\ currentGen' \in Gen
    BY <1>2, <2>1 DEF OpenInOrder
  <2>4. sendGen' \in 0 .. MaxGeneration /\ chains' \in [Gen -> Nat \cup {NoKey}]
    BY <1>2 DEF OpenInOrder
  <2>. QED
    BY <2>2, <2>3, <2>4
<1>3. ASSUME NEW m \in Network, OpenCached(m) PROVE TypeOK'
  BY <1>3, DecryptType, NetworkType DEF OpenCached
<1>4. ASSUME NEW m \in Network, OpenSkipRejected(m) PROVE TypeOK'
  BY <1>4 DEF OpenSkipRejected, Results
<1>5. ASSUME NEW m \in Network, OpenSkipAhead(m) PROVE TypeOK'
  <2>1. m.gen \in Gen
    BY NetworkType
  <2>2. m.gen > currentGen /\ m.gen \in Nat /\ currentGen \in Nat
    BY <1>5, <2>1 DEF OpenSkipAhead
  <2>3. chains' \in [Gen -> Nat \cup {NoKey}]
    <3>1. chains' = [l \in Gen |-> IF currentGen <= l /\ l < m.gen
                                     THEN current + (l - currentGen)
                                     ELSE chains[l]]
      BY <1>5 DEF OpenSkipAhead
    <3>2. \A l \in Gen : currentGen <= l => current + (l - currentGen) \in Nat
      BY <2>2
    <3>3. QED
      BY <3>1, <3>2
  <2>4. current' \in Nat /\ currentGen' \in Gen
    <3>1. current' = current + (m.gen - currentGen) + 1
      BY <1>5 DEF OpenSkipAhead
    <3>2. currentGen' = (m.gen + 1) % 2^W
      BY <1>5 DEF OpenSkipAhead
    <3>3. current' \in Nat
      BY <2>2, <3>1
    <3>4. (m.gen + 1) % 2^W \in 0 .. (2^W - 1)
      BY <2>2
    <3>5. QED
      BY <3>2, <3>3, <3>4
  <2>5. delivered' \in [0 .. (MaxGeneration - 1) -> Nat] /\ last' \in Results
    BY <1>5, DecryptType DEF OpenSkipAhead
  <2>6. QED
    BY <1>5, <2>3, <2>4, <2>5 DEF OpenSkipAhead
<1>6. ASSUME NEW m \in Network, OpenStale(m) PROVE TypeOK'
  BY <1>6 DEF OpenStale, Results
<1>7. CASE UNCHANGED vars
  BY <1>7 DEF vars
<1>8. QED
  BY <1>1, <1>2, <1>3, <1>4, <1>5, <1>6, <1>7 DEF Next, Receive, Open
(* Ratchet is well typed for every value of the constants.                 *)
THEOREM TypeCorrect == Spec => []TypeOK
BY TypeInit, TypeStep, PTL DEF Spec

-----------------------------------------------------------------------------
(* The AEAD step that ends every path of Receiver.Open, with a key that    *)
(* matches no generation decrypted so far: the message it accepts, if any, *)
(* is its own generation and had never been accepted, so the count of it  *)
(* goes from 0 to 1.                                                       *)
LEMMA DecryptFresh ==
  ASSUME TypeOK, NoReplay, NEW m \in Network, NEW key \in Nat,
         Decrypt(key, m), \A g \in Opened : key # g
  PROVE  /\ Opens(key, m) => /\ m.gen = key
                             /\ Opened' = Opened \cup {m.gen}
         /\ ~ Opens(key, m) => Opened' = Opened
         /\ NoReplay'
<1>1. CASE Opens(key, m)
  <2>1. m.gen = key /\ m.gen \in 0 .. (MaxGeneration - 1)
    BY <1>1, NetworkType DEF Opens
  <2>2. delivered' = [delivered EXCEPT ![m.gen] = @ + 1]
    BY <1>1 DEF Decrypt
  <2>3. delivered[m.gen] = 0
    BY <2>1, <2>2 DEF TypeOK, Opened
  <2>4. Opened' = Opened \cup {m.gen}
    BY <2>1, <2>2, <2>3 DEF TypeOK, Opened
  <2>5. NoReplay'
    BY <2>1, <2>2, <2>3 DEF TypeOK, NoReplay
  <2>6. QED
    BY <1>1, <2>1, <2>4, <2>5
<1>2. CASE ~ Opens(key, m)
  <2>1. delivered' = delivered
    BY <1>2 DEF Decrypt
  <2>2. QED
    BY <1>2, <2>1 DEF Opened, NoReplay
<1>3. QED
  BY <1>1, <1>2

LEMMA IInvInit == Init => IInv
BY TypeInit DEF Init, IInv, CacheBehind, CacheInjective, ForwardSecrecy,
               NoReplay, Opened, NoKey

LEMMA IInvStep == IInv /\ [Next]_vars => IInv'
<1> SUFFICES ASSUME IInv, [Next]_vars PROVE IInv'
  OBVIOUS
<1>0. TypeOK /\ TypeOK'
  BY TypeStep DEF IInv
<1>00. Opened \subseteq Nat /\ Opened' \subseteq Nat
  BY MaxGenerationAssumption, PowPositive DEF Opened
<1>. USE DEF IInv
<1>1. CASE Seal
  BY <1>1, <1>0 DEF Seal, CacheBehind, CacheInjective, ForwardSecrecy,
                    NoReplay, Opened
<1>2. ASSUME NEW m \in Network, OpenInOrder(m) PROVE IInv'
  <2>1. \A g \in Opened : current # g
    BY <1>00, <1>0 DEF ForwardSecrecy, TypeOK
  <2>2. UNCHANGED chains /\ Decrypt(current, m)
    BY <1>2 DEF OpenInOrder
  <2>3. /\ Opens(current, m) => Opened' = Opened \cup {current}
        /\ ~ Opens(current, m) => Opened' = Opened
        /\ NoReplay'
    BY <2>1, <2>2, DecryptFresh DEF TypeOK
  <2>4. current' = current \/ current' = current + 1
    BY <1>2 DEF OpenInOrder
  <2>5. Opens(current, m) => current' = current + 1
    BY <1>2 DEF OpenInOrder
  <2>6. CacheBehind'
    BY <2>2, <2>4, <1>0 DEF CacheBehind, TypeOK
  <2>7. CacheInjective'
    BY <2>2 DEF CacheInjective
  <2>8. ForwardSecrecy'
    <3>1. \A l \in Gen : chains[l] # current
      BY <1>0 DEF CacheBehind, TypeOK, NoKey
    <3>2. QED
      BY <2>2, <2>3, <2>4, <2>5, <3>1, <1>0, <1>00 DEF ForwardSecrecy, TypeOK
  <2>9. QED
    BY <1>0, <2>3, <2>6, <2>7, <2>8
<1>3. ASSUME NEW m \in Network, OpenCached(m) PROVE IInv'
  <2>1. m.gen \in Gen /\ chains[m.gen] \in Nat /\ chains[m.gen] < current
    BY <1>3, <1>0, NetworkType DEF OpenCached, CacheBehind, TypeOK, NoKey
  <2>2. \A g \in Opened : chains[m.gen] # g
    BY <2>1 DEF ForwardSecrecy
  <2>3. /\ Decrypt(chains[m.gen], m)
        /\ chains' = [chains EXCEPT ![m.gen] = NoKey]
        /\ UNCHANGED current
    BY <1>3 DEF OpenCached
  <2>4. /\ Opens(chains[m.gen], m) => Opened' = Opened \cup {chains[m.gen]}
        /\ ~ Opens(chains[m.gen], m) => Opened' = Opened
        /\ NoReplay'
    BY <2>1, <2>2, <2>3, DecryptFresh
  <2>5. \A l \in Gen : chains'[l] = IF l = m.gen THEN NoKey ELSE chains[l]
    BY <2>1, <2>3, <1>0 DEF TypeOK
  <2>6. CacheBehind'
    BY <2>3, <2>5 DEF CacheBehind
  <2>7. CacheInjective'
    BY <2>5 DEF CacheInjective
  <2>8. ForwardSecrecy'
    <3>1. \A l \in Gen \ {m.gen} : chains[l] # chains[m.gen]
      BY <2>1 DEF CacheInjective, NoKey
    <3>2. \A g \in Opened : g >= 0
      BY DEF Opened
    <3>3. QED
      BY <2>1, <2>3, <2>4, <2>5, <3>1, <3>2 DEF ForwardSecrecy, NoKey
  <2>9. QED
    BY <1>0, <2>4, <2>6, <2>7, <2>8
<1>4. ASSUME NEW m \in Network, OpenSkipRejected(m) PROVE IInv'
  BY <1>4, <1>0 DEF OpenSkipRejected, CacheBehind, CacheInjective,
                    ForwardSecrecy, NoReplay, Opened
<1>5. ASSUME NEW m \in Network, OpenSkipAhead(m) PROVE IInv'
  <2> DEFINE d == m.gen - currentGen
             key == current + d
  <2>1. m.gen \in Gen /\ currentGen \in Nat /\ m.gen > currentGen /\ d \in Nat \ {0}
    BY <1>5, <1>0, NetworkType DEF OpenSkipAhead, TypeOK, Gen
  <2>2. /\ chains' = [l \in Gen |-> IF currentGen <= l /\ l < m.gen
                                      THEN current + (l - currentGen)
                                      ELSE chains[l]]
        /\ current' = key + 1
        /\ Decrypt(key, m)
    BY <1>5 DEF OpenSkipAhead
  <2>3. key \in Nat /\ key >= current
    BY <2>1, <1>0 DEF TypeOK
  <2>4. \A g \in Opened : key # g
    BY <2>3, <1>00, <1>0 DEF ForwardSecrecy, TypeOK
  <2>5. /\ Opens(key, m) => Opened' = Opened \cup {key}
        /\ ~ Opens(key, m) => Opened' = Opened
        /\ NoReplay'
    BY <2>3, <2>4, <2>2, DecryptFresh
  \* The keys cached by this step lie in current .. key - 1.
  <2>6. \A l \in Gen : currentGen <= l /\ l < m.gen =>
                        /\ chains'[l] = current + (l - currentGen)
                        /\ chains'[l] >= current
                        /\ chains'[l] < key
    <3> SUFFICES ASSUME NEW l \in Gen, currentGen <= l, l < m.gen
                 PROVE  /\ chains'[l] = current + (l - currentGen)
                        /\ chains'[l] >= current
                        /\ chains'[l] < key
      OBVIOUS
    <3>1. chains'[l] = current + (l - currentGen)
      BY <2>2
    <3>2. l \in Nat /\ current \in Nat /\ m.gen \in Nat
      BY <1>0, <2>1, PowPositive DEF TypeOK, Gen
    <3>3. key = current + (m.gen - currentGen)
      BY DEF key, d
    <3>4. QED
      BY <3>1, <3>2, <3>3, <2>1
  <2>7. \A l \in Gen : ~ (currentGen <= l /\ l < m.gen) => chains'[l] = chains[l]
    BY <2>2
  <2>8. CacheBehind'
    BY <2>2, <2>3, <2>6, <2>7, <1>0 DEF CacheBehind, TypeOK, NoKey
  <2>9. CacheInjective'
    <3> SUFFICES ASSUME NEW l1 \in Gen, NEW l2 \in Gen,
                        chains'[l1] # NoKey, chains'[l1] = chains'[l2]
                 PROVE  l1 = l2
      BY DEF CacheInjective
    <3>1. CASE currentGen <= l1 /\ l1 < m.gen /\ currentGen <= l2 /\ l2 < m.gen
      BY <3>1, <2>6, <1>0 DEF TypeOK, Gen
    <3>2. CASE ~ (currentGen <= l1 /\ l1 < m.gen) /\ ~ (currentGen <= l2 /\ l2 < m.gen)
      BY <3>2, <2>7 DEF CacheInjective
    <3>3. CASE currentGen <= l1 /\ l1 < m.gen /\ ~ (currentGen <= l2 /\ l2 < m.gen)
      BY <3>3, <2>6, <2>7, <1>0 DEF CacheBehind, TypeOK, NoKey
    <3>4. CASE ~ (currentGen <= l1 /\ l1 < m.gen) /\ currentGen <= l2 /\ l2 < m.gen
      BY <3>4, <2>6, <2>7, <1>0 DEF CacheBehind, TypeOK, NoKey
    <3>5. QED
      BY <3>1, <3>2, <3>3, <3>4
  <2>10. ForwardSecrecy'
    <3> SUFFICES ASSUME NEW g \in Opened'
                 PROVE  g < current' /\ \A l \in Gen : chains'[l] # g
      BY DEF ForwardSecrecy
    <3>1. g \in Opened \/ g = key
      BY <2>5
    <3>2. CASE g \in Opened
      <4>1. g < current /\ \A l \in Gen : chains[l] # g
        BY <3>2 DEF ForwardSecrecy
      <4>2. QED
        BY <4>1, <2>2, <2>3, <2>6, <2>7, <1>0 DEF TypeOK, Opened
    <3>3. CASE g = key
      <4>1. \A l \in Gen : chains[l] # key
        BY <2>3, <1>0 DEF CacheBehind, TypeOK, NoKey
      <4>2. QED
        BY <3>3, <4>1, <2>2, <2>3, <2>6, <2>7
    <3>4. QED
      BY <3>1, <3>2, <3>3
  <2>11. QED
    BY <1>0, <2>5, <2>8, <2>9, <2>10
<1>6. ASSUME NEW m \in Network, OpenStale(m) PROVE IInv'
  BY <1>6, <1>0 DEF OpenStale, CacheBehind, CacheInjective,
                    ForwardSecrecy, NoReplay, Opened
<1>7. CASE UNCHANGED vars
  BY <1>7, <1>0 DEF vars, CacheBehind, CacheInjective, ForwardSecrecy,
                    NoReplay, Opened
<1>8. QED
  BY <1>1, <1>2, <1>3, <1>4, <1>5, <1>6, <1>7 DEF Next, Receive, Open

(* Forward secrecy of Receiver.Open (the invariant the forgery run checks) *)
(* for every width, window, generation limit and set of forged messages:  *)
(* a decrypted generation's key is never held again.                      *)
THEOREM ForwardSecure == Spec => []ForwardSecrecy
<1>1. Spec => []IInv
  BY IInvInit, IInvStep, PTL DEF Spec
<1>2. QED
  BY <1>1, PTL DEF IInv

(* Replay protection: whatever the network replays or forges, Decrypt      *)
(* returns each sealed message at most once.                               *)
THEOREM ReplayFree == Spec => []NoReplay
<1>1. Spec => []IInv
  BY IInvInit, IInvStep, PTL DEF Spec
<1>2. QED
  BY <1>1, PTL DEF IInv


-----------------------------------------------------------------------------
(* Key retention.  With no forged messages and MaxGeneration < 2^W (1<<32  *)
(* against 2^64 in the code), the receiver's generation labels never wrap  *)
(* while a sealed message is outstanding: currentGen stays equal to the    *)
(* position of the current key and every cached entry holds the key of its *)
(* own label (LabelsTrack).  Then a key is dropped or passed only by the   *)
(* step that decrypts its message.  With MaxGeneration = 2^W the labels    *)
(* wrap after the last generation and a replayed message makes OpenSkipAhead *)
(* overwrite cached keys, so the bound is needed.                          *)

CacheLabelled == \A l \in Gen : chains[l] # NoKey => chains[l] = l

LabelsTrack ==
    /\ current <= sendGen
    /\ currentGen = current
    /\ CacheLabelled

KInv == IInv /\ LabelsTrack /\ KeyRetained

\* What Decrypt does to the set of decrypted generations.
LEMMA DecryptOpened ==
  ASSUME TypeOK, NEW m \in Network, NEW key, Decrypt(key, m)
  PROVE  /\ Opened \subseteq Opened'
         /\ Opens(key, m) => m.gen \in Opened'
<1>1. m.auth => m.gen \in 0 .. (MaxGeneration - 1)
  BY NetworkType
<1>2. CASE Opens(key, m)
  <2>1. m.gen \in 0 .. (MaxGeneration - 1)
    BY <1>1, <1>2 DEF Opens
  <2>2. delivered' = [delivered EXCEPT ![m.gen] = @ + 1]
    BY <1>2 DEF Decrypt
  <2>. QED BY <1>2, <2>1, <2>2 DEF Opened, TypeOK
<1>3. CASE ~ Opens(key, m)
  BY <1>3 DEF Decrypt, Opened
<1>. QED BY <1>2, <1>3

\* A label below 2^W is its own residue.
LEMMA SmallMod ==
  ASSUME NEW x \in 0 .. (2^W - 1)
  PROVE  x % 2^W = x
BY PowPositive

LEMMA KInvInit == Init => KInv
BY IInvInit, MaxGenerationAssumption
   DEF Init, KInv, LabelsTrack, CacheLabelled, KeyRetained, Opened

LEMMA LabelsStep ==
  ASSUME Forged = {}, MaxGeneration < 2^W, KInv, [Next]_vars
  PROVE  LabelsTrack' /\ KeyRetained'
<1>0. /\ TypeOK /\ TypeOK' /\ ForwardSecrecy
      /\ current <= sendGen /\ currentGen = current /\ CacheLabelled /\ KeyRetained
  BY TypeStep DEF KInv, IInv, LabelsTrack
<1>. USE PowPositive, MaxGenerationAssumption DEF TypeOK, Gen, NoKey
\* Without forgeries every message on the network is genuine.
<1>1. \A m \in Network : /\ m.gen \in 0 .. (sendGen - 1) /\ m.auth = TRUE
                         /\ \A k : Opens(k, m) <=> k = m.gen
  BY DEF Network, Genuine, ForgedMsgs, Opens
<1>2. CASE Seal
  BY <1>0, <1>2 DEF Seal, LabelsTrack, CacheLabelled, KeyRetained, Opened
<1>3. ASSUME NEW m \in Network, OpenInOrder(m) PROVE LabelsTrack' /\ KeyRetained'
  <2>1. m.gen = current /\ m.gen \in 0 .. (sendGen - 1) /\ Opens(current, m)
    BY <1>0, <1>1, <1>3 DEF OpenInOrder
  <2>2. current' = current + 1 /\ currentGen' = (currentGen + 1) % 2^W
        /\ UNCHANGED <<sendGen, chains>> /\ Decrypt(current, m)
    BY <1>3, <2>1 DEF OpenInOrder
  <2>3. currentGen' = current'
    <3>1. current + 1 \in 0 .. (2^W - 1)
      BY <1>0, <2>1
    <3>. QED BY <1>0, <2>2, <3>1, SmallMod
  <2>4. Opened \subseteq Opened' /\ current \in Opened'
    BY <1>0, <1>1, <2>1, <2>2, DecryptOpened
  <2>5. KeyRetained'
    <3> SUFFICES ASSUME NEW g \in 0 .. (sendGen' - 1), g \notin Opened', ~ (g >= current')
                 PROVE  chains'[g] = g
      BY Zenon DEF KeyRetained
    <3>1. g < current /\ g \notin Opened /\ g \in 0 .. (sendGen - 1)
      BY <1>0, <2>1, <2>2, <2>4
    <3>. QED BY <1>0, <2>2, <3>1 DEF KeyRetained
  <2>. QED BY <1>0, <2>1, <2>2, <2>3, <2>5 DEF LabelsTrack, CacheLabelled
<1>4. ASSUME NEW m \in Network, OpenCached(m) PROVE LabelsTrack' /\ KeyRetained'
  <2>1. m.gen \in Gen /\ chains[m.gen] = m.gen
    BY <1>0, <1>1, <1>4 DEF OpenCached, CacheLabelled
  <2>2. chains' = [chains EXCEPT ![m.gen] = NoKey] /\ Decrypt(m.gen, m)
        /\ UNCHANGED <<sendGen, current, currentGen>>
    BY <1>4, <2>1 DEF OpenCached
  <2>3. Opened \subseteq Opened' /\ m.gen \in Opened'
    BY <1>0, <1>1, <2>2, DecryptOpened
  <2>4. KeyRetained'
    BY <1>0, <2>1, <2>2, <2>3 DEF KeyRetained
  <2>. QED BY <1>0, <2>2, <2>4 DEF LabelsTrack, CacheLabelled
<1>5. ASSUME NEW m \in Network, OpenSkipRejected(m) PROVE LabelsTrack' /\ KeyRetained'
  BY <1>0, <1>5 DEF OpenSkipRejected, LabelsTrack, CacheLabelled, KeyRetained, Opened
<1>6. ASSUME NEW m \in Network, OpenSkipAhead(m) PROVE LabelsTrack' /\ KeyRetained'
  <2>1. m.gen \in 0 .. (sendGen - 1) /\ m.gen > current
    BY <1>0, <1>1, <1>6 DEF OpenSkipAhead
  <2>2. /\ chains' = [l \in Gen |-> IF current <= l /\ l < m.gen
                                      THEN current + (l - current)
                                      ELSE chains[l]]
        /\ current' = m.gen + 1
        /\ currentGen' = (m.gen + 1) % 2^W
        /\ Decrypt(m.gen, m)
        /\ UNCHANGED sendGen
    <3>1. current + (m.gen - currentGen) = m.gen
      BY <1>0, <2>1
    <3>. QED BY <1>0, <1>6, <3>1 DEF OpenSkipAhead
  <2>3. currentGen' = current'
    <3>1. m.gen + 1 \in 0 .. (2^W - 1)
      <4>1. m.gen + 1 <= MaxGeneration
        BY <1>0, <2>1
      <4>. QED BY <4>1, <2>1
    <3>. QED BY <2>2, <3>1, SmallMod
  <2>4. \A l \in Gen : chains'[l] = IF current <= l /\ l < m.gen THEN l ELSE chains[l]
    BY <1>0, <2>2
  <2>5. Opened \subseteq Opened' /\ m.gen \in Opened'
    BY <1>0, <1>1, <2>2, DecryptOpened
  <2>6. CacheLabelled'
    BY <1>0, <2>4 DEF CacheLabelled
  <2>7. KeyRetained'
    <3> SUFFICES ASSUME NEW g \in 0 .. (sendGen' - 1), g \notin Opened', ~ (g >= current')
                 PROVE  chains'[g] = g
      BY Zenon DEF KeyRetained
    <3>0. g # m.gen /\ g \notin Opened
      BY <2>5, Zenon
    <3>a. current' = m.gen + 1 /\ sendGen' = sendGen
      BY <2>2
    <3>b1. g < m.gen
      BY <3>0, <3>a, <2>1
    <3>b2. g \in 0 .. (2^W - 1)
      BY <1>0, <3>a, <3>b1, <2>1
    <3>b. g \in Gen /\ g < m.gen
      BY <3>b1, <3>b2
    <3>1. g # m.gen /\ g \notin Opened /\ g \in Gen /\ g < m.gen
      BY <3>0, <3>b
    <3>2. CASE current <= g
      BY <1>0, <2>4, <3>1, <3>2
    <3>3. CASE g < current
      <4>1. chains[g] = g
        BY <1>0, <2>2, <3>1, <3>3 DEF KeyRetained
      <4>. QED BY <2>4, <3>1, <3>3, <4>1
    <3>. QED BY <1>0, <3>1, <3>2, <3>3
  <2>8. current' <= sendGen'
    BY <1>0, <2>1, <2>2
  <2>. QED BY <2>3, <2>6, <2>7, <2>8 DEF LabelsTrack
<1>7. ASSUME NEW m \in Network, OpenStale(m) PROVE LabelsTrack' /\ KeyRetained'
  BY <1>0, <1>7 DEF OpenStale, LabelsTrack, CacheLabelled, KeyRetained, Opened
<1>8. CASE UNCHANGED vars
  BY <1>0, <1>8 DEF vars, LabelsTrack, CacheLabelled, KeyRetained, Opened
<1>. QED BY <1>2, <1>3, <1>4, <1>5, <1>6, <1>7, <1>8 DEF Next, Receive, Open

LEMMA KInvStep ==
  ASSUME Forged = {}, MaxGeneration < 2^W
  PROVE  KInv /\ [Next]_vars => KInv'
BY IInvStep, LabelsStep DEF KInv

\* On a network that loses, duplicates and reorders but does not forge, and
\* with MaxGeneration < 2^W as in the code, Receiver.Open keeps the key of
\* every sealed message it has not yet decrypted: cached under its own
\* generation, or still ahead on the chain.
THEOREM KeysRetained ==
  ASSUME Forged = {}, MaxGeneration < 2^W
  PROVE  Spec => []KeyRetained
<1>1. Init => KInv
  BY KInvInit
<1>2. KInv /\ [Next]_vars => KInv'
  BY KInvStep
<1>3. KInv => KeyRetained
  BY DEF KInv
<1>. QED BY <1>1, <1>2, <1>3, PTL DEF Spec

=============================================================================
