# Formal models of I6P

TLA+ models of the I6P peer-to-peer transport (Go, `src/`), with TLC
configurations that check them on small instances and TLAPS proofs of their
main invariants for every value of the constants.

## The system

I6P connects peers over QUIC. The parts, and how they meet:

| part | source | state | operations |
|---|---|---|---|
| ratchet `Chain` | `src/unnamed/part_012` | chain key, generation | `Step`, `Seal` |
| ratchet `Receiver` | `src/unnamed/part_012` | current key and generation, `chains` map of skipped keys | `Open` (in order / cached / skip ahead / stale) |
| `AEAD` | `src/unnamed/part_013` | key, random nonce prefix, counter | `Seal`, `Open` |
| `SecureChannel` | `src/i6p/crypto/channel.go` | established flag, send `Chain`, receive `Receiver` | `Complete`, `Encrypt`, `Decrypt` |
| `StreamPool` | `src/unnamed/part_004` | channel of idle streams, `created`, `closed` | `Acquire`, `Release`, `Close` |
| `ParallelWriter` / `ParallelReader` | `src/unnamed/part_004` | chunk and error channels, worker goroutines | `Start`, `Send`, `Wait`, readers |
| `BulkSender` / `BulkReceiver` | `src/unnamed/part_002` | stats, chunk map | `Send`, `Receive`, `Assemble` |
| batch codec, chunker, Merkle tree | `src/i6p/transfer/*.go` | none (pure) | encode/decode, split/reassemble, compress, build/prove/verify |
| frame codec | `src/i6p/protocol/codec.go` | byte stream | `WriteFrame`, `ReadFrame` |
| session tickets | `src/unnamed/part_006` | map of tickets, store key | `Issue`, `Lookup`, `Revoke`, `Cleanup`, `EncodeTicket`, `DecodeTicket` |
| HELLO, handshake | `src/unnamed/part_017`, `peerid.go` | control stream bytes, session remote PeerID | `NewHello`, `Sign`, `Verify`, `HandshakeClient`, `HandshakeServer` |
| QUIC/TLS, erasure coding, CLI | `part_014/015`, `part_005`, `part_020/021` | | wrappers, arithmetic, I/O |

`SecureChannel.Encrypt` calls `Chain.Seal`, and the peer's `SecureChannel.Decrypt`
calls `Receiver.Open` on whatever the transport hands it. The transport may
lose, repeat or reorder messages, and anyone on the path may inject bytes. Bulk
transfer splits data into chunks, compresses them, and sends one-chunk batches
over pooled QUIC streams from worker goroutines.

## Modules

### `Ratchet` — `Chain` and `Receiver` (part_012) over an unreliable network

* **Abstraction.** A chain key is represented by its position in the SHA-256
  hash chain. The message key of position *p* opens exactly the message sealed
  at generation *p* (`Opens`, standing for `deriveKeysStatic` plus
  `AEAD.Open`). The receiver keeps the code's generation labels (`currentGen`,
  the keys of `chains`) apart from the positions of the keys it holds. This is
  what makes a label that no longer matches its key visible.
* **Integers.** `uint64` is scaled to `W` bits. `ToInt` is Go's `int(uint64)`,
  read as two's complement, and `currentGen++` wraps modulo `2^W`.
* **State.** `sendGen` (`Chain.generation`), `current`, `currentGen`, `chains`
  (label -> position or `NoKey`), and two history variables:
  * `delivered`: successful opens per generation;
  * `last`: outcome of the last `Open`.
* **Actions.** `Seal` is `Step` with its `MaxGeneration` guard. `Open` has one
  action per branch of `Receiver.Open`:
  * `OpenInOrder`;
  * `OpenCached`, which deletes the entry, then decrypts;
  * `OpenSkipRejected`, the `maxSkip` check;
  * `OpenSkipAhead`, which caches the skipped keys, moves the chain, then decrypts;
  * `OpenStale`.

  Each action is atomic because `Open` holds `r.mu` throughout.
* **Network.** The network is the set of all messages sealed so far plus forged
  messages (`auth = FALSE`) carrying any generation in the constant `Forged`.
  `Receive` picks any of them at any time, which covers loss, duplication and
  reordering.
* **Fairness.** `FairSpec` adds weak fairness on opening each sealed genuine
  message. This is the assumption that the transport eventually delivers every
  message, which QUIC streams provide. The code itself adds nothing: `Open`
  never blocks.

### `StreamPool` — `StreamPool`, `ParallelWriter` (part_004) under `BulkSender` (part_002)

* **Goroutines.** The model has these goroutines:
  * the sender, which runs `BulkSender.Send`'s loop over `ParallelWriter.Send`
    and then `Wait`;
  * the workers (`Workers`), each running `worker` → `sendChunk` →
    `Acquire`/`WriteBatch`/deferred `Release`;
  * the caller of `BulkSender.Close` once `Send` has returned;
  * the context, which may be cancelled (`CancelAllowed`).
* **Steps and channels.** Every channel operation, atomic access or
  `p.mu` section is one step, and a blocked goroutine has no enabled action.
  Channels are counters bounded by their capacities: `p.streams` (`idle`),
  `chunkChan` (`chunkQ`, `2*workers`) and `errChan` (`errQ`, `workers`).
* **Branches.** `Receive` is the code's receive on `p.streams`. Once the
  channel is closed and empty it yields a nil interface (`held = "nil"`).
  A panic (a send on a closed channel, or a nil stream in `WriteBatch`) sets
  `crashed`, and nothing runs after it.
* **Constants.** `OpenMayFail` says whether `OpenStreamSync` may fail, and a
  `WriteBatch` may always fail. Acquire's unlocked pre-check of `created` and
  its re-check under `p.mu` are one step, whose decision is the locked one.
* **Fairness.** `FairSpec` assumes weak fairness for every worker and for the
  sender, because Go's scheduler eventually runs every runnable goroutine.
  Nothing is assumed about the caller of `Close`.
* **Deadlock.** The runs say `CHECK_DEADLOCK FALSE` because the program does
  end: `Send` and `Close` return, and workers either exit or are left blocked.
  The runs ask whether `Send` returns through the liveness property
  `SendReturns`.

`SendReturns` also fails once the context may be cancelled. All workers exit
on `ctx.Done`, and `Send` then blocks on the full `chunkChan`
(part_004:193). TLC shows this with `CancelAllowed = TRUE` under `FairSpec`;
it is recorded as a hazard and not kept as a run of its own.

Runs (`MCStreamPool`: 2 workers, `maxSize = 1`, 5 chunks). Five chunks are one
more than `chunkChan` holds, so `Send` can block. One stream for two workers
makes `Acquire` wait.

| run | expect | properties | shows |
|---|---|---|---|
| `writer_reliable` | pass | `TypeOK`, `SuccessMeansDelivered`, `SendReturns` | with reliable opens and no cancellation, `Send` returns, and a success means all chunks were written, even when writes fail and `errChan` overflows |
| `pool_accounting` | pass | `PoolAccounting` | `created` = idle + held + opening streams, and `created <= maxSize`, while the pool is open. So `Release`'s "pool full" branch is dead code |
| `pool_starve` | violation | `SendReturns` | **bug**: a waiter in `Acquire` is never woken when a concurrent open fails and returns its slot, so `Send` hangs |
| `writer_cancel_loss` | violation | `SuccessMeansDelivered` | **bug**: after cancellation queued chunks are dropped and `Wait` returns nil |
| `pool_close_panic` | violation | `CloseSafe` | **bug**: `Send` returns on an error without `Wait`, so the workers still use the pool when the caller's `BulkSender.Close` closes `p.streams`. A `Release` past its closed check then sends on the closed channel. An `Acquire` gets a nil stream from it and returns `(nil, nil)`. Either way the process panics |

### `SecureChannel` — `channel.go` composed with two `Ratchet` instances

* **Endpoints and keys.** There are two endpoints, `Initiator` and `Responder`.
  An ephemeral public key is the name of its endpoint. `Zero` is the all-zero
  key that `ECDH` rejects. A session key is what `DeriveSessionKeys` binds it
  to: the initiator's and the responder's public keys, and which half of the
  HKDF output it is.
* **Directions.** `ToR` is the initiator's `Chain` with the responder's
  `Receiver`, and `ToI` is the reverse. Both are `INSTANCE Ratchet` with
  renamed variables.
* **Actions.**
  * `Complete(e, p)`: does nothing once established. It stores `remoteEphPub`
    first, rejects `Zero`, and otherwise derives both keys by role.
  * `Encrypt(e)`: `Chain.Seal`, which records the ciphertext with its key.
  * `Decrypt(e, m)`: `Receiver.Open` of `Seen(e, m)`, whose `auth` is whether
    the ciphertext's key is `e`'s receive key.
* **Network.** Every ciphertext stays deliverable. With `Reflect` it can also
  be handed back to its sender.

Runs (`MCSecureChannel`: W = 2, MaxGeneration = 3, MaxSkip = 1):

| run | expect | properties | shows |
|---|---|---|---|
| `channel_pair` | pass | `TypeOK`, `KeysAgree`, `ChannelKeyRetained` | the endpoints' keys line up crosswise and never equal their own send key, and the composed channel keeps every undelivered ciphertext decryptable in both directions |

With `Reflect = TRUE`, TLC violates `ChannelKeyRetained`. A ciphertext handed back to its own sender needs no forging, yet it moves that endpoint's receive chain before authentication fails (`channel.go:148`). This has the same root cause as `ratchet_keyloss`, so it is neither a run nor a hazard of its own: the state change before authentication at `part_012:183` (hazard and run `ratchet_keyloss`) is the one defect.

### `Transfer` — the data path of bulk transfer (`batch.go`, `compress.go`, `merkle.go`, part_002)

* **Data.** `Bytes` defines the byte-level vocabulary. A byte is a record
  `Byte(n)`. `Sha(d)` is an ideal SHA-256, an injective constructor, so two
  hashes are equal only when their inputs are. `LZ4(d)` is an ideal LZ4 frame.
  `BE(n, k)` and `UintBE` are the big-endian length fields. A digest is a
  one-atom sequence, so the data of a chunk may be built from digests. This is
  how the Merkle forgery is expressed.
* **Pure operators.** They follow the Go functions line by line:
  * `Split` and `SplitReader`: two ways to chunk, with the same result;
  * `Reassemble`: sort by index, then concatenate;
  * `CompressChunk`: keeps the frame only when it is shorter. `helps` stands
    for whether LZ4 helped;
  * `DecompressChunk`: checks the hash after decompressing;
  * `Batch.Size`, `Encode`, `DecodeBatch`, `WriteBatch` and `ReadBatch`:
    `DecodeBatch` fails on a short batch, a bad magic or a truncated record;
  * `BuildMerkleTree`, padded to a power of two, with `Root`,
    `GenerateProof` and `VerifyProof`.
* **State and actions.** The sender's input, its status (`idle`, `sent` or
  `failed`), the root, the wire (the batches written), the receiver's chunk
  map and the result of `Assemble`.
  * `Send`: either `Send` or `SendReader`, with a compression outcome per
    chunk.
  * `Receive`: one turn of the receiving loop of the repository's only
    `BulkReceiver` caller, the example server (`part_021:142-155`). It is
    `ReadBatch` of a written batch, or of a forged one when `Attack`. Then
    comes `ReceiveBatch`, which stops at the first chunk that fails
    `DecompressChunk`. The server returns on either error; the model lets
    later messages arrive, which only adds behaviours.
    `ParallelReader.readFromStream`, which skips a failing chunk and goes on,
    is not modelled.
  * The example server calls `Assemble(nil)` (`part_021:157`), which skips
    the Merkle check. The model's `Assemble` is `Assemble(root)`, and the
    mutant `AssembleUnchecked` (the nil branch) breaks `AssembleIntact`. That
    is what the example gives up (a hazard in `PROJECT.json`).
  * `Assemble`: checks the root against the rebuilt tree, then `Reassemble`.

### `Handshake` — `HandshakeClient` / `HandshakeServer` (peerid.go), HELLO (part_017), frame codec

* **Streams.** `log[c][r]` is the bytes end `r` of connection `c` has written
  with `WriteFrame`. The other end consumes them with `ReadFrame`, which may
  wait, fail or return a frame, as the Go function does.
* **Principals.** Honest principals run the code. `Mallory` holds a key of
  her own. She writes one handshake frame on any stream she is an end of:
  * a HELLO she has read elsewhere, her own HELLO, or a claim of an honest
    PeerID signed by her;
  * or a frame the reader must refuse.
* **Actions.**
  * `ClientHello`: open the stream, `NewHello`, `Sign`, `WriteFrame`.
  * `ClientRead`: `ReadFrame`, then the checks.
  * `ServerRead`: read and check, then reply and build the `Session`.
  * `MalloryWrite`: Mallory's one frame.

### `Node` — the handshake and the transfer on one session

`Node` instantiates both modules. The transfer runs on connection
`DataConn`. `Send` is enabled once the client's handshake is done, and
`Receive` and `Assemble` once the server's is. This follows spec.md, where no
application stream is used before the session is established; the gating is
spec-modelled, because the session state machine is not under `src/`.

**Fairness.** There is weak fairness on each honest end's handshake steps.
Each is a goroutine blocked only on the bytes it reads, and those bytes are
flushed by `WriteFrame`. The transfer has no fairness. Its liveness depends on
`StreamPool`, which has its own runs.

Runs:
* `MCNode`: Alice dials Bob on `c0`, Alice dials Mallory on `c1`, and Mallory
  dials Bob on `c2`. The input is 7 bytes, `ChunkSize = 3`, so there are 3
  chunks and the tree is padded to 4 leaves. `MaxBatchSize = 22` lets some
  one-chunk batches fit and others not.
* `MCTransfer`: an input of 6 bytes, with `Attack`.
* `MCHandshake`: the same three connections as `MCNode`.

| run | expect | properties | shows |
|---|---|---|---|
| `session_transfer` | pass | `TypeOK`, `AssembleIntact`, `MerkleProofsVerify`, `Authenticity`, `HandshakeCompletes` | the honest handshake completes. A session naming an honest PeerID rests on a HELLO that principal made. Whatever chunking path and compression outcomes the sender took, and whichever batches were too large, `Assemble` either fails or returns exactly the input. Every proof of a leaf verifies against the root, a proof presented for another leaf does not, and an out-of-range index is refused (28152 states) |
| `transfer_forge` | violation | `AssembleIntact` | **bug**: leaves and inner nodes share one hash with no domain separation. A single chunk `h0 ‖ h1` hashes to the parent of two honest leaves, so it passes `Assemble` against the honest root |
| `hello_relay` | violation | `Agreement` | **gap**: a HELLO binds no connection or nonce. Mallory relays Alice's HELLO to Bob on `c2`, and Bob records Alice as the peer of Mallory's connection. spec.md disables TLS verification because identity is enforced by this handshake |


## Runs (`MCRatchet`, W = 4, MaxGeneration = 6, MaxSkip = 2)

| run | expect | properties | shows |
|---|---|---|---|
| `ratchet_reorder` (`Forged = {}`) | pass | `TypeOK`, `KeyRetained`, `ForwardSecrecy`, `AllEventuallyOpened` | under any loss, duplication and reordering of genuine messages, every unopened message stays decryptable and each is eventually decrypted. No opened message's key is held again. (`WindowRespected` is not checked here: without forgeries every gap is below `2^(W-1)`, so it would only restate the `WithinWindow` guard) |
| `ratchet_keyloss` (`Forged = {1,3,6}`) | violation | `KeyRetained` | **bug**: a forged message moves the chain / deletes a cached key before the AEAD check fails; the genuine message of that generation is lost for good |
| `ratchet_overflow` (`Forged = {12}`) | violation | `WindowRespected` | **bug**: a gap of at least `2^(W-1)` makes `int(gen - currentGen)` negative, so the `maxSkip` check passes |

**Why these bounds are enough.**
* `W = 4` gives 16 generation labels. The window of 2 lets a skip cache 1–2 keys
  and lets a forged skip land on a live generation.
* Six messages allow two skips, a cached open and a stale replay in one
  behaviour.
* `Forged = {12}` is 12 ahead of 0, which reads as −4 in 4-bit two's
  complement. That is the smallest instance of the overflow.

**What the runs do not cover.** With forgeries that wrap `currentGen` around
repeatedly, `current` is unbounded. Such runs do not terminate, so the runs
keep forged generations below `2^W` and the overflow run checks a single step's
property. The proofs below cover all constants; see there for which assume
that labels do not wrap.

## Proofs

Five modules hold theorems. Each of them EXTENDS the component module and
TLAPS, and `tlapm` checks every proof to its last leaf. Each inductive
invariant below was first checked by TLC, as an invariant of a run of the
component's own instance, before its proof was written.

### `Ratchet_proofs`

* `TypeCorrect: Spec => []TypeOK`.
* `ForwardSecure: Spec => []ForwardSecrecy`.
* `ReplayFree: Spec => []NoReplay`.

These three hold for every `W >= 1`, every `MaxGeneration` in `1..2^W`,
every `MaxSkip` in `Nat` and every `Forged ⊆ 0..2^W-1`. Forgery and
wraparound are included.

`ForwardSecrecy` is not inductive. Using a cached key is safe only if no other
entry holds the same key. Moving the chain is safe only if every cached key
lies behind `current`. The inductive invariant therefore adds two conjuncts:

```
IInv == TypeOK /\ CacheBehind /\ CacheInjective /\ ForwardSecrecy /\ NoReplay
```

The proof of `IInv /\ [Next]_vars => IInv'` has one step per action. It rests
on the lemma `DecryptFresh`. That lemma says that decrypting with a key that
matches no opened generation adds at most that generation to `Opened`, and
takes its count from 0 to 1. The provers cannot evaluate `2^W`, so
`PowPositive` derives `2^W ∈ Nat \ {0}` from `Cardinality(SUBSET (1..W))`.

* `WindowRespected` has no theorem. The code cannot keep the adversary's
  labels below `2^(W-1)`: `DecodeEncryptedMessage` accepts any uint64. With
  such a label, `ratchet_overflow` shows the property fails. Under the
  assumption that would make it hold, it only restates the `WithinWindow`
  guard.
* `KeysRetained: Spec => []KeyRetained` needs `Forged = {}` and
  `MaxGeneration < 2^W`. `KeyRetained` is not inductive. A skip caches
  `current + (l - currentGen)` under label `l`, and that key is `l` only while
  the labels track the chain positions. The proof therefore uses
  `KInv == IInv /\ LabelsTrack /\ KeyRetained`. `LabelsTrack` says three
  things:
  * `current <= sendGen`;
  * `currentGen = current`;
  * every cache entry holds its own label.

  `MaxGeneration < 2^W` keeps `currentGen + 1` below `2^W`, so `% 2^W` never
  wraps (`SmallMod`). With `MaxGeneration = 2^W`, TLC finds a wrap followed by
  a replay that overwrites cached keys. With a forged label in range, the run
  `ratchet_keyloss` shows key loss. Both assumptions are therefore needed.

### `SecureChannel_proofs`

* `KeysAgreeAlways: Spec => []KeysAgree` holds for every `W`, `MaxGeneration`
  and `MaxSkip`, with or without reflection. It assumes only that the two
  endpoints and `Zero` are distinct (`EndpointsAssumption`). The invariant
  `KInv` states the shape of an established endpoint's keys (`KeyShape`):
  they are the halves bound to `(Initiator, Responder)`, chosen by role.
  `KeysAgree` follows because the halves differ and the roles pick them
  crosswise.
* `ChannelTypeCorrect: Spec => []TypeOK` holds for both values of
  `Reflect`.
* `DirectionsRefine: Spec => PR!Spec /\ PI!Spec` holds for both values of
  `Reflect`. `PR` and `PI` are the two directions of the channel, each an
  instance of `Ratchet_proofs` whose adversary forges the generations
  `ReflectedGens`. That set is `0 .. MaxGeneration - 1` with `Reflect`, and
  empty without it.
* `ChannelForwardSecure` holds for both values of `Reflect`. In each
  direction, no ciphertext is accepted twice and no decrypted ciphertext's
  key is kept. Reflected ciphertexts included.
* `ChannelKeysRetained` gives `Spec => []ChannelKeyRetained`, under
  `~Reflect` and `MaxGeneration < 2^W` (2^32 < 2^64 in the code).

The argument is a refinement. `SecureChannel` declares `RatchetAssumption`:
Ratchet's own assumptions on `W`, `MaxGeneration` and `MaxSkip`. The lemma
`RatchetInstances` shows they hold of both instances, `ReflectedGens`
included. `tlapm` adds an instance's assumptions as hypotheses to each lemma
it imports from it, so `RatchetInstances` is cited wherever such a lemma is
used.

The channel's own invariant adds `MsgShape` to `KInv`. `MsgShape` says that
every ciphertext:
* was sealed by an established endpoint;
* carries that endpoint's send key;
* carries a generation that endpoint's Chain has passed.

With `KeyShape`, this shows that what the network hands an endpoint is a
message of its Ratchet's network:
* the peer's ciphertexts authenticate, at a sealed generation;
* with `Reflect`, its own ciphertexts fail authentication. They are Ratchet
  forgeries in `ReflectedGens` (`SeenAtResponder`, `SeenAtInitiator`).

Every channel step is then a Ratchet step of each direction, or a stutter of
it (`ToRStep`, `ToIStep`):
* the initiator's `Encrypt` is `Seal`;
* the responder's `Decrypt` is `Receive`;
* `Complete` leaves both ratchets alone.

So `CInv == KInv /\ MsgShape /\ PR!IInv /\ PI!IInv` is inductive, by
`Ratchet_proofs`' `IInvStep` for each direction. `TypeOK`, forward secrecy
and replay freedom follow from `CInv`.

`ChannelKeyRetained` adds `PR!KInv /\ PI!KInv` and uses `KInvStep`, which
needs a network without forgeries. That is why it assumes `~Reflect`. With
`Reflect = TRUE`, TLC finds it violated (above).

### `Handshake_proofs`

* `TypeCorrect: Spec => []TypeOK`.
* `Authentic: Spec => []Authenticity`.

Both are proved under `HandshakeAssumption`, for any sets of connections and
honest principals. The inductive invariant is:

```
IInv == FuncTypes /\ ReadInBounds /\ LogsGenuine /\ Sessions
```

* `LogsGenuine` says every HELLO on every control stream, Mallory's included,
  is in `Genuine`. That means it is a record Mallory may replay, or a hello
  signed by its claimed principal.
* `Sessions` says every finished end accepted a verified, genuine HELLO whose
  PeerID is its `remote`.

Lemmas about `EncodeHello`, `WriteFrame` and `ReadFrame` show that reading a
frame at `rpos` returns the atom written there. This is what makes
`LogsGenuine` carry over to what an end reads.

### `Node_proofs`

`NodeAuthentic: Spec => []Authenticity` is the `Authenticity` of
`session_transfer`. `Node` INSTANCEs `Handshake` as `H`, so the node's
handshake actions are `H!` operators, while `Handshake_proofs` is about
`HP!`. To tlapm these are different symbols. The lemmas `SameBasics`,
`SameHello`, `SameFrames` and `SameSpec` prove them equal bottom-up: byte
helpers first, then hello encoding and frames, then each action. After that,
`HP!InitIInv` and `HP!StepIInv` apply to the node's handshake variables.

### `StreamPool_proofs`

* `TypeCorrect: Spec => []TypeOK`.
* `Accounting: Spec => []PoolAccounting`.

Both hold for every number of chunks, workers and `MaxStreams`, with or
without cancellation and failed opens. The inductive
invariant has the following parts:

* `ChunkCount`: chunks written, queued, or carried by a worker between
  `acquire` and `write` never exceed the chunks the sender put.
* `HeldShape`: a worker holds a stream exactly at `write`, `release` and
  `rel_send`.
* `created = idle + Cardinality(Active)` before Close, where `Active` counts
  the workers from `opening` to `rel_send`.
* `cpc # "idle" => closed` and `chanClosed => closed`.

The per-action lemmas count set membership changes with `FS_RemoveElement`,
through one lemma, `MoveCounts`, that covers a worker moving between program
counters.

* `Delivered: Spec => []SuccessMeansDelivered` assumes `~CancelAllowed`,
  which is the configuration of `writer_reliable`. Under cancellation,
  `writer_cancel_loss` shows the property fails. The proof strengthens
  `IInv` with `DInv`, which has these parts:
  * `Failed` is the set of workers whose sendChunk is returning an error.
  * `FailedAt`: such a worker is in Release or about to report, and a
    reporting worker is one of them.
  * `Tally`: while Send runs, either `errChan` holds an error or
    `written + chunkQ + |Carrying| + |Failed| = sent`.
  * `ExitDrained`: a worker exits only once the chunk channel is closed and
    empty.
  * `SenderClosed` and `AllSent`: closing the chunk channel ends Send's
    loop, and Wait starts only after every chunk has been sent.

  At Wait's join every worker has exited, so `Carrying` and `Failed` are
  empty and `chunkQ = 0`. With `errQ = 0` this leaves `written = NChunks`.
  `Report` always leaves `errQ > 0`, even when `errChan` is full, because
  `ErrCap = |Workers| >= 1`. This is why a failure cannot be lost without
  cancellation.

### What stays with TLC

* **Liveness** (`AllEventuallyOpened`, `SendReturns`, `HandshakeCompletes`)
  needs fairness and ENABLED, which TLAPS does not handle.
* **`Transfer`**: `AssembleIntact`, `MerkleProofsVerify`, and the transfer
  part of `Node`'s `TypeOK`. These are statements about what the batch codec
  (`DecodeBatch`'s `recs[i]` loop), the Merkle tree (`nodes[i]`, `path[idx]`,
  `cur[i]`), `SortSeq` and `FoldLeft` compute for every input. Proving them
  means induction over data. The library's induction theorems take an
  operator parameter, which the installed provers cannot instantiate. TLC
  checks them over every input of the bounded sets `Inputs`.
* **`Node`'s `TypeOK`**. Its handshake part follows from
  `Handshake_proofs`. Its transfer part says that every message on the wire
  decodes (`ReadBatch(m).ok`), that the stored chunks are well formed and
  that the root is a digest. That is the round trip of `WriteBatch` through
  `DecodeBatch` and the values of the recursive `nodes` and `st` functions,
  which again means induction over data. TLC checks it on `session_transfer`.

## Not modelled yet, and plan

* **`ParallelReader`** (its `Wait` closes `resultChan` only after the readers
  return), and the leak of workers after a failed `Send`.
* **Session tickets**: `DecodeTicket` ignores `Revoke`; nonce reuse under the
  store key.
* **Frame codec**: only HELLO frames are exchanged. `ReadFrame`'s per-call
  `bufio.Reader` could lose read-ahead bytes, but only for a caller that
  reads two frames in a row, and none does. So it is not a hazard of this
  code.
* **Transfer across several streams**: `Transfer` sends all batches on one
  stream. The pool and workers that carry them are in `StreamPool`, with the
  chunks abstracted to a count.
* **Out of scope**, with the reason in `PROJECT.json`:
  * erasure coding, which is GF(256) arithmetic;
  * QUIC/TLS wrappers;
  * `ParsePeerIDHex` and key generation, which are encodings;
  * the command-line tools, which are I/O;
  * the session state machine of `spec.md` beyond the gating in `Node`.
