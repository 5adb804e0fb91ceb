------------------------------- MODULE Transfer -------------------------------
(***************************************************************************)
(* Bulk transfer of one object (package transfer): BulkSender.Send or      *)
(* SendReader splits the data into chunks (batch.go Chunker), hashes them, *)
(* builds the Merkle tree (merkle.go), compresses each chunk when LZ4 helps *)
(* (compress.go) and writes every chunk as a one-chunk batch with          *)
(* WriteBatch; it returns the Merkle root.  The BulkReceiver reads batches *)
(* with ReadBatch, stores each chunk that DecompressChunk accepts, and     *)
(* Assemble checks the chunks it holds against the expected root before   *)
(* it reassembles them.                                                    *)
(*                                                                         *)
(* Data are byte strings: sequences of atoms.  Byte(n) is one byte; a      *)
(* SHA-256 digest sha256.Sum256(d) is the one-atom string <<Sha(d)>> (an   *)
(* ideal hash: equal digests only for equal inputs); an LZ4 frame of d is  *)
(* the one-atom string <<LZ4(d)>>.  Lengths are counted in atoms, so       *)
(* MaxBatchSize is scaled with them.  The parallel writer is abstracted to *)
(* its effect (StreamPool models it): the batches that encode reach the    *)
(* wire, and the network may deliver each of them any number of times, in *)
(* any order, or never.  With Attack, an active attacker on the wire may   *)
(* also deliver batches of its own making, built from the chunk hashes it  *)
(* has seen on the wire.                                                   *)
(***************************************************************************)
EXTENDS Naturals, Sequences, SequencesExt, Bytes

CONSTANTS
    Inputs,         \* the objects the application may send
    ChunkSize,      \* Chunker.chunkSize
    MaxBatchSize,   \* MaxBatchSize, in atoms
    Attack          \* whether an attacker may inject batches

\* What the constants must satisfy; Node assumes it of the instance it
\* runs.
TransferAssumption ==
    /\ ChunkSize \in Nat \ {0}
    /\ MaxBatchSize \in Nat
    /\ Attack \in BOOLEAN

-----------------------------------------------------------------------------
(* Chunker, compression and the batch codec.                               *)

\* HashChunk: sha256.Sum256(data)[:].
HashChunk(d) == <<Sha(d)>>

MkChunk(i, d) == [Index |-> i, Data |-> d, Hash |-> HashChunk(d)]

\* Chunker.Split: consecutive slices of chunkSize bytes, the last one shorter.
Split(data) ==
    LET n == (Len(data) + ChunkSize - 1) \div ChunkSize
        end(j) == IF (j + 1) * ChunkSize > Len(data) THEN Len(data) ELSE (j + 1) * ChunkSize
    IN  [j \in 1 .. n |-> MkChunk(j - 1, SubSeq(data, (j - 1) * ChunkSize + 1, end(j - 1)))]

\* Chunker.SplitReader: io.ReadFull of chunkSize bytes until io.EOF (nothing
\* left) or io.ErrUnexpectedEOF (a short last read), reading from a
\* bytes.Reader over data, which returns no other error.
SplitReader(data) ==
    LET reads[pos \in 0 .. Len(data)] ==
            LET n == IF Len(data) - pos < ChunkSize THEN Len(data) - pos ELSE ChunkSize
            IN  IF n = 0 THEN <<>>
                ELSE IF n < ChunkSize THEN <<SubSeq(data, pos + 1, pos + n)>>
                ELSE <<SubSeq(data, pos + 1, pos + n)>> \o reads[pos + n]
        pieces == reads[0]
    IN  [j \in DOMAIN pieces |-> MkChunk(j - 1, pieces[j])]

\* Reassemble: the chunks in ascending Index order (the exchange sort of
\* the code), their data concatenated.
Reassemble(chunks) ==
    LET sorted == SortSeq(chunks, LAMBDA a, b : a.Index < b.Index)
    IN  FlattenSeq([i \in DOMAIN sorted |-> sorted[i].Data])

\* Decompress: an LZ4 frame yields what it compresses; anything else fails.
Decompress(d) ==
    IF Len(d) = 1 /\ DOMAIN d[1] = {"lz4"} THEN Ok(d[1].lz4) ELSE Err

\* CompressChunk: the LZ4 frame is kept only when it is shorter than the
\* data; helps says whether Compress succeeded with a shorter output, which
\* the frame's one atom can be only for data of two or more atoms.
CompressChunk(c, helps) ==
    IF helps /\ Len(c.Data) > 1
      THEN [Index |-> c.Index, Compressed |-> TRUE, Data |-> <<LZ4(c.Data)>>, OrigHash |-> c.Hash]
      ELSE [Index |-> c.Index, Compressed |-> FALSE, Data |-> c.Data, OrigHash |-> c.Hash]

\* Mutant: the CompressedChunk itself is returned once its hash checks.
DecompressChunkWire(cc) ==
    LET d == IF cc.Compressed THEN Decompress(cc.Data) ELSE Ok(cc.Data)
    IN  IF ~ d.ok \/ HashChunk(d.val) # cc.OrigHash THEN Err ELSE Ok(cc)

\* DecompressChunk: decompress when flagged, then the hash of the result
\* must equal OrigHash (bytesEqual).
DecompressChunk(cc) ==
    LET d == IF cc.Compressed THEN Decompress(cc.Data) ELSE Ok(cc.Data)
    IN  IF ~ d.ok THEN Err
        ELSE IF HashChunk(d.val) # cc.OrigHash THEN Err
        ELSE Ok(MkChunk(cc.Index, d.val))

\* Batch.Size: magic and count, then per chunk its header, hash and data.
RecordSize(cc) == 4 + 1 + 2 + Len(cc.OrigHash) + 4 + Len(cc.Data)
BatchSize(ccs) == FoldLeft(LAMBDA acc, cc : acc + RecordSize(cc), 8, ccs)

BatchMagic == 1228296258   \* 0x49365042, "I6PB"

\* Batch.Encode.
EncodeRecord(cc) ==
    BE(cc.Index, 4) \o <<Byte(IF cc.Compressed THEN 1 ELSE 0)>>
        \o BE(Len(cc.OrigHash), 2) \o cc.OrigHash \o BE(Len(cc.Data), 4) \o cc.Data
Encode(ccs) ==
    IF BatchSize(ccs) > MaxBatchSize THEN Err
    ELSE Ok(BE(BatchMagic, 4) \o BE(Len(ccs), 4)
              \o FlattenSeq([i \in DOMAIN ccs |-> EncodeRecord(ccs[i])]))

\* One record of DecodeBatch's loop at offset off, with its three
\* truncation checks: the chunk and the offset after it, or an error.
DecodeRecord(data, off) ==
    IF off + 4 + 1 + 2 > Len(data) THEN Err
    ELSE LET index == Uint32BE(Slice(data, off, 4))
             compressed == data[off + 5] = Byte(1)
             hashLen == Uint16BE(Slice(data, off + 5, 2))
             o1 == off + 7
         IN  IF o1 + hashLen + 4 > Len(data) THEN Err
             ELSE LET dataLen == Uint32BE(Slice(data, o1 + hashLen, 4))
                      o2 == o1 + hashLen + 4
                  IN  IF o2 + dataLen > Len(data) THEN Err
                      ELSE Ok([cc |-> [Index |-> index, Compressed |-> compressed,
                                       Data |-> Slice(data, o2, dataLen),
                                       OrigHash |-> Slice(data, o1, hashLen)],
                               next |-> o2 + dataLen])

\* DecodeBatch: length, magic, count, then the loop over the records;
\* recs[i] is the chunks of the first i records and the offset after them,
\* or the error that ended the loop.  A record takes at least 11 bytes, so
\* a count over Len(data) fails within the first Len(data) + 1 records.
DecodeBatch(data) ==
    IF Len(data) < 8 THEN Err
    ELSE IF Uint32BE(Slice(data, 0, 4)) # BatchMagic THEN Err
    ELSE LET count == Uint32BE(Slice(data, 4, 4))
             k == IF count > Len(data) THEN Len(data) + 1 ELSE count
             recs[i \in 0 .. k] ==
                 IF i = 0 THEN Ok([ccs |-> <<>>, off |-> 8])
                 ELSE IF ~ recs[i - 1].ok THEN Err
                 ELSE LET r == DecodeRecord(data, recs[i - 1].val.off)
                      IN  IF ~ r.ok THEN Err
                          ELSE Ok([ccs |-> Append(recs[i - 1].val.ccs, r.val.cc), off |-> r.val.next])
         IN  IF recs[k].ok THEN Ok(recs[k].val.ccs) ELSE Err

\* WriteBatch: the encoded batch behind a 4-byte length prefix.
WriteBatch(ccs) ==
    LET e == Encode(ccs)
    IN  IF ~ e.ok THEN Err ELSE Ok(BE(Len(e.val), 4) \o e.val)

\* ReadBatch on a stream that holds the message m: the length prefix,
\* the MaxBatchSize check, io.ReadFull of the body, DecodeBatch.
ReadBatch(m) ==
    IF Len(m) < 4 THEN Err
    ELSE LET n == Uint32BE(Slice(m, 0, 4))
         IN  IF n > MaxBatchSize \/ 4 + n > Len(m) THEN Err
             ELSE DecodeBatch(Slice(m, 4, n))

-----------------------------------------------------------------------------
(* The Merkle tree.                                                        *)

\* The smallest power of two that is at least k (BuildMerkleTree's n).
PadTo(k) == Min({2 ^ e : e \in 0 .. k} \cap {m \in Nat : m >= k})

\* BuildMerkleTree: the leaves padded with sha256(nil) to a power of two n,
\* stored at nodes[n-1 .. 2n-2]; nodes[i] = sha256(nodes[2i+1] || nodes[2i+2]).
BuildMerkleTree(hashes) ==
    IF Len(hashes) = 0 THEN Err
    ELSE LET n == PadTo(Len(hashes))
             leaf(i) == IF i < Len(hashes) THEN hashes[i + 1] ELSE HashChunk(<<>>)
             nodes[i \in 0 .. 2 * n - 2] ==
                 IF i >= n - 1 THEN leaf(i - (n - 1))
                 ELSE HashChunk(nodes[2 * i + 1] \o nodes[2 * i + 2])
         IN  Ok([n |-> n, leaves |-> [i \in 0 .. n - 1 |-> leaf(i)], nodes |-> nodes])

\* MerkleTree.Root.
Root(tree) == tree.nodes[0]

\* Mutant: isLeft is recorded as idx%2 == 1.
GenerateProofFlipped(tree, ci) ==
    IF ci < 0 \/ ci >= tree.n THEN Err
    ELSE LET path[idx \in 0 .. 2 * tree.n - 2] ==
                 IF idx = 0 THEN [sib |-> <<>>, left |-> <<>>]
                 ELSE LET up == path[(idx - 1) \div 2]
                      IN  [sib |-> <<tree.nodes[IF idx % 2 = 1 THEN idx + 1 ELSE idx - 1]>> \o up.sib,
                           left |-> <<idx % 2 = 1>> \o up.left]
             p == path[tree.n - 1 + ci]
         IN  Ok([ChunkIndex |-> ci, ChunkHash |-> tree.leaves[ci],
                 Siblings |-> p.sib, IsLeft |-> p.left])

\* GenerateProof: the index range check against the padded n, then from the
\* leaf's node up to the root, each sibling and whether it is on the left.
GenerateProof(tree, ci) ==
    IF ci < 0 \/ ci >= tree.n THEN Err
    ELSE LET path[idx \in 0 .. 2 * tree.n - 2] ==
                 IF idx = 0 THEN [sib |-> <<>>, left |-> <<>>]
                 ELSE LET sibling == IF idx % 2 = 1 THEN idx + 1 ELSE idx - 1
                          up == path[(idx - 1) \div 2]
                      IN  [sib |-> <<tree.nodes[sibling]>> \o up.sib,
                           left |-> <<idx % 2 = 0>> \o up.left]
             p == path[tree.n - 1 + ci]
         IN  Ok([ChunkIndex |-> ci, ChunkHash |-> tree.leaves[ci],
                 Siblings |-> p.sib, IsLeft |-> p.left])

\* VerifyProof: hash up from ChunkHash with each sibling on its side, and
\* compare with the expected root (bytesEqual).
VerifyProof(proof, expectedRoot) ==
    LET cur[i \in 0 .. Len(proof.Siblings)] ==
            IF i = 0 THEN proof.ChunkHash
            ELSE HashChunk(IF proof.IsLeft[i] THEN proof.Siblings[i] \o cur[i - 1]
                                              ELSE cur[i - 1] \o proof.Siblings[i])
    IN  cur[Len(proof.Siblings)] = expectedRoot

-----------------------------------------------------------------------------
(* Sender, network and receiver.                                           *)

\* The receiver's map is keyed by chunk index; no index beyond the largest
\* object's chunks is ever stored.
MaxChunks == Max({Len(Split(d)) : d \in Inputs})
Idx == 0 .. MaxChunks - 1
NoChunk == [none |-> TRUE]

VARIABLES
    input,      \* the data passed to Send / SendReader
    sender,     \* "idle", "sent" (the root was returned) or "failed"
    root,       \* the Merkle root Send returned, or <<>>
    wire,       \* every WriteBatch message written to a stream
    recv,       \* BulkReceiver.chunks: index -> Chunk, or NoChunk
    assembled   \* the result of the receiver's last Assemble, or Err

vars == <<input, sender, root, wire, recv, assembled>>

Init ==
    /\ input \in Inputs
    /\ sender = "idle"
    /\ root = <<>>
    /\ wire = {}
    /\ recv = [i \in Idx |-> NoChunk]
    /\ assembled = Err

\* BulkSender.Send (viaReader FALSE) or SendReader over a bytes.Reader
\* (viaReader TRUE): split, build the tree (ErrMerkleEmpty for no chunks),
\* compress each chunk (helps[i]: whether LZ4 shrank chunk i), and write
\* one batch per chunk.  A batch over MaxBatchSize fails its worker and
\* Send returns the error; the other workers' batches still go out.
Send ==
    /\ sender = "idle"
    /\ \E viaReader \in BOOLEAN :
         LET chunks == IF viaReader THEN SplitReader(input) ELSE Split(input)
             tree == BuildMerkleTree([i \in DOMAIN chunks |-> chunks[i].Hash])
         IN  \E helps \in [DOMAIN chunks -> BOOLEAN] :
               LET msgs == [i \in DOMAIN chunks |-> WriteBatch(<<CompressChunk(chunks[i], helps[i])>>)]
                   allOk == \A i \in DOMAIN msgs : msgs[i].ok
               IN  IF ~ tree.ok
                     THEN /\ sender' = "failed"
                          /\ UNCHANGED <<root, wire>>
                     ELSE /\ wire' = wire \cup {msgs[i].val : i \in {j \in DOMAIN msgs : msgs[j].ok}}
                          /\ sender' = IF allOk THEN "sent" ELSE "failed"
                          /\ root' = IF allOk THEN Root(tree.val) ELSE <<>>
    /\ UNCHANGED <<input, recv, assembled>>

\* The chunk hashes an attacker on the wire has seen.
SeenHashes == {cc.OrigHash : cc \in UNION {ToSet(ReadBatch(m).val) : m \in wire}}

\* Batches an attacker can write: one chunk at any index whose data is two
\* hashes it has seen, compressed or not, that WriteBatch accepts.
Forged ==
    IF ~ Attack THEN {}
    ELSE LET tries == {WriteBatch(<<CompressChunk(MkChunk(i, h[1] \o h[2]), b)>>) :
                         i \in Idx, h \in SeenHashes \X SeenHashes, b \in BOOLEAN}
         IN  {t.val : t \in {t \in tries : t.ok}}

\* BulkReceiver.ReceiveChunk over a batch (ReceiveBatch): each chunk that
\* DecompressChunk accepts is stored under its index, until the first error.
ReceiveBatch(chunks, ccs) ==
    LET st[i \in 0 .. Len(ccs)] ==
            IF i = 0 THEN [chunks |-> chunks, stopped |-> FALSE]
            ELSE LET c == DecompressChunk(ccs[i])
                 IN  IF st[i - 1].stopped \/ ~ c.ok THEN [st[i - 1] EXCEPT !.stopped = TRUE]
                     ELSE [st[i - 1] EXCEPT !.chunks[c.val.Index] = c.val]
    IN  st[Len(ccs)].chunks

\* One turn of the receiving side's loop (the example server, part_021):
\* ReadBatch of a message the network delivers, then ReceiveBatch.  A
\* message ReadBatch rejects changes nothing.  The server returns on either
\* error; the model lets other messages still arrive, which only adds
\* behaviours, none of which reaches an Assemble the code could not.
Receive ==
    /\ \E m \in wire \cup Forged :
         LET b == ReadBatch(m)
         IN  /\ b.ok
             /\ recv' = ReceiveBatch(recv, b.val)
    /\ UNCHANGED <<input, sender, root, wire, assembled>>

\* Mutant: the Merkle check is skipped (Assemble(nil)).
AssembleUnchecked ==
    /\ sender = "sent"
    /\ \E slice \in SetToSeqs({recv[i] : i \in {j \in Idx : recv[j] # NoChunk}}) :
         assembled' = Ok(Reassemble(SortSeq(slice, LAMBDA a, b : a.Index < b.Index)))
    /\ UNCHANGED <<input, sender, root, wire, recv>>

\* BulkReceiver.Assemble(root): the map's chunks in map order, sorted by
\* Index, their hashes checked against the expected root, then Reassemble.
Assemble ==
    /\ sender = "sent"
    /\ \E slice \in SetToSeqs({recv[i] : i \in {j \in Idx : recv[j] # NoChunk}}) :
         LET sorted == SortSeq(slice, LAMBDA a, b : a.Index < b.Index)
             tree == BuildMerkleTree([i \in DOMAIN sorted |-> sorted[i].Hash])
         IN  assembled' = IF ~ tree.ok \/ Root(tree.val) # root THEN Err
                          ELSE Ok(Reassemble(sorted))
    /\ UNCHANGED <<input, sender, root, wire, recv>>

Next == Send \/ Receive \/ Assemble

Spec == Init /\ [][Next]_vars

-----------------------------------------------------------------------------
\* A digest is one "sha" atom; chunk data are byte and digest atoms.
IsDigest(h) == Len(h) = 1 /\ DOMAIN h[1] = {"sha"}
IsData(d) == \A i \in DOMAIN d : DOMAIN d[i] \in {{"byte"}, {"sha"}}

TypeOK ==
    /\ input \in Inputs
    /\ sender \in {"idle", "sent", "failed"}
    /\ sender = "sent" <=> IsDigest(root)
    /\ sender # "sent" <=> root = <<>>
    /\ \A m \in wire : ReadBatch(m).ok
    /\ DOMAIN recv = Idx
    /\ \A i \in Idx : recv[i] # NoChunk =>
         /\ DOMAIN recv[i] = {"Index", "Data", "Hash"}
         /\ recv[i].Index = i
         /\ IsData(recv[i].Data)
         /\ recv[i].Hash = HashChunk(recv[i].Data)
    /\ assembled.ok \in BOOLEAN
    /\ assembled.ok => IsData(assembled.val)

(* Whatever the network does with the batches (loss, duplication,          *)
(* reordering) and whichever way the sender split the data (Split or       *)
(* SplitReader), an Assemble that succeeds against the root Send returned  *)
(* yields exactly the data that was sent: the Merkle check in              *)
(* BulkReceiver.Assemble is what stands between the received chunks and   *)
(* the application.                                                        *)
AssembleIntact == assembled.ok => assembled.val = input

(* Once Send has returned a root, that root is the root of the tree over   *)
(* Split(input)'s chunk hashes (so SplitReader splits as Split does), the  *)
(* proof GenerateProof gives for every leaf verifies against it, a proof   *)
(* carrying another leaf's distinct hash does not, and a proof for an      *)
(* index beyond the padded tree is refused.                                *)
MerkleProofsVerify ==
    sender = "sent" =>
        LET tree == BuildMerkleTree([i \in DOMAIN Split(input) |-> Split(input)[i].Hash]).val
        IN  /\ Root(tree) = root
            /\ ~ GenerateProof(tree, tree.n).ok
            /\ \A i \in 0 .. tree.n - 1 :
                 LET pf == GenerateProof(tree, i).val
                 IN  /\ VerifyProof(pf, root)
                     /\ \A j \in 0 .. tree.n - 1 :
                          tree.leaves[j] # tree.leaves[i]
                            => ~ VerifyProof([pf EXCEPT !.ChunkHash = tree.leaves[j]], root)
=============================================================================
