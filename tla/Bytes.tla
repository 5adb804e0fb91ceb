-------------------------------- MODULE Bytes --------------------------------
(***************************************************************************)
(* Byte strings as the wire codecs of package transfer (batch.go) and      *)
(* package protocol (codec.go) build them with encoding/binary.  A string  *)
(* is a sequence of atoms: Byte(n) is one byte; Sha(d) stands for the 32    *)
(* bytes of sha256.Sum256(d) (an ideal hash: equal digests only for equal  *)
(* inputs); LZ4(d) stands for an LZ4 frame of d.  Lengths are counted in   *)
(* atoms.                                                                   *)
(***************************************************************************)
EXTENDS Naturals, Sequences

Byte(n) == [byte |-> n]
Sha(d) == [sha |-> d]
LZ4(d) == [lz4 |-> d]

\* binary.BigEndian.PutUint32 / PutUint16: n as k big-endian bytes.
BE(n, k) == [i \in 1 .. k |-> Byte((n \div (256 ^ (k - i))) % 256)]

\* The value of a byte; an atom that is not a byte reads as 0 here, which
\* only matters for the garbage an attacker may send.
ByteVal(a) == IF "byte" \in DOMAIN a THEN a.byte ELSE 0

\* binary.BigEndian.Uint32 and Uint16: the first four (two) bytes of s,
\* most significant first.
Uint32BE(s) ==
    ((ByteVal(s[1]) * 256 + ByteVal(s[2])) * 256 + ByteVal(s[3])) * 256 + ByteVal(s[4])
Uint16BE(s) == ByteVal(s[1]) * 256 + ByteVal(s[2])

\* Go's data[off : off + n].
Slice(s, off, n) == SubSeq(s, off + 1, off + n)

Ok(v) == [ok |-> TRUE, val |-> v]
Err == [ok |-> FALSE]

=============================================================================
