----------------------------- MODULE ByteCodecs -----------------------------
(***************************************************************************)
(* The pure functions that cut, hash and frame bytes: chunk_bytes, the     *)
(* padding of Sha256, encode_frame and decode_frame.  Widths and block     *)
(* sizes are parameters, so that their limits are within reach.            *)
(***************************************************************************)
EXTENDS Integers, SequencesExt

CONSTANTS
  Base,                                     \* values of a byte: 256
  DefaultChunk,                             \* chunk size for a configured 0: 4 MiB
  BlockSize, LengthBytes,                   \* of SHA-256: 64 and 8
  TypeBytes, CidBytes, PayloadBytes         \* of a frame's header: 2, 2 and 4

ASSUME CodecAssumption ==
  /\ Base \in Nat \ {0, 1}
  /\ DefaultChunk \in Nat \ {0}
  /\ BlockSize \in Nat /\ LengthBytes \in 1 .. BlockSize - 1
  /\ {TypeBytes, CidBytes, PayloadBytes} \subseteq Nat \ {0}

\* How many values n bytes have.
Power[n \in Nat] == IF n = 0 THEN 1 ELSE Base * Power[n - 1]

\* A number in n bytes, the most significant one first: what does not fit is
\* cut off.
Digit(d) == <<"byte", d>>
Put(v, n) == [i \in 1 .. n |-> Digit((v \div Power[n - i]) % Base)]

\* The number in the bytes s.
Get(s) ==
  LET read[i \in 0 .. Len(s)] == IF i = 0 THEN 0 ELSE read[i - 1] * Base + s[i][2] IN
  read[Len(s)]

-----------------------------------------------------------------------------
(* chunk_bytes *)

\* How many times the loop runs; the variant rounds down.
RoundsDown(n, size) == n \div size
Rounds(n, size) == (n + size - 1) \div size

ChunkBytes(input, configured) ==
  LET size == IF configured = 0 THEN DefaultChunk ELSE configured
      end(i) == IF i * size < Len(input) THEN i * size ELSE Len(input) IN
  IF input = <<>> THEN <<<<>>>>
  ELSE [i \in 1 .. Rounds(Len(input), size) |-> SubSeq(input, (i - 1) * size + 1, end(i))]

-----------------------------------------------------------------------------
(* Sha256: "blocks" are the blocks transform has been given. *)

NewSha == [buffer |-> <<>>, bits |-> 0, blocks |-> <<>>]

\* while (buffer_.size() >= 64) transform, erase
Consume(s) ==
  LET n == Len(s.buffer) \div BlockSize IN
  [s EXCEPT !.blocks = @ \o [i \in 1 .. n |-> SubSeq(s.buffer, (i - 1) * BlockSize + 1, i * BlockSize)],
            !.buffer = SubSeq(s.buffer, n * BlockSize + 1, Len(s.buffer))]

Update(s, input) ==
  Consume([s EXCEPT !.bits = (@ + Len(input) * 8) % Power[LengthBytes], !.buffer = @ \o input])

\* while (buffer_.size() % 64 != 56): how many zeros follow n bytes.  The variant
\* makes room for one byte too many.
ZerosShort(n) == CHOOSE z \in 0 .. BlockSize - 1 : (n + z) % BlockSize = BlockSize - LengthBytes - 1
Zeros(n) == CHOOSE z \in 0 .. BlockSize - 1 : (n + z) % BlockSize = BlockSize - LengthBytes

Digest(s) ==
  LET marked == Append(s.buffer, Digit(Base \div 2))
      padded == marked \o [i \in 1 .. Zeros(Len(marked)) |-> Digit(0)] IN
  Consume([s EXCEPT !.buffer = padded \o Put(s.bits, LengthBytes)])

-----------------------------------------------------------------------------
(* encode_frame and decode_frame *)

HeaderBytes == TypeBytes + CidBytes + PayloadBytes

EncodeFrame(f) ==
  Put(f.type, TypeBytes) \o Put(Len(f.cid), CidBytes) \o Put(Len(f.payload), PayloadBytes)
    \o f.cid \o f.payload

\* bytes.size() != 8u + cid_len + payload_len, a sum of the width of payload_len.
\* The variant lets bytes follow the frame.
NotTooShort(n, cid, payload) == n >= (HeaderBytes + cid + payload) % Power[PayloadBytes]
ExactLength(n, cid, payload) == n = (HeaderBytes + cid + payload) % Power[PayloadBytes]

NoFrame == [type |-> -1, cid |-> <<>>, payload |-> <<>>]

DecodeFrame(b) ==
  LET cid == Get(SubSeq(b, TypeBytes + 1, TypeBytes + CidBytes))
      payload == Get(SubSeq(b, TypeBytes + CidBytes + 1, HeaderBytes)) IN
  IF Len(b) < HeaderBytes \/ ~ExactLength(Len(b), cid, payload) THEN NoFrame
  ELSE [type |-> Get(SubSeq(b, 1, TypeBytes)),
        cid |-> SubSeq(b, HeaderBytes + 1, HeaderBytes + cid),
        payload |-> SubSeq(b, HeaderBytes + cid + 1, Len(b))]

-----------------------------------------------------------------------------
(* What they compute *)

\* The chunks of an input put together are the input, and there is at least one;
\* none is longer than the chunk size, and only the last one is shorter.
JoinsTo(chunks, input, size) ==
  /\ chunks # <<>>
  /\ FlattenSeq(chunks) = input
  /\ \A i \in DOMAIN chunks : Len(chunks[i]) <= size
  /\ \A i \in 1 .. Len(chunks) - 1 : Len(chunks[i]) = size

\* The message, a one bit, as few zeros as fill the last block, and the length.
StandardPadding(m) ==
  LET Fills(z) == (Len(m) + 1 + z + LengthBytes) % BlockSize = 0
      z == CHOOSE n \in 0 .. BlockSize - 1 : Fills(n) IN
  m \o <<Digit(Base \div 2)>> \o [i \in 1 .. z |-> Digit(0)]
    \o Put((Len(m) * 8) % Power[LengthBytes], LengthBytes)

\* The lengths of f fit into their fields and their sum into its width.
Fits(f) ==
  /\ Len(f.cid) < Power[CidBytes]
  /\ HeaderBytes + Len(f.cid) + Len(f.payload) < Power[PayloadBytes]
=============================================================================
