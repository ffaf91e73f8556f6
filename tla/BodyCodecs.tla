----------------------------- MODULE BodyCodecs -----------------------------
(***************************************************************************)
(* The codecs on the bodies of HTTP requests: what the handlers cut into   *)
(* chunks, hash and frame is what recv has put together so far, in whole   *)
(* or in part.                                                             *)
(***************************************************************************)
EXTENDS HttpExchange, ByteCodecs

CONSTANTS ChunkSizes     \* the values of chunk_size a configuration may have

ASSUME SizesAssumption == ChunkSizes \subseteq Nat

\* The PUT handler cuts a body into chunks whose concatenation, which GET
\* returns, is the body, for every chunk size that may be configured.
ChunksJoin ==
  \A size \in ChunkSizes :
     JoinsTo(ChunkBytes(got, size), got, IF size = 0 THEN DefaultChunk ELSE size)

\* Sha256 feeds its compression function the standard padding of the message,
\* at every length around the block boundaries and however update is called.
PaddedRight ==
  \A i \in 0 .. Len(got) :
     LET s == Digest(Update(Update(NewSha, First(got, i)), Rest(got, i))) IN
     s.buffer = <<>> /\ FlattenSeq(s.blocks) = StandardPadding(got)

\* decode_frame gives back the frame that was encoded when its lengths fit into
\* their fields, and refuses it otherwise: a length that is cut to its field
\* never makes another frame of it.
WireExact ==
  \A i \in 0 .. Len(got) :
     LET f == [type |-> 1, cid |-> First(got, i), payload |-> Rest(got, i)] IN
     DecodeFrame(EncodeFrame(f)) = IF Fits(f) THEN f ELSE NoFrame
=============================================================================
