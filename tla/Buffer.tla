------------------------------- MODULE Buffer -------------------------------
(***************************************************************************)
(* tmq_buffer_t (net/mqtt_buffer.c): a list of chunks, each a piece of     *)
(* memory that is written at its end and read at its beginning.  A chunk's *)
(* data are the bytes below its write_idx; the first read_idx of them are  *)
(* already consumed.                                                       *)
(***************************************************************************)
EXTENDS Naturals, Sequences, SequencesExt

CONSTANTS ChunkMin,   \* BUFFER_CHUNK_MIN: the smallest chunk allocated
          MaxRead     \* FD_MAX_READ_BYTES: the most one read takes

ASSUME BufferAssumption == ChunkMin \in Nat \ {0} /\ MaxRead \in Nat \ {0}

\* buffer_chunk_new, filled with bytes.
NewChunk(bytes) ==
  [chunk_size |-> IF Len(bytes) < ChunkMin THEN ChunkMin ELSE Len(bytes),
   read_idx   |-> 0,
   data       |-> bytes]

\* CHUNK_DATA_LEN, CHUNK_WRITEABLE and CHUNK_AVAL_SPACE.
DataOf(c)    == SubSeq(c.data, c.read_idx + 1, Len(c.data))
Writeable(c) == c.chunk_size - Len(c.data)
AvalSpace(c) == c.chunk_size - Len(DataOf(c))

\* buffer_chunk_realign.
Realign(c) == [c EXCEPT !.read_idx = 0, !.data = DataOf(c)]

EmptyBuffer == [chunks |-> <<>>, readable_bytes |-> 0]

DataUpTo(chunks, k) == FlattenSeq([i \in 1 .. k |-> DataOf(chunks[i])])

\* What a reader of the whole buffer gets.
Contents(b) == DataUpTo(b.chunks, Len(b.chunks))

\* The chunks with bytes added behind the last one's data, in a new chunk as
\* far as they do not fit.
Spill(chunks, bytes) ==
  IF chunks = <<>> THEN <<NewChunk(bytes)>>
  ELSE LET w == Writeable(Last(chunks)) IN
       IF w >= Len(bytes)
       THEN [chunks EXCEPT ![Len(chunks)].data = @ \o bytes]
       ELSE Append([chunks EXCEPT ![Len(chunks)].data = @ \o SubSeq(bytes, 1, w)],
                   NewChunk(SubSeq(bytes, w + 1, Len(bytes))))

\* The chunks with the last one realigned when that makes room for n bytes.
MakeRoom(chunks, n) ==
  IF /\ chunks # <<>> /\ Writeable(Last(chunks)) < n /\ AvalSpace(Last(chunks)) >= n
  THEN [chunks EXCEPT ![Len(chunks)] = Realign(@)]
  ELSE chunks

\* tmq_buffer_append.
BufferAppend(b, bytes) ==
  IF bytes = <<>> THEN b
  ELSE [chunks |-> Spill(MakeRoom(b.chunks, Len(bytes)), bytes),
        readable_bytes |-> b.readable_bytes + Len(bytes)]

\* tmq_buffer_read_fd, when the descriptor has these bytes (MaxRead at most).
BufferReadFd(b, bytes) ==
  [chunks |-> Spill(b.chunks, bytes), readable_bytes |-> b.readable_bytes + Len(bytes)]

\* tmq_buffer_remove, and what buffer_read_internal leaves: the chunks that are
\* read to their end are freed, the next one is read from further on.
BufferRemove(b, size) ==
  LET n == IF size > b.readable_bytes THEN b.readable_bytes ELSE size
      freed == Max({k \in 0 .. Len(b.chunks) : Len(DataUpTo(b.chunks, k)) <= n})
      rest == n - Len(DataUpTo(b.chunks, freed))
      left == SubSeq(b.chunks, freed + 1, Len(b.chunks))
  IN [chunks |-> IF left = <<>> THEN left ELSE [left EXCEPT ![1].read_idx = @ + rest],
      readable_bytes |-> b.readable_bytes - n]

\* tmq_buffer_peek.
BufferPeek(b, size) == SubSeq(Contents(b), 1, size)

=============================================================================
