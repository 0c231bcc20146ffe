---------------------------- MODULE ThetaPayload ----------------------------
(***************************************************************************)
(* What $serialize() of a theta sketch writes and theta(bytes = ) reads: a *)
(* compact, ordered sketch.  With entries to gain from it, the differences *)
(* of neighbouring hashes are packed into as many bits as the largest one  *)
(* needs, whole blocks of them at once and the rest one by one (version    *)
(* 4); otherwise the hashes are copied (version 3).                        *)
(*                                                                         *)
(* A payload is a record of its fields.  The seed hash, the sketch type    *)
(* and the checks of the length are left out.                              *)
(***************************************************************************)
EXTENDS Integers, Sequences, SequencesExt, FiniteSetsExt

CONSTANTS
  MAX_THETA,
  BYTE,    \* bits of a byte: 8
  BLOCK    \* differences packed at once: 8; they fill whole bytes

\* 64 - count_leading_zeros_in_u64
BitLength(n) == CHOOSE b \in 0 .. n : n < 2^b /\ (b > 0 => 2^(b - 1) <= n)

WholeBytes(bits) == bits \div BYTE + (IF bits % BYTE > 0 THEN 1 ELSE 0)

----------------------------------------------------------------------------
(* Packing; `out` is [bytes, offset], offset being the bits used of the     *)
(* last byte, or 0 when that is full                                        *)

\* Fill up the last byte, then whole bytes, then start one with what is left.
pack_bits(value, bits, out) ==
  LET free == BYTE - out.offset
      Filled(v) == [out.bytes EXCEPT ![Len(out.bytes)] = @ + (v % 2^free)]
      rest == IF out.offset > 0 THEN bits - free ELSE bits
      begun == IF out.offset > 0 THEN Filled(value \div 2^rest) ELSE out.bytes
      whole == [i \in 1 .. rest \div BYTE |-> (value \div 2^(rest - i * BYTE)) % 2^BYTE]
      left == rest % BYTE
  IN IF out.offset > 0 /\ bits < free
     THEN [bytes |-> Filled(value * 2^(free - bits)), offset |-> out.offset + bits]
     ELSE [bytes |-> begun \o whole \o
                     (IF left > 0 THEN <<(value * 2^(BYTE - left)) % 2^BYTE>> ELSE <<>>),
           offset |-> left]

\* `in` is [value, pos, offset]: the byte to read from, and its bits already read.
unpack_bits(bytes, bits, in) ==
  LET avail == BYTE - in.offset
      chunk == Min({avail, bits})
      pos == IF avail = chunk THEN in.pos + 1 ELSE in.pos
      rest == bits - chunk
      left == rest % BYTE
      first == (bytes[in.pos] \div 2^(avail - chunk)) % 2^chunk
      value == FoldLeft(LAMBDA v, i : v * 2^BYTE + bytes[pos + i - 1], first,
                        [i \in 1 .. rest \div BYTE |-> i])
      next == pos + rest \div BYTE
  IN IF left > 0
     THEN [value |-> value * 2^left + bytes[next] \div 2^(BYTE - left), pos |-> next,
           offset |-> left]
     ELSE [value |-> value, pos |-> next, offset |-> (in.offset + chunk) % BYTE]

\* pack_bits_1 to pack_bits_63: a block begins and ends with a byte.
PackBlock(values, bits) ==
  FoldLeft(LAMBDA out, v : pack_bits(v, bits, out), [bytes |-> <<>>, offset |-> 0],
           values).bytes

Unpacked(bytes, bits, pos, count) ==
  FoldLeft(LAMBDA u, i :
             LET v == unpack_bits(bytes, bits, u.in)
             IN [in |-> v, values |-> Append(u.values, v.value)],
           [in |-> [value |-> 0, pos |-> pos, offset |-> 0], values |-> <<>>],
           [i \in 1 .. count |-> i]).values

UnpackBlock(bytes, bits, pos) == Unpacked(bytes, bits, pos, BLOCK)

----------------------------------------------------------------------------
(* The two formats *)

Deltas(E) == [i \in DOMAIN E |-> IF i = 1 THEN E[1] ELSE E[i] - E[i - 1]]

EntryBits(E) == Max({BitLength(Deltas(E)[i]) : i \in DOMAIN E})

IsEstimationMode(c) == c.theta < MAX_THETA /\ ~c.empty

\* What does not gain is copied: nothing, and a single hash of an exact sketch.
IsSuitableForCompression(c) ==
  Len(c.entries) > 1 \/ (Len(c.entries) = 1 /\ IsEstimationMode(c))

Serialize(c) ==
  [version |-> 3,
   preamble_longs |-> IF IsEstimationMode(c) THEN 3
                      ELSE IF c.empty \/ Len(c.entries) = 1 THEN 1 ELSE 2,
   empty |-> c.empty, theta |-> c.theta, data |-> c.entries]

\* The blocks, then what is left over from a fresh byte on
SerializeVersion4(c) ==
  LET bits == EntryBits(c.entries)
      D == Deltas(c.entries)
      count == Len(D)
      blocks == [b \in 1 .. count \div BLOCK |->
                   PackBlock(SubSeq(D, (b - 1) * BLOCK + 1, b * BLOCK), bits)]
      extra == SubSeq(D, (count \div BLOCK) * BLOCK + 1, count)
  IN [version |-> 4,
      preamble_longs |-> IF IsEstimationMode(c) THEN 2 ELSE 1,
      entry_bits |-> bits,
      num_entries |-> [i \in 1 .. WholeBytes(BitLength(count)) |->
                         (count \div 2^((i - 1) * BYTE)) % 2^BYTE],
      theta |-> c.theta,
      data |-> FlattenSeq(blocks) \o PackBlock(extra, bits)]

SerializeCompressed(c) ==
  IF IsSuitableForCompression(c) THEN SerializeVersion4(c) ELSE Serialize(c)

\* What a version 3 payload says of itself; theta is there if preamble_longs says so.
ParseVersion3(p) ==
  IF p.empty THEN [empty |-> TRUE, theta |-> MAX_THETA, entries |-> <<>>]
  ELSE [empty |-> FALSE,
        theta |-> IF p.preamble_longs > 2 THEN p.theta ELSE MAX_THETA,
        entries |-> IF p.preamble_longs = 1 THEN <<p.data[1]>> ELSE p.data]

\* Version 4: unpack the blocks and the rest, and undo the differences.
ParseVersion4(p) ==
  LET count == FoldLeftDomain(LAMBDA n, i : n + p.num_entries[i] * 2^((i - 1) * BYTE),
                              0, p.num_entries)
      block_bytes == (p.entry_bits * BLOCK) \div BYTE
      blocks == [b \in 1 .. count \div BLOCK |->
                   UnpackBlock(p.data, p.entry_bits, (b - 1) * block_bytes + 1)]
      extra == Unpacked(p.data, p.entry_bits, (count \div BLOCK) * block_bytes + 1,
                        count % BLOCK)
      D == FlattenSeq(blocks) \o extra
  IN [empty |-> FALSE,
      theta |-> IF p.preamble_longs > 1 THEN p.theta ELSE MAX_THETA,
      entries |-> [i \in DOMAIN D |-> FoldLeft(LAMBDA x, y : x + y, 0, SubSeq(D, 1, i))]]

Deserialize(p) == IF p.version = 4 THEN ParseVersion4(p) ELSE ParseVersion3(p)
=============================================================================
