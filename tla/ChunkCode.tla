----------------------------- MODULE ChunkCode ------------------------------
(***************************************************************************)
(* The erasure code that carries the parts of an SPQR epoch:               *)
(* internal/spqr/chunked.  A message is dealt round-robin to NumPolys      *)
(* polynomials over GF(2^Bits), of which it gives the values at 0, 1, ...; *)
(* chunk x holds the value of every polynomial at x.                       *)
(*                                                                         *)
(* An encoder and a decoder run against each other over a network that     *)
(* loses, duplicates and reorders.  Both are written to their protobuf     *)
(* form and read back around every step, as the SPQR state is.  A field    *)
(* element is two bytes, of Bits bits together (16 in the code).           *)
(***************************************************************************)
EXTENDS Integers, Sequences, FiniteSets, SequencesExt, Bitwise

CONSTANTS
    Nil,
    Bits,           \* 16: the field is GF(2^Bits)
    GfPoly,         \* the reducing polynomial, of degree Bits
    NumPolys,       \* 16
    Messages,       \* the messages explored: sequences of bytes
    MaxReceived     \* bound: different chunks that arrive

ASSUME CodeAssumption ==
    /\ GfPoly \in 2 ^ Bits .. 2 ^ (Bits + 1) - 1
    /\ \A m \in Messages : Len(m) % 2 = 0 /\ Len(m) \div 2 >= NumPolys

VARIABLES
    message,    \* the bytes to transfer
    encoder,    \* PolynomialEncoder, as stored
    decoder,    \* PolynomialDecoder, as stored
    emitted,    \* the chunks the encoder has produced
    received    \* the indices of the chunks the decoder has folded in

vars == <<message, encoder, decoder, emitted, received>>

-----------------------------------------------------------------------------
\* gf.go

Word  == 2 ^ Bits
Field == 0 .. Word - 1
Bit(v, i) == (v \div 2 ^ i) % 2

polyMul(a, b) ==
    FoldLeft(LAMBDA acc, shift : IF Bit(b, shift) = 1 THEN acc ^^ (a * 2 ^ shift) ELSE acc,
             0, [i \in 1 .. Bits |-> i - 1])

\* The mutant stops one bit early.
gfReduceShort(v) ==
    FoldLeft(LAMBDA w, bit : IF Bit(w, bit) = 1 THEN w ^^ (GfPoly * 2 ^ (bit - Bits)) ELSE w,
             v, [i \in 1 .. Bits - 1 |-> 2 * Bits - i]) % Word
gfReduce(v) ==
    FoldLeft(LAMBDA w, bit : IF Bit(w, bit) = 1 THEN w ^^ (GfPoly * 2 ^ (bit - Bits)) ELSE w,
             v, [i \in 1 .. Bits |-> 2 * Bits - i]) % Word

gfMul == [a \in Field, b \in Field |-> gfReduce(polyMul(a, b))]
gfAdd == [a \in Field, b \in Field |-> a ^^ b]

gfDiv == [a \in Field, b \in Field |->
    FoldLeft(LAMBDA s, i : [out |-> gfMul[s.square, s.out], square |-> gfMul[s.square, s.square]],
             [out |-> a, square |-> gfMul[b, b]], [i \in 1 .. Bits - 1 |-> i]).out]

-----------------------------------------------------------------------------
\* polynomial.go: a polynomial is its coefficients, the constant term first, and
\* a point is a pair <<x, y>>.

evalAt(coeffs, x) ==
    FoldRight(LAMBDA c, acc : gfAdd[gfMul[acc, x], c], coeffs, 0)

polyMulLinear(coeffs, root) ==
    [i \in 1 .. Len(coeffs) + 1 |->
        gfAdd[IF i > 1 THEN coeffs[i - 1] ELSE 0,
              IF i <= Len(coeffs) THEN gfMul[coeffs[i], root] ELSE 0]]

polyAddScaled(dst, src, scale) ==
    [i \in 1 .. IF Len(src) > Len(dst) THEN Len(src) ELSE Len(dst) |->
        gfAdd[IF i <= Len(dst) THEN dst[i] ELSE 0,
              IF i <= Len(src) THEN gfMul[src[i], scale] ELSE 0]]

\* The two halves of a point's term.
Others(pts, i) == SelectSeq(pts, LAMBDA q : q[1] # pts[i][1])
Numerator(pts, i) == FoldLeft(LAMBDA n, q : polyMulLinear(n, q[1]), <<1>>, Others(pts, i))
Denominator(pts, i) ==
    FoldLeft(LAMBDA d, q : gfMul[d, gfAdd[pts[i][1], q[1]]], 1, Others(pts, i))
lagrangeInterpolate(pts) ==
    IF pts = <<>> THEN <<>>
    ELSE FoldLeft(LAMBDA acc, i : polyAddScaled(acc, Numerator(pts, i),
                                                gfDiv[pts[i][2], Denominator(pts, i)]),
                  <<0>>, [i \in 1 .. Len(pts) |-> i])

\* Big-endian field elements.
Half == 2 ^ (Bits \div 2)
BytesOf(v)     == <<v \div Half, v % Half>>
ValueOf(hi, lo) == hi * Half + lo
serializeGF16s(vs) == FlattenSeq([i \in 1 .. Len(vs) |-> BytesOf(vs[i])])
deserializeGF16s(b) == [i \in 1 .. Len(b) \div 2 |-> ValueOf(b[2 * i - 1], b[2 * i])]

-----------------------------------------------------------------------------
\* The encoder: data points until an index beyond them is asked for, then
\* interpolated polynomials.  Polynomials are numbered from 1 here.

NewEncoder(msg) ==
    LET values   == deserializeGF16s(msg)
        dealt(p) == {i \in DOMAIN values : i % NumPolys = p % NumPolys}
    IN  [idx |-> 0, switched |-> FALSE, polys |-> <<>>,
         values |-> [p \in 1 .. NumPolys |->
                        [j \in 1 .. Cardinality(dealt(p)) |-> values[(j - 1) * NumPolys + p]]]]

Switched(e) ==
    LET points(p) == [j \in 1 .. Len(e.values[p]) |-> <<j - 1, e.values[p][j]>>]
    IN  [e EXCEPT !.switched = TRUE,
                  !.polys = [p \in 1 .. NumPolys |-> lagrangeInterpolate(points(p))]]

\* ChunkAt, with the state it leaves: the first point out of range switches the
\* encoder for that polynomial and the ones after it.
ChunkAt(e, idx) ==
    LET out(p)  == idx >= Len(e.values[p])
        late(p) == e.switched \/ \E q \in 1 .. p : out(q)
        e1      == IF ~e.switched /\ late(NumPolys) THEN Switched(e) ELSE e
        value(p) == IF late(p) THEN evalAt(e1.polys[p], idx) ELSE e.values[p][idx + 1]
    IN  [chunk |-> [index |-> idx, data |-> serializeGF16s([p \in 1 .. NumPolys |-> value(p)])],
         encoder |-> e1]

NextChunk(e) ==
    LET r == ChunkAt(e, e.idx)
    IN  [r EXCEPT !.encoder.idx = (e.idx + 1) % Word]

\* codec.go: exactly one of pts and polys is written.  A switched encoder comes
\* back without its data points.
EncoderToProto(e) ==
    IF e.switched
    THEN [idx |-> e.idx, pts |-> <<>>,
          polys |-> [p \in 1 .. NumPolys |-> serializeGF16s(e.polys[p])]]
    ELSE [idx |-> e.idx, polys |-> <<>>,
          pts |-> [p \in 1 .. NumPolys |-> serializeGF16s(e.values[p])]]

EncoderFromProto(pb) ==
    LET read(lists) == [p \in 1 .. NumPolys |-> deserializeGF16s(lists[p])]
    IN  IF Len(pb.pts) # 0
        THEN [idx |-> pb.idx, switched |-> FALSE, polys |-> <<>>, values |-> read(pb.pts)]
        ELSE [idx |-> pb.idx, switched |-> TRUE, polys |-> read(pb.polys),
              values |-> [p \in 1 .. NumPolys |-> <<>>]]

-----------------------------------------------------------------------------
\* The decoder.

NewDecoder(msgLen) == [pointsNeeded |-> msgLen \div 2, pts |-> [p \in 1 .. NumPolys |-> <<>>]]

necessaryPoints(d, p) ==
    d.pointsNeeded \div NumPolys + (IF p - 1 < d.pointsNeeded % NumPolys THEN 1 ELSE 0)

\* pushPoint, and a mutant that takes a repeated point again.
pushPointAgain(pts, x, y) == Append(pts, <<x, y>>)
pushPoint(pts, x, y) ==
    IF \E i \in DOMAIN pts : pts[i][1] = x THEN pts ELSE Append(pts, <<x, y>>)

AddChunk(d, c) ==
    [d EXCEPT !.pts = [p \in 1 .. NumPolys |->
        IF c.index < necessaryPoints(d, p) \/ Len(d.pts[p]) < necessaryPoints(d, p)
        THEN pushPoint(d.pts[p], c.index, deserializeGF16s(c.data)[p])
        ELSE d.pts[p]]]

directPoint(d, p, x) == {i \in DOMAIN d.pts[p] : d.pts[p][i][1] = x}

DecodedMessage(d) ==
    LET value(i) == LET p    == (i % NumPolys) + 1
                        x    == i \div NumPolys
                        held == directPoint(d, p, x)
                    IN  IF held # {} THEN d.pts[p][CHOOSE j \in held : TRUE][2]
                        ELSE evalAt(lagrangeInterpolate(SubSeq(d.pts[p], 1, necessaryPoints(d, p))), x)
    IN  IF \E p \in 1 .. NumPolys : Len(d.pts[p]) < necessaryPoints(d, p) THEN Nil
        ELSE serializeGF16s([i \in 1 .. d.pointsNeeded |-> value(i - 1)])

DecoderToProto(d) ==
    [ptsNeeded |-> d.pointsNeeded,
     pts |-> [p \in 1 .. NumPolys |-> serializeGF16s(FlattenSeq(d.pts[p]))]]

DecoderFromProto(pb) ==
    LET flat(p) == deserializeGF16s(pb.pts[p])
    IN  [pointsNeeded |-> pb.ptsNeeded,
         pts |-> [p \in 1 .. NumPolys |->
                     [i \in 1 .. Len(flat(p)) \div 2 |-> <<flat(p)[2 * i - 1], flat(p)[2 * i]>>]]]

-----------------------------------------------------------------------------
Init ==
    /\ message \in Messages
    /\ encoder  = EncoderToProto(NewEncoder(message))
    /\ decoder  = DecoderToProto(NewDecoder(Len(message)))
    /\ emitted  = {}
    /\ received = {}

Emit ==
    LET r == NextChunk(EncoderFromProto(encoder))
    IN  /\ encoder' = EncoderToProto(r.encoder)
        /\ emitted' = emitted \cup {r.chunk}
        /\ UNCHANGED <<message, decoder, received>>

Fold(c) ==
    /\ Cardinality(received \cup {c.index}) <= MaxReceived
    /\ decoder'  = DecoderToProto(AddChunk(DecoderFromProto(decoder), c))
    /\ received' = received \cup {c.index}
    /\ UNCHANGED <<message, encoder, emitted>>

Next == Emit \/ \E c \in emitted : Fold(c)

Spec == Init /\ [][Next]_vars

-----------------------------------------------------------------------------
\* Any sufficient set of chunks and no smaller one reassembles the message
\* (DecodedMessage): whatever their order and repetitions, before and after the encoder has
\* switched to polynomials, across the codec and past the wrap of the index, the
\* decoder answers as soon as it has seen as many different indices as the
\* longest polynomial has points, and what it answers is the message.  A chunk
\* index always stands for the same bytes (ChunkAt).
DecodesExactly ==
    LET d    == DecoderFromProto(decoder)
        need == necessaryPoints(d, 1)
    IN  /\ DecodedMessage(d) = IF Cardinality(received) >= need THEN message ELSE Nil
        /\ \A c1, c2 \in emitted : c1.index = c2.index => c1 = c2

\* The decoder's stored points stay bounded (AddChunk), however many chunks arrive.
DecoderBounded ==
    LET d == DecoderFromProto(decoder)
    IN  \A p \in 1 .. NumPolys : Len(d.pts[p]) <= 2 * necessaryPoints(d, p)
=============================================================================
