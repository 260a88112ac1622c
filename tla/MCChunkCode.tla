---------------------------- MODULE MCChunkCode -----------------------------
EXTENDS ChunkCode

\* Field elements of three bits, as bytes of two bits and one: five of them, so
\* that the two polynomials have three points and two.
SmallMessages == {<<3, 1, 2, 0, 0, 1, 1, 1, 0, 0>>, <<0, 1, 3, 1, 3, 0, 2, 1, 1, 0>>}
=============================================================================
