---------------------------- MODULE MCNativeBridge ----------------------------
(***************************************************************************)
(* Three connections. The units are a P frame in one and in two pieces, one *)
(* that just fits the buffer, and an IDR frame with its parameter sets,    *)
(* for which the buffer has to grow.                                       *)
(***************************************************************************)
EXTENDS NativeBridge, SequencesExt

Param(bytes) == [param |-> TRUE, bytes |-> bytes]
Piece(bytes) == [param |-> FALSE, bytes |-> bytes]

MCUnits ==
    { << Piece(<<1>>) >>,
      << Piece(<<2>>), Piece(<<3>>) >>,
      << Param(<<4>>), Param(<<5, 6>>), Piece(<<7>>), Piece(<<8, 9>>) >> }

\* fullLength is the sum of the lengths of the buffers.
MCFullLength(u) == FoldSeq(LAMBDA b, n : n + Len(b.bytes), 0, u)
=============================================================================
