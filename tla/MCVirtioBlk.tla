---------------------------- MODULE MCVirtioBlk -----------------------------
(***************************************************************************)
(* A disk of two sectors of two bytes in a file with one byte more, where  *)
(* u64 is 4 bits wide: sector 8 is the first whose address wraps.  u32 is  *)
(* 2 bits wide: a read of three bytes overflows the used length, the       *)
(* status included, and one of four is truncated to nothing.               *)
(***************************************************************************)
EXTENDS VirtioBlk

Request(type, sector, len, value) ==
    [type |-> type, sector |-> sector, len |-> len, value |-> value]

\* Reads of the whole disk, of all but a byte and of the last sector; writes of
\* the disk, of a sector, to a byte past the end and past the end of u64
MCRequests ==
    {Request("in", 0, 4, 0), Request("in", 0, 3, 0), Request("in", 1, 2, 0),
     Request("out", 0, 4, 1), Request("out", 1, 2, 0), Request("out", 1, 3, 1),
     Request("out", 8, 2, 1), Request("flush", 0, 0, 0),
     Request("unknown", 0, 0, 0), Request("malformed", 0, 0, 0)}
=============================================================================
