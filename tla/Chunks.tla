------------------------------- MODULE Chunks -------------------------------
(***************************************************************************)
(* How a vector of n f32 elements is shared out among r GPUs, and a share   *)
(* among the workgroups of a kernel.  round_up4 and the chunk_off/chunk_len *)
(* closures of crates/mainarch-core/src/multigpu.rs, the owner index and    *)
(* the burst slices of kernels/mainarch_kernels.cl.                         *)
(*                                                                          *)
(* A share is rounded up to four elements so that every offset and staging  *)
(* slot stays 16-byte aligned.  The rounding can leave the last shares      *)
(* short, or empty.  u32 overflow needs n within 4 * r of 2^32 elements and *)
(* is left out.                                                             *)
(***************************************************************************)
EXTENDS Integers

Lesser(a, b) == IF a <= b THEN a ELSE b

CeilDiv(a, b) == (a + b - 1) \div b

FaultyRoundUp4(x) == x
RoundUp4(x) == 4 * ((x + 3) \div 4)

(* cl: the length of a share, and of a staging slot.                       *)
ChunkLength(n, r) == RoundUp4(CeilDiv(n, r))

(* Share c is [c * cl, c * cl + ChunkLen(c, cl, n)).                       *)
ChunkLen(c, cl, n) == IF c * cl >= n THEN 0 ELSE Lesser(cl, n - c * cl)

(* The owner of an element, as the kernels compute it.                     *)
Owner(pos, cl, r) == IF pos \div cl >= r THEN r - 1 ELSE pos \div cl

(* Is an element in share c?                                               *)
InChunk(pos, c, cl, n) ==
  c * cl <= pos /\ pos < c * cl + ChunkLen(c, cl, n)

(* Is element k of a share of len elements streamed by burst slot s of      *)
(* nslots?                                                                  *)
InBurst(k, s, nslots, len) ==
  LET per == CeilDiv(len, nslots)
  IN  s * per <= k /\ k < Lesser(s * per + per, len)

(* The shares of r GPUs partition n elements, the kernels' owner index     *)
(* names the share an element lies in, every share starts on a 16-byte     *)
(* boundary, and the staging slots of a vector of at most cap elements fit *)
(* the staging buffer sized for cap.                                       *)
SharesPartition(n, r, cap) ==
  LET cl == ChunkLength(n, r)
  IN  /\ \A pos \in 0..(n - 1) : \A c \in 0..(r - 1) :
           InChunk(pos, c, cl, n) <=> c = Owner(pos, cl, r)
      /\ \A c \in 0..(r - 1) : (c * cl) % 4 = 0
      /\ n <= cap => r * cl <= r * ChunkLength(cap, r)
=============================================================================
