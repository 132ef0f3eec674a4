------------------------------- MODULE ZucArith -------------------------------
(***************************************************************************)
(* The arithmetic of zuc.h that does not depend on the key: addition modulo *)
(* 2^31-1 on the cells of the LFSR, and where the buffers of an HPU lie.    *)
(***************************************************************************)
EXTENDS Integers

CONSTANT H   (* 2^31 *)

ASSUME HAssumption == H \in Nat /\ H > 1

\* What a cell of the LFSR may hold: 31 bits.
Cells == 0 .. H - 1

\* c >> 31 and c & 0x7FFFFFFF for c < 2^32
TopBit(c) == IF c >= H THEN 1 ELSE 0
LowBits(c) == IF c >= H THEN c - H ELSE c

\* u32 c = a + b; return (c & 0x7FFFFFFF) + (c >> 31)
AddM(a, b) == LowBits(a + b) + TopBit(a + b)

\* The bytes of C and of the keystream z in the scratchpad, for a message of len
\* bytes: "we assume a max length of message payload of 1500 B".
CBytes(hpu, len) == 2 * 1500 * hpu .. 2 * 1500 * hpu + len - 1
ZBytes(hpu, len) == 2 * 1500 * hpu + 1500 .. 2 * 1500 * hpu + 1500 + len - 1
================================================================================
