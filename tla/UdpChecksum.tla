------------------------------ MODULE UdpChecksum ------------------------------
(***************************************************************************)
(* The checksum the XDP programs write into a packet they have changed,     *)
(* caludpcsum in helpers.c, and the check the receiver makes.               *)
(*                                                                          *)
(* The words of pseudo header, UDP header and payload are added in 32 bits, *)
(* which cannot overflow for MAX_UDP_SIZE bytes.  Only the two halves of    *)
(* that sum matter: hi and lo, in 0 .. W-1, where W is 2^16.                *)
(***************************************************************************)
EXTENDS Naturals

CONSTANT W

ASSUME WAssumption == W \in Nat /\ W > 2

Halves == 0 .. W - 1

\* The conversion to __u16 of a sum of two halves.
u16(x) == IF x >= W THEN x - W ELSE x

\* ~ of a __u16
not16(x) == W - 1 - x

\* csum = (__u16)csum_buffer + (__u16)(csum_buffer >> 16); csum = ~csum
caludpcsum(hi, lo) == not16(u16(lo + hi))

\* Addition with end-around carry.  external
OnesAdd(a, b) == IF a + b >= W THEN a + b - W + 1 ELSE a + b

\* The receiver adds all words, the checksum among them, and wants all ones; a
\* checksum of 0 means that there is none.  external
Verifies(hi, lo, csum) ==
  csum = 0 \/ OnesAdd(OnesAdd(lo, hi), csum) = W - 1
================================================================================
