----------------------------- MODULE MCXdpCounted -----------------------------
(* Small instances of XdpCounted.                                            *)
EXTENDS XdpCounted

Datagram(len, bytes, k, w0, w1) ==
  [udp |-> TRUE, dgram_len |-> len, room |-> bytes, to_port |-> TRUE, key |-> k,
   payload |-> [n \in WordIndex |-> IF n = 0 THEN w0 ELSE w1]]

(* Two full packets: one whose address is in the hash table and whose last   *)
(* word is the key just beyond rxhist, and one with an unknown address and a *)
(* key beyond the range after one inside it.  The others stop at the gate of *)
(* the counting programs: a datagram shorter than its own header in a padded *)
(* frame, one of ten bytes, padded and not, one a byte short, one whose      *)
(* frame is cut off, and one that is not UDP.                                *)
MCPackets ==
  {Datagram(1032, 1024, 31, 0, 1), Datagram(1032, 1024, 5, 0, 2),
   Datagram(7, 18, 0, 0, 0), Datagram(18, 18, 0, 0, 0),
   Datagram(18, 10, 0, 0, 0), Datagram(1031, 1023, 0, 0, 0),
   Datagram(1032, 1000, 0, 0, 0),
   [Datagram(1032, 1024, 0, 0, 0) EXCEPT !.udp = FALSE]}

AllPrograms ==
  {aggregate, reduce, histogram, filter, copy_to_host, copy_from_host,
   aggregate_no_t, reduce_no_t, histogram_no_t, filter_no_t, copy_to_host_no_t,
   copy_from_host_no_t, clock_overhead, baseline, ktime_call}
TimedAggregate == {aggregate}
===============================================================================
