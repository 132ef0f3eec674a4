---------------------------- MODULE MCDpdkCounted ----------------------------
(* Small instances of DpdkCounted.                                           *)
EXTENDS DpdkCounted

Udp(len, match, w0, w1) ==
  [ipv4 |-> TRUE, dgram_len |-> len, filtered |-> match,
   payload |-> [k \in WordIndex |-> IF k = 0 THEN w0 ELSE w1]]

(* Two full packets: the first has the key 0 and the key HISTOG_NR, at both  *)
(* ends of the range that the histogram's check lets through, the second is  *)
(* not in the filter table and has a negative key after one in the range.    *)
(* The others stop at the gate: a datagram shorter than its own header, one  *)
(* a byte short, and a frame that is not IPv4.                               *)
MCPackets ==
  {Udp(1032, TRUE, 0, 2), Udp(1032, FALSE, 1, -1), Udp(7, TRUE, 0, 0),
   Udp(1031, TRUE, 0, 0), [Udp(1032, TRUE, 0, 0) EXCEPT !.ipv4 = FALSE]}

AllPrograms ==
  {aggregate, reduce, histogram, filter, copy_to_host, copy_from_host,
   aggregate_no_t, reduce_no_t, histogram_no_t, filter_no_t, copy_to_host_no_t,
   copy_from_host_no_t}
===============================================================================
