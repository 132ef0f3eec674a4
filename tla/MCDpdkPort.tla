------------------------------ MODULE MCDpdkPort ------------------------------
(* Small instances of DpdkPort.                                              *)
EXTENDS DpdkPort

AllPrograms ==
  {aggregate, reduce, histogram, filter, copy_to_host, copy_from_host, pingpong,
   kvstore, zuc, aggregate_no_t, reduce_no_t, histogram_no_t, filter_no_t,
   copy_to_host_no_t, copy_from_host_no_t, pingpong_no_t, kvstore_no_t,
   clock_overhead}
TwoLcores == 0 .. 1
===============================================================================
