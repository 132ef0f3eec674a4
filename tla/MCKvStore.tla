------------------------------- MODULE MCKvStore -------------------------------
(* A small instance of KvStore.  Under XDP the keys 0 and 1 share a set of two *)
(* elements and 2 has one to itself; under DPDK all three share one.           *)
EXTENDS KvStore, TLC

AllPrograms == {dpdk_kvstore, dpdk_kvstore_no_t, xdp_kvstore, xdp_kvstore_no_t}
SomeKeys == {0, 1, 2}
Symmetry == Permutations(Workers)
================================================================================
