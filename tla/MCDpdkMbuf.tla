------------------------------ MODULE MCDpdkMbuf ------------------------------
(* Small instances of DpdkMbuf.                                              *)
EXTENDS DpdkMbuf

EchoPrograms == {pingpong, kvstore, zuc, pingpong_no_t, kvstore_no_t}
PingPong == {pingpong_no_t}
CountedPrograms == {counted}
===============================================================================
