--------------------------------- MODULE MCZuc ---------------------------------
(* A small instance of Zuc: payloads of ten words, two of them encrypted, a    *)
(* key of two words, and one round of initialisation.                          *)
EXTENDS Zuc, TLC

AllPrograms == {dpdk_zuc, pspin_zuc}
Symmetry == Permutations(Workers) \cup Permutations(Contents)
            \cup Permutations(Garbage)
================================================================================
