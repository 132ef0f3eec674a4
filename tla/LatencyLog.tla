------------------------------ MODULE LatencyLog ------------------------------
(***************************************************************************)
(* The latency log of the timed DPDK programs: calc_latency() takes the     *)
(* write lock rwl, opens the results file for appending, stores the FILE    *)
(* pointer in wfptr, prints one line per packet through wfptr, closes wfptr *)
(* and releases the lock.  wfptr is one global variable that all lcores     *)
(* share; only the lock keeps an lcore from printing through, or closing,   *)
(* the FILE another lcore has just opened.                                  *)
(*                                                                          *)
(* A FILE object is named by the lcore whose fopen() returned it.           *)
(***************************************************************************)
EXTENDS Naturals

CONSTANTS
  Lcores,    (* the lcores that run lcore_main                              *)
  NoLcore    (* the lock is free / wfptr is NULL                            *)

ASSUME LcoreAssumption == NoLcore \notin Lcores

VARIABLES
  rwl,       (* the lcore that holds the write lock, or NoLcore             *)
  wfptr,     (* the FILE wfptr points to                                    *)
  opened,    (* the FILEs opened and not yet closed                         *)
  stage,     (* where each lcore is in calc_latency                         *)
  lines      (* lines printed through each FILE so far                      *)

logVars == <<rwl, wfptr, opened, stage, lines>>

Stages == {"out", "fopen", "fprintf", "unlock"}

LogTypeOK ==
  /\ rwl \in Lcores \cup {NoLcore}
  /\ wfptr \in Lcores \cup {NoLcore}
  /\ opened \in SUBSET Lcores
  /\ stage \in [Lcores -> Stages]
  /\ lines \in [Lcores -> Nat]

LogInit ==
  /\ rwl = NoLcore
  /\ wfptr = NoLcore
  /\ opened = {}
  /\ stage = [l \in Lcores |-> "out"]
  /\ lines = [l \in Lcores |-> 0]

-------------------------------------------------------------------------------
\* A bug: the file is opened whoever holds the lock.
write_lock_unguarded(l) ==
  /\ stage[l] = "out"
  /\ rwl' = l
  /\ stage' = [stage EXCEPT ![l] = "fopen"]
  /\ UNCHANGED <<wfptr, opened, lines>>

\* rte_rwlock_write_lock(rwl)
write_lock(l) ==
  /\ stage[l] = "out"
  /\ rwl = NoLcore
  /\ rwl' = l
  /\ stage' = [stage EXCEPT ![l] = "fopen"]
  /\ UNCHANGED <<wfptr, opened, lines>>

\* wfptr = fopen(F_WRITE, "a") succeeds.  When it fails calc_latency calls
\* exit(1), with the lock held: that ends the process, see the composing module.
open_log(l) ==
  /\ stage[l] = "fopen"
  /\ wfptr' = l
  /\ opened' = opened \cup {l}
  /\ stage' = [stage EXCEPT ![l] = "fprintf"]
  /\ UNCHANGED <<rwl, lines>>

\* A bug: the loop over the packets starts at 1.
print_all_but_first(l, nb_pkts) ==
  /\ stage[l] = "fprintf"
  /\ lines' = [lines EXCEPT ![wfptr] = @ + (nb_pkts - 1)]
  /\ opened' = opened \ {wfptr}
  /\ stage' = [stage EXCEPT ![l] = "unlock"]
  /\ UNCHANGED <<rwl, wfptr>>

\* The fprintf loop, one line per packet, and fclose: both go through whatever
\* wfptr holds now.
print_lines(l, nb_pkts) ==
  /\ stage[l] = "fprintf"
  /\ lines' = [lines EXCEPT ![wfptr] = @ + nb_pkts]
  /\ opened' = opened \ {wfptr}
  /\ stage' = [stage EXCEPT ![l] = "unlock"]
  /\ UNCHANGED <<rwl, wfptr>>

\* A bug: the lock is not released.
unlock_forgotten(l) ==
  /\ stage[l] = "unlock"
  /\ stage' = [stage EXCEPT ![l] = "out"]
  /\ UNCHANGED <<rwl, wfptr, opened, lines>>

\* rte_rwlock_write_unlock(rwl)
write_unlock(l) ==
  /\ stage[l] = "unlock"
  /\ rwl' = NoLcore
  /\ stage' = [stage EXCEPT ![l] = "out"]
  /\ UNCHANGED <<wfptr, opened, lines>>

-------------------------------------------------------------------------------
(***************************************************************************)
(* An lcore about to print and close does so through the FILE it opened     *)
(* itself, and that FILE is still open: no lcore prints through, or closes, *)
(* the FILE of another (calc_latency, the shared global wfptr).             *)
(***************************************************************************)
LogHandleOwned ==
  \A l \in Lcores : stage[l] = "fprintf" => wfptr = l /\ opened = {l}

\* The inductive strengthening: the lcore inside calc_latency is the one that
\* holds the lock, and a FILE is open only while its lcore is printing.
LogInv ==
  /\ LogTypeOK
  /\ \A l \in Lcores : stage[l] # "out" <=> rwl = l
  /\ LogHandleOwned
  /\ opened # {} => \E l \in Lcores : stage[l] = "fprintf"
===============================================================================
