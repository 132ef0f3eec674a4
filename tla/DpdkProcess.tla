----------------------------- MODULE DpdkProcess -----------------------------
(***************************************************************************)
(* The life of a DPDK process, the same in all the programs: main() sets up *)
(* the EAL, the mbuf pool and the ports, launches lcore_main on every lcore *)
(* (its own included), waits for all of them and cleans up.  SIGINT and     *)
(* SIGTERM set force_quit, which every lcore reads at the top of its loop;  *)
(* rte_exit() or exit(1) in any lcore ends the whole process.               *)
(***************************************************************************)
EXTENDS LatencyLog

VARIABLES
  status,       (* "init", "running", "exited" (on an error), "cleaned"     *)
  force_quit,   (* set by the signal handler                                *)
  pc            (* where each lcore is in lcore_main                        *)

Statuses == {"init", "running", "exited", "cleaned"}

ProcessInit ==
  /\ status = "init"
  /\ force_quit = FALSE
  /\ pc = [l \in Lcores |-> "loop"]

At(l, at) == status = "running" /\ pc[l] = at
Goto(l, at) == pc' = [pc EXCEPT ![l] = at]

\* Everything main does up to the launch; port_init or an allocation may fail.
main_init ==
  /\ status = "init"
  /\ status' \in {"running", "exited"}
  /\ UNCHANGED <<force_quit, pc>>

\* rte_eal_mp_wait_lcore() returns when all lcores have; then rte_eal_cleanup().
main_wait ==
  /\ status = "running"
  /\ \A l \in Lcores : pc[l] = "done"
  /\ status' = "cleaned"
  /\ UNCHANGED <<force_quit, pc>>

signal_handler ==
  /\ status \in {"init", "running"}
  /\ ~force_quit
  /\ force_quit' = TRUE
  /\ UNCHANGED <<status, pc>>

\* while (!force_quit)
test_quit(l) ==
  /\ At(l, "loop")
  /\ Goto(l, IF force_quit THEN "done" ELSE "rx")
  /\ UNCHANGED <<status, force_quit>>

\* rte_exit() or exit(1)
Exit ==
  /\ status' = "exited"
  /\ UNCHANGED <<force_quit, pc>>
===============================================================================
