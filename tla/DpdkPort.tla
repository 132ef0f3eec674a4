------------------------------- MODULE DpdkPort -------------------------------
(***************************************************************************)
(* How main() of a DPDK program brings up the ports before it launches the  *)
(* lcores.  port_init is called for each port in turn; it copies the global *)
(* port_conf, clears the global, adapts its copy to the device, and         *)
(* configures the device, its queues (one per lcore) and the callbacks.     *)
(* Any step but the last may fail, which ends the process; whether a        *)
(* callback could be added nobody looks at.                                 *)
(***************************************************************************)
EXTENDS Integers, FiniteSets

CONSTANTS
  PortCounts,   (* how many ports the machine may have                      *)
  LcoreIds,     (* what rte_lcore_id() returns on the lcores                *)
  MaxQueues,    (* the values dev_info.max_rx_queues may have               *)
  Programs      (* the programs to consider                                 *)

(* one_port: refuses to run on more than one; rx_cb, tx_cb: the callbacks    *)
(* registered on each queue; promisc: what the port is set to at the end.    *)
ASSUME PortAssumption ==
  /\ PortCounts \subseteq Nat \ {0}
  /\ LcoreIds \subseteq Nat /\ IsFiniteSet(LcoreIds)
  /\ MaxQueues \subseteq Nat \ {0}
  /\ Programs \subseteq [one_port : BOOLEAN, rx_cb : BOOLEAN, tx_cb : BOOLEAN,
                         promisc : BOOLEAN]

Timed(tx) == [one_port |-> FALSE, rx_cb |-> TRUE, tx_cb |-> tx, promisc |-> TRUE]
Untimed == [one_port |-> FALSE, rx_cb |-> FALSE, tx_cb |-> FALSE, promisc |-> TRUE]

(* What distinguishes the programs, as far as their set-up goes.             *)
aggregate           == Timed(FALSE)
reduce              == Timed(FALSE)
histogram           == Timed(FALSE)
filter              == Timed(FALSE)
copy_to_host        == Timed(FALSE)
copy_from_host      == Timed(FALSE)
clock_overhead      == Timed(FALSE)
pingpong            == Timed(TRUE)
kvstore             == Timed(TRUE)
zuc                 == [Timed(TRUE) EXCEPT !.one_port = TRUE, !.promisc = FALSE]
aggregate_no_t      == Untimed
reduce_no_t         == Untimed
histogram_no_t      == Untimed
filter_no_t         == Untimed
copy_to_host_no_t   == Untimed
copy_from_host_no_t == Untimed
pingpong_no_t       == Untimed
kvstore_no_t        == Untimed

VARIABLES
  prog,         (* the program that was started; never changes              *)
  nb_ports,     (* the ports are 0 .. nb_ports-1; never changes             *)
  at,           (* the next step of main or port_init                       *)
  portid,       (* the port being initialised                               *)
  q,            (* the loop index of the queue loops                        *)
  port_conf,    (* the global configuration                                 *)
  local_conf,   (* port_init's local_port_conf                              *)
  max_queues,   (* dev_info.max_rx_queues of the port being initialised     *)
  dev           (* the devices                                              *)

vars == <<prog, nb_ports, at, portid, q, port_conf, local_conf, max_queues, dev>>

(* mq_mode "rss" spreads the packets over the queues; "none" does not.       *)
Confs == [mq_mode : {"rss", "none"}, rss_hf : BOOLEAN]
rss_conf == [mq_mode |-> "rss", rss_hf |-> TRUE]
zero_conf == [mq_mode |-> "none", rss_hf |-> FALSE]

Ports == 0 .. nb_ports - 1

Steps == {"eal", "pool", "port", "info", "configure", "rxq", "txq", "start",
          "promisc", "callbacks", "launch", "running", "exited"}

core_que_nr == Cardinality(LcoreIds)

Queues == 0 .. core_que_nr - 1

\* A device: its state and configuration, the queues set up so far, the queues
\* with an RX and with a TX callback, and those for which the call that was to
\* add the callback returned NULL.
NoDev == [state |-> "stopped", conf |-> zero_conf, rxq |-> 0, txq |-> 0,
          rx_cb |-> {}, tx_cb |-> {}, rx_null |-> {}, tx_null |-> {},
          promisc |-> FALSE]
Devs == [state : {"stopped", "configured", "started"}, conf : Confs,
         rxq : 0 .. core_que_nr, txq : 0 .. core_que_nr,
         rx_cb : SUBSET Queues, tx_cb : SUBSET Queues,
         rx_null : SUBSET Queues, tx_null : SUBSET Queues,
         promisc : BOOLEAN]

TypeOK ==
  /\ prog \in Programs
  /\ nb_ports \in PortCounts
  /\ at \in Steps
  /\ portid \in 0 .. nb_ports
  /\ q \in 0 .. core_que_nr
  /\ port_conf \in Confs
  /\ local_conf \in Confs
  /\ max_queues \in MaxQueues \cup {0}
  /\ dev \in [Ports -> Devs]

Init ==
  /\ prog \in Programs
  /\ nb_ports \in PortCounts
  /\ at = "eal"
  /\ portid = 0
  /\ q = 0
  /\ port_conf = rss_conf
  /\ local_conf = rss_conf
  /\ max_queues = 0
  /\ dev = [p \in Ports |-> NoDev]

-------------------------------------------------------------------------------
(* rte_exit(EXIT_FAILURE, ...): some call of this step failed.  The calls    *)
(* that add callbacks have no such exit.                                     *)
fail ==
  /\ at \notin {"callbacks", "running", "exited"}
  /\ at' = "exited"
  /\ UNCHANGED <<prog, nb_ports, portid, q, port_conf, local_conf, max_queues, dev>>

\* rte_eal_init, the signal handlers, the number of ports (zuc only).
main_eal ==
  /\ at = "eal"
  /\ prog.one_port => nb_ports = 1
  /\ at' = "pool"
  /\ UNCHANGED <<prog, nb_ports, portid, q, port_conf, local_conf, max_queues, dev>>

\* rte_pktmbuf_pool_create, then the first port.
main_pool ==
  /\ at = "pool"
  /\ at' = "port"
  /\ UNCHANGED <<prog, nb_ports, portid, q, port_conf, local_conf, max_queues, dev>>

\* local_port_conf = port_conf; memset(&port_conf, 0, ...)
port_copy ==
  /\ at = "port"
  /\ local_conf' = port_conf
  /\ port_conf' = zero_conf
  /\ at' = "info"
  /\ UNCHANGED <<prog, nb_ports, portid, q, max_queues, dev>>

\* rte_eth_dev_info_get; the copy is adapted to what the device can do.
port_info ==
  /\ at = "info"
  /\ \E max \in MaxQueues, hf \in BOOLEAN :
       /\ max_queues' = max
       /\ local_conf' = [mq_mode |-> IF max = 1 THEN "none" ELSE local_conf.mq_mode,
                         rss_hf |-> local_conf.rss_hf /\ hf]
  /\ at' = "configure"
  /\ UNCHANGED <<prog, nb_ports, portid, q, port_conf, dev>>

\* A bug: the configuration passed is the local copy.
port_configure_local ==
  /\ at = "configure"
  /\ core_que_nr <= max_queues
  /\ dev' = [dev EXCEPT ![portid] =
               [@ EXCEPT !.state = "configured", !.conf = local_conf]]
  /\ q' = 0
  /\ at' = "rxq"
  /\ UNCHANGED <<prog, nb_ports, portid, port_conf, local_conf, max_queues>>

\* rte_eth_dev_configure(port, rx_rings, tx_rings, &port_conf), which refuses
\* more rings than the device has; rte_eth_dev_adjust_nb_rx_tx_desc.
port_configure ==
  /\ at = "configure"
  /\ core_que_nr <= max_queues
  /\ dev' = [dev EXCEPT ![portid] =
               [@ EXCEPT !.state = "configured", !.conf = port_conf]]
  /\ q' = 0
  /\ at' = "rxq"
  /\ UNCHANGED <<prog, nb_ports, portid, port_conf, local_conf, max_queues>>

\* A bug: the loop starts at queue 1.
port_rxq_skip_first ==
  /\ at = "rxq"
  /\ IF q < core_que_nr - 1
       THEN /\ dev' = [dev EXCEPT ![portid].rxq = @ + 1]
            /\ q' = q + 1
            /\ UNCHANGED at
       ELSE q' = 0 /\ at' = "txq" /\ UNCHANGED dev
  /\ UNCHANGED <<prog, nb_ports, portid, port_conf, local_conf, max_queues>>

\* for (q = 0; q < rx_rings; q++) rte_eth_rx_queue_setup(port, q, ...)
port_rxq ==
  /\ at = "rxq"
  /\ IF q < core_que_nr
       THEN /\ dev' = [dev EXCEPT ![portid].rxq = @ + 1]
            /\ q' = q + 1
            /\ UNCHANGED at
       ELSE q' = 0 /\ at' = "txq" /\ UNCHANGED dev
  /\ UNCHANGED <<prog, nb_ports, portid, port_conf, local_conf, max_queues>>

\* A bug: the bound of the loop is one too large.
port_txq_one_more ==
  /\ at = "txq"
  /\ IF q <= core_que_nr
       THEN /\ dev' = [dev EXCEPT ![portid].txq = @ + 1]
            /\ q' = q + 1
            /\ UNCHANGED at
       ELSE q' = 0 /\ at' = "start" /\ UNCHANGED dev
  /\ UNCHANGED <<prog, nb_ports, portid, port_conf, local_conf, max_queues>>

\* for (q = 0; q < tx_rings; q++) rte_eth_tx_queue_setup(port, q, ...)
port_txq ==
  /\ at = "txq"
  /\ IF q < core_que_nr
       THEN /\ dev' = [dev EXCEPT ![portid].txq = @ + 1]
            /\ q' = q + 1
            /\ UNCHANGED at
       ELSE q' = 0 /\ at' = "start" /\ UNCHANGED dev
  /\ UNCHANGED <<prog, nb_ports, portid, port_conf, local_conf, max_queues>>

\* rte_eth_dev_start
port_start ==
  /\ at = "start"
  /\ dev' = [dev EXCEPT ![portid].state = "started"]
  /\ at' = "promisc"
  /\ UNCHANGED <<prog, nb_ports, portid, q, port_conf, local_conf, max_queues>>

\* rte_eth_promiscuous_enable (zuc: _disable)
port_promisc ==
  /\ at = "promisc"
  /\ dev' = [dev EXCEPT ![portid].promisc = prog.promisc]
  /\ at' = "callbacks"
  /\ UNCHANGED <<prog, nb_ports, portid, q, port_conf, local_conf, max_queues>>

NextPort ==
  /\ q' = 0
  /\ portid' = portid + 1
  /\ at' = IF portid + 1 < nb_ports THEN "port" ELSE "launch"
  /\ UNCHANGED dev

\* rte_eth_add_rx_callback(port, q, ...), rte_eth_add_tx_callback(port, q, ...):
\* each returns NULL when it cannot add the callback (rx, tx: it can).
AddCallbacks(d, rx, tx) ==
  LET asked == IF prog.tx_cb THEN {q} ELSE {} IN
  [d EXCEPT !.rx_cb = IF rx THEN @ \cup {q} ELSE @,
            !.rx_null = IF rx THEN @ ELSE @ \cup {q},
            !.tx_cb = IF tx THEN @ \cup asked ELSE @,
            !.tx_null = IF tx THEN @ ELSE @ \cup asked]

\* A bug: the callback is only added to queue 0.
port_callbacks_first_only ==
  /\ at = "callbacks"
  /\ IF q < 1 /\ prog.rx_cb
       THEN /\ \E rx, tx \in BOOLEAN :
                 dev' = [dev EXCEPT ![portid] = AddCallbacks(@, rx, tx)]
            /\ q' = q + 1
            /\ UNCHANGED <<at, portid>>
       ELSE NextPort
  /\ UNCHANGED <<prog, nb_ports, port_conf, local_conf, max_queues>>

\* The callbacks of one queue after the other, whatever the calls return; the
\* loop is missing in the programs without timing.  Then port_init returns 0.
port_callbacks ==
  /\ at = "callbacks"
  /\ IF q < core_que_nr /\ prog.rx_cb
       THEN /\ \E rx, tx \in BOOLEAN :
                 dev' = [dev EXCEPT ![portid] = AddCallbacks(@, rx, tx)]
            /\ q' = q + 1
            /\ UNCHANGED <<at, portid>>
       ELSE NextPort
  /\ UNCHANGED <<prog, nb_ports, port_conf, local_conf, max_queues>>

\* The shared memory is allocated and lcore_main launched on every lcore.
main_launch ==
  /\ at = "launch"
  /\ at' = "running"
  /\ UNCHANGED <<prog, nb_ports, portid, q, port_conf, local_conf, max_queues, dev>>

Finished == at \in {"running", "exited"} /\ UNCHANGED vars

Next ==
  \/ fail \/ main_eal \/ main_pool
  \/ port_copy \/ port_info \/ port_configure \/ port_rxq \/ port_txq
  \/ port_start \/ port_promisc \/ port_callbacks
  \/ main_launch \/ Finished

Spec == Init /\ [][Next]_vars

-------------------------------------------------------------------------------
(* Properties.                                                               *)

(***************************************************************************)
(* When the lcores run, every port is started and has the RX and the TX     *)
(* queue that each lcore uses, the one numbered rte_lcore_id().             *)
(***************************************************************************)
PolledQueueReady ==
  at = "running" =>
    \A p \in Ports, l \in LcoreIds :
      /\ dev[p].state = "started"
      /\ l < dev[p].rxq
      /\ l < dev[p].txq

(***************************************************************************)
(* When the lcores of a timed program run, the queue that an lcore polls    *)
(* lacks the callback that takes the time of arrival, or an echo program's  *)
(* callback that logs, only if the call to add it returned NULL, which      *)
(* port_init does not look at: the loops leave no queue of no port out, and *)
(* a program without timing has callbacks nowhere.                          *)
(***************************************************************************)
MissingCallbackRefused ==
  at = "running" =>
    \A p \in Ports, l \in LcoreIds :
      /\ prog.rx_cb <=> l \in dev[p].rx_cb \cup dev[p].rx_null
      /\ prog.rx_cb /\ prog.tx_cb <=> l \in dev[p].tx_cb \cup dev[p].tx_null

(***************************************************************************)
(* All ports are configured alike, although port_init clears the global     *)
(* configuration that its next call copies.                                 *)
(***************************************************************************)
PortsAlike ==
  \A p, r \in Ports :
    dev[p].state # "stopped" /\ dev[r].state # "stopped" => dev[p].conf = dev[r].conf

(***************************************************************************)
(* "Copy predefined port conf with RSS": a started port that has more than  *)
(* one queue spreads the packets over them.                                 *)
(***************************************************************************)
RssConfigured ==
  \A p \in Ports :
    dev[p].state = "started" /\ core_que_nr > 1 => dev[p].conf.mq_mode = "rss"
===============================================================================
