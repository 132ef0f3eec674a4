------------------------------- MODULE DpdkMbuf -------------------------------
(***************************************************************************)
(* Who owns the packet buffers.  An mbuf is in the shared pool (free, or    *)
(* waiting in an RX ring), or in the bufs[] array of an lcore, or in a TX   *)
(* ring until the device has sent it and puts it back into the pool.        *)
(*                                                                          *)
(* Two families of programs handle a burst differently after the packet     *)
(* loop:                                                                    *)
(*   echo    (pingpong, kvstore, zuc) sends the first nb_tx buffers of the  *)
(*           burst, nb_tx being the number of packets that passed the gate, *)
(*           and frees the buffers that were not sent;                      *)
(*   counted (aggregate, reduce, histogram, filter, copy_to_host,           *)
(*           copy_from_host) sends bufs[0] when a MiB is complete, ignores  *)
(*           what rte_eth_tx_burst returns and frees the whole burst.       *)
(*                                                                          *)
(* The timed echo programs log the latency in a TX callback, which          *)
(* rte_eth_tx_burst runs before it sends.                                   *)
(***************************************************************************)
EXTENDS Integers, DpdkProcess

CONSTANTS
  Mbufs,        (* the buffers of the pool                                  *)
  NoMbuf,       (* an array slot that holds no buffer                       *)
  BURST_SIZE,   (* the length of bufs[]                                     *)
  Programs,     (* the programs to consider                                 *)
  MaxRx         (* bound: packets received in one behaviour                 *)

ASSUME MbufAssumption ==
  /\ NoMbuf \notin Mbufs
  /\ BURST_SIZE \in Nat \ {0}
  /\ Programs \subseteq [family : {"echo", "counted"}, timed : BOOLEAN]
  /\ MaxRx \in Nat

(* The programs.  The counted ones log without touching a buffer, which      *)
(* DpdkCounted models.                                                       *)
pingpong      == [family |-> "echo", timed |-> TRUE]
kvstore       == [family |-> "echo", timed |-> TRUE]
zuc           == [family |-> "echo", timed |-> TRUE]
pingpong_no_t == [family |-> "echo", timed |-> FALSE]
kvstore_no_t  == [family |-> "echo", timed |-> FALSE]
counted       == [family |-> "counted", timed |-> FALSE]

VARIABLES
  prog,         (* the program that was started; never changes              *)
  pool,         (* how often each mbuf is in the pool                       *)
  txq,          (* how often each mbuf is in a TX ring                      *)
  good,         (* the packet in the mbuf passes the gate                   *)
  swapped,      (* the packet's addresses have been swapped                 *)
  bufs,         (* the array bufs of each lcore                             *)
  nb_rx,        (* packets of the burst                                     *)
  i,            (* the packet loop's index                                  *)
  nb_tx,        (* packets that passed the gate, then those to be sent      *)
  done,         (* buffers of the burst disposed of, sent or freed          *)
  rx,           (* packets received by the process (bound)                  *)
  passed        (* history: packets each lcore's gate let through           *)

Slots == 0 .. BURST_SIZE - 1
PCs == {"loop", "rx", "process", "callback", "tx", "free", "done"}

burstVars == <<bufs, nb_rx, i, nb_tx, done>>
mbufVars == <<pool, txq, good, swapped>>
restVars == <<prog, burstVars, mbufVars, rx, passed, logVars>>
vars == <<status, force_quit, pc, restVars>>

TypeOK ==
  /\ prog \in Programs
  /\ status \in Statuses
  /\ force_quit \in BOOLEAN
  /\ pc \in [Lcores -> PCs]
  /\ pool \in [Mbufs -> Nat]
  /\ txq \in [Mbufs -> Nat]
  /\ good \in [Mbufs -> BOOLEAN]
  /\ swapped \in [Mbufs -> BOOLEAN]
  /\ bufs \in [Lcores -> [Slots -> Mbufs \cup {NoMbuf}]]
  /\ nb_rx \in [Lcores -> 0 .. BURST_SIZE]
  /\ i \in [Lcores -> 0 .. BURST_SIZE]
  /\ nb_tx \in [Lcores -> 0 .. BURST_SIZE]
  /\ done \in [Lcores -> 0 .. BURST_SIZE]
  /\ rx \in 0 .. MaxRx
  /\ passed \in [Lcores -> Nat]
  /\ LogTypeOK

NoBurst == [s \in Slots |-> NoMbuf]

Init ==
  /\ prog \in Programs
  /\ ProcessInit
  /\ pool = [m \in Mbufs |-> 1]
  /\ txq = [m \in Mbufs |-> 0]
  /\ good = [m \in Mbufs |-> FALSE]
  /\ swapped = [m \in Mbufs |-> FALSE]
  /\ bufs = [l \in Lcores |-> NoBurst]
  /\ nb_rx = [l \in Lcores |-> 0]
  /\ i = [l \in Lcores |-> 0]
  /\ nb_tx = [l \in Lcores |-> 0]
  /\ done = [l \in Lcores |-> 0]
  /\ rx = 0
  /\ passed = [l \in Lcores |-> 0]
  /\ LogInit

-------------------------------------------------------------------------------
Start == main_init /\ UNCHANGED restVars
Finish == main_wait /\ UNCHANGED restVars
Signal == signal_handler /\ UNCHANGED restVars
Loop(l) == test_quit(l) /\ UNCHANGED restVars

\* A bug: one packet more than the array bufs holds.
rx_packet_one_more(l) ==
  /\ At(l, "rx")
  /\ nb_rx[l] <= BURST_SIZE
  /\ rx < MaxRx
  /\ rx' = rx + 1
  /\ \E m \in Mbufs, ok \in BOOLEAN :
       /\ pool[m] > 0
       /\ pool' = [pool EXCEPT ![m] = @ - 1]
       /\ good' = [good EXCEPT ![m] = ok]
       /\ swapped' = [swapped EXCEPT ![m] = FALSE]
       /\ bufs' = [bufs EXCEPT ![l] = [s \in DOMAIN @ \cup {nb_rx[l]} |->
                                         IF s = nb_rx[l] THEN m ELSE @[s]]]
  /\ nb_rx' = [nb_rx EXCEPT ![l] = @ + 1]
  /\ UNCHANGED <<prog, status, force_quit, pc, txq, i, nb_tx, done, passed, logVars>>

\* rte_eth_rx_burst: one more packet for bufs.  Its mbuf comes from the pool
\* and holds whatever the network sent.
rx_packet(l) ==
  /\ At(l, "rx")
  /\ nb_rx[l] < BURST_SIZE
  /\ rx < MaxRx
  /\ rx' = rx + 1
  /\ \E m \in Mbufs, ok \in BOOLEAN :
       /\ pool[m] > 0
       /\ pool' = [pool EXCEPT ![m] = @ - 1]
       /\ good' = [good EXCEPT ![m] = ok]
       /\ swapped' = [swapped EXCEPT ![m] = FALSE]
       /\ bufs' = [bufs EXCEPT ![l][nb_rx[l]] = m]
  /\ nb_rx' = [nb_rx EXCEPT ![l] = @ + 1]
  /\ UNCHANGED <<prog, status, force_quit, pc, txq, i, nb_tx, done, passed, logVars>>

\* rte_eth_rx_burst returns; if (nb_rx == 0) continue
rx_return(l) ==
  /\ At(l, "rx")
  /\ Goto(l, IF nb_rx[l] = 0 THEN "loop" ELSE "process")
  /\ UNCHANGED <<status, force_quit, restVars>>

\* One iteration of the packet loop.  An echo program swaps the addresses of a
\* packet that passes the gate and counts it in nb_tx.
process_packet(l) ==
  LET m == bufs[l][i[l]] IN
  /\ At(l, "process")
  /\ i[l] < nb_rx[l]
  /\ i' = [i EXCEPT ![l] = @ + 1]
  /\ IF good[m]
       THEN /\ nb_tx' = [nb_tx EXCEPT ![l] = @ + 1]
            /\ passed' = [passed EXCEPT ![l] = @ + 1]
            /\ swapped' = [swapped EXCEPT ![m] = (prog.family = "echo")]
       ELSE UNCHANGED <<nb_tx, passed, swapped>>
  /\ UNCHANGED <<prog, status, force_quit, pc, pool, txq, good, bufs, nb_rx, done,
                 rx, logVars>>

\* After the packet loop.  Echo: tx_burst(bufs, nb_tx), the callback first.
\* Counted: whether pkt_rec makes this the burst that is answered is left
\* open here; if it is, bufs[0] is swapped and tx_burst(bufs, 1).
process_done(l) ==
  /\ At(l, "process")
  /\ i[l] = nb_rx[l]
  /\ IF prog.family = "echo"
       THEN UNCHANGED <<nb_tx, swapped>>
       ELSE \E n \in {0, 1} :
              /\ nb_tx' = [nb_tx EXCEPT ![l] = n]
              /\ swapped' = IF n = 1 THEN [swapped EXCEPT ![bufs[l][0]] = ~@]
                                     ELSE swapped
  /\ Goto(l, IF prog.timed THEN "callback" ELSE "tx")
  /\ UNCHANGED <<prog, status, force_quit, pool, txq, good, bufs, nb_rx, i, done,
                 rx, passed, logVars>>

\* calc_latency as the TX callback: it logs the nb_pkts packets it is given.
log_step(l) ==
  /\ At(l, "callback")
  /\ write_lock(l) \/ open_log(l) \/ print_lines(l, nb_tx[l])
  /\ UNCHANGED <<prog, status, force_quit, pc, burstVars, mbufVars, rx, passed>>

log_done(l) ==
  /\ At(l, "callback")
  /\ write_unlock(l)
  /\ Goto(l, "tx")
  /\ UNCHANGED <<prog, status, force_quit, burstVars, mbufVars, rx, passed>>

log_exit(l) ==
  /\ At(l, "callback")
  /\ stage[l] = "fopen"
  /\ Exit
  /\ UNCHANGED restVars

\* rte_eth_tx_burst puts one more buffer into the TX ring ...
tx_packet(l) ==
  /\ At(l, "tx")
  /\ done[l] < nb_tx[l]
  /\ txq' = [txq EXCEPT ![bufs[l][done[l]]] = @ + 1]
  /\ done' = [done EXCEPT ![l] = @ + 1]
  /\ UNCHANGED <<prog, status, force_quit, pc, pool, good, swapped, bufs, nb_rx, i,
                 nb_tx, rx, passed, logVars>>

\* A bug: the free loop starts at 0 although buffers were sent.
tx_return_none_sent(l) ==
  /\ At(l, "tx")
  /\ done' = [done EXCEPT ![l] = 0]
  /\ Goto(l, "free")
  /\ UNCHANGED <<prog, status, force_quit, bufs, nb_rx, i, nb_tx, mbufVars, rx,
                 passed, logVars>>

\* ... and returns, with all of them sent or when the ring is full.  The free
\* loop starts at the first unsent buffer (echo) or at buffer 0 (counted).
tx_return(l) ==
  /\ At(l, "tx")
  /\ done' = [done EXCEPT ![l] = IF prog.family = "echo" THEN @ ELSE 0]
  /\ Goto(l, "free")
  /\ UNCHANGED <<prog, status, force_quit, bufs, nb_rx, i, nb_tx, mbufVars, rx,
                 passed, logVars>>

\* rte_pktmbuf_free(bufs[buf])
free_packet(l) ==
  /\ At(l, "free")
  /\ done[l] < nb_rx[l]
  /\ pool' = [pool EXCEPT ![bufs[l][done[l]]] = @ + 1]
  /\ done' = [done EXCEPT ![l] = @ + 1]
  /\ UNCHANGED <<prog, status, force_quit, pc, txq, good, swapped, bufs, nb_rx, i,
                 nb_tx, rx, passed, logVars>>

EndBurst(l) ==
  /\ bufs' = [bufs EXCEPT ![l] = NoBurst]
  /\ nb_rx' = [nb_rx EXCEPT ![l] = 0]
  /\ i' = [i EXCEPT ![l] = 0]
  /\ nb_tx' = [nb_tx EXCEPT ![l] = 0]
  /\ done' = [done EXCEPT ![l] = 0]
  /\ Goto(l, "loop")
  /\ UNCHANGED <<prog, status, force_quit, mbufVars, rx, passed, logVars>>

\* A bug: the unsent buffers are not freed.
free_done_unless_sent(l) ==
  /\ At(l, "free")
  /\ done[l] = nb_rx[l] \/ done[l] = nb_tx[l]
  /\ EndBurst(l)

\* The burst is dealt with.
free_done(l) ==
  /\ At(l, "free")
  /\ done[l] = nb_rx[l]
  /\ EndBurst(l)

\* The device has sent the packet and gives the buffer back.
nic_sent ==
  /\ status = "running"
  /\ \E m \in Mbufs :
       /\ txq[m] > 0
       /\ txq' = [txq EXCEPT ![m] = @ - 1]
       /\ pool' = [pool EXCEPT ![m] = @ + 1]
  /\ UNCHANGED <<prog, status, force_quit, pc, good, swapped, burstVars, rx,
                 passed, logVars>>

lcore_main(l) ==
  \/ Loop(l) \/ rx_packet(l) \/ rx_return(l)
  \/ process_packet(l) \/ process_done(l)
  \/ log_step(l) \/ log_done(l) \/ log_exit(l)
  \/ tx_packet(l) \/ tx_return(l) \/ free_packet(l) \/ free_done(l)

Terminated == status \in {"exited", "cleaned"} /\ UNCHANGED vars

Next ==
  \/ Start \/ Finish \/ Signal \/ nic_sent
  \/ \E l \in Lcores : lcore_main(l)
  \/ Terminated

Spec == Init /\ [][Next]_vars

(* The lcores are pinned threads that never block except on the spin lock,   *)
(* and main joins them.  Neither the signal nor the device is assumed fair.  *)
Fairness ==
  /\ WF_vars(Start) /\ WF_vars(Finish)
  /\ \A l \in Lcores : WF_vars(lcore_main(l))

FairSpec == Spec /\ Fairness

-------------------------------------------------------------------------------
(* Properties.                                                               *)

\* The slots of bufs whose buffers the lcore still has to send or free.
Owned(l) == done[l] .. nb_rx[l] - 1

\* How often a buffer is in the pool or in a TX ring.
GivenBack(m) == pool[m] + txq[m]

GivenBackOnce == \A m \in Mbufs : GivenBack(m) <= 1

OwnedIsOut ==
  \A l \in Lcores : \A s \in Owned(l) :
    bufs[l][s] \in Mbufs /\ GivenBack(bufs[l][s]) = 0

OwnedOnce ==
  \A k, l \in Lcores : \A r \in Owned(k), s \in Owned(l) :
    bufs[k][r] = bufs[l][s] => k = l /\ r = s

(***************************************************************************)
(* A buffer has one owner at a time: what is in the pool or in a TX ring is *)
(* there once, and nothing an lcore still has to send or free is in the     *)
(* pool, in a TX ring, or in another slot of this or another lcore's bufs   *)
(* (lcore_main of the echo programs, tx_burst and the free loop after it).  *)
(***************************************************************************)
ExclusiveOwner == GivenBackOnce /\ OwnedIsOut /\ OwnedOnce

(***************************************************************************)
(* No buffer is lost: one that is neither in the pool nor in a TX ring is   *)
(* one that some lcore has still to send or free (the free loop covers      *)
(* every slot of the burst that was not sent).                              *)
(***************************************************************************)
NoLeak ==
  \A m \in Mbufs :
    \/ GivenBack(m) > 0
    \/ \E l \in Lcores : \E s \in Owned(l) : bufs[l][s] = m

\* The strengthening that makes the two inductive: how the loop indices of a
\* burst relate in each phase of it, and that the callback is the only place
\* from which the log is written.
BurstOK(l) ==
  /\ pc[l] \in {"loop", "done"} => nb_rx[l] = 0
  /\ pc[l] \in {"loop", "done", "rx"} => i[l] = 0 /\ nb_tx[l] = 0
  /\ pc[l] \notin {"tx", "free"} => done[l] = 0
  /\ pc[l] = "process" => nb_tx[l] <= i[l] /\ i[l] <= nb_rx[l]
  /\ pc[l] \in {"process", "callback", "tx", "free"} => nb_rx[l] > 0
  /\ pc[l] \in {"callback", "tx"} => nb_tx[l] <= nb_rx[l]
  /\ pc[l] = "tx" => done[l] <= nb_tx[l]
  /\ done[l] <= nb_rx[l]
  /\ stage[l] # "out" => pc[l] = "callback"
  /\ \A s \in 0 .. nb_rx[l] - 1 : bufs[l][s] \in Mbufs

BurstInv == \A l \in Lcores : BurstOK(l)

\* Packets let through the gate for which the callback has no line yet.
Unlogged(l) ==
  IF \/ pc[l] = "process"
     \/ pc[l] = "callback" /\ stage[l] # "unlock"
    THEN nb_tx[l]
    ELSE 0

(***************************************************************************)
(* A timed echo program logs one line for every packet its gate let         *)
(* through, from the lcore that received it, whether or not the TX ring     *)
(* then had room for the packet (calc_latency as TX callback).              *)
(***************************************************************************)
EchoLogConserved ==
  \A l \in Lcores :
    lines[l] = IF prog.timed THEN passed[l] - Unlogged(l) ELSE 0

(***************************************************************************)
(* After a signal the process ends, and when it ends in order every buffer  *)
(* has been given back to the pool or to the device.                        *)
(***************************************************************************)
ShutdownReturnsMbufs ==
  force_quit ~> \/ status = "exited"
                \/ status = "cleaned" /\ \A m \in Mbufs : GivenBack(m) = 1

(***************************************************************************)
(* "Free all packets": a buffer the free loop has handed back is free, not  *)
(* still in a TX ring.                                                      *)
(***************************************************************************)
FreedIsFree == \A m \in Mbufs : pool[m] > 0 => txq[m] = 0

(***************************************************************************)
(* "Send the packet back": what goes into a TX ring is a packet that was    *)
(* processed, its addresses swapped.                                        *)
(***************************************************************************)
OnlyProcessedSent == \A m \in Mbufs : txq[m] > 0 => swapped[m]
===============================================================================
