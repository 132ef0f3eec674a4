------------------------------ MODULE DpdkCounted ------------------------------
(***************************************************************************)
(* The counting DPDK programs: aggregate, reduce, histogram, filter,        *)
(* copy_to_host, copy_from_host, each with latency measurement and without  *)
(* (X_no_t).  All twelve run the same lcore_main loop on every lcore:       *)
(*                                                                          *)
(*    while (!force_quit)                                                   *)
(*      for each port: receive a burst; for each packet that passes the     *)
(*        gate work on it word by word in host memory shared by all lcores; *)
(*        add the number of such packets to pkt_rec; log the latency; read  *)
(*        pkt_rec again and answer when it is a multiple of MiB/TOT_SIZE_B. *)
(*                                                                          *)
(* Every rte_atomic32 operation is one step; between two of them another    *)
(* lcore may run.  A packet's words are taken when the loop reaches the     *)
(* packet.  Who owns the mbufs meanwhile is the subject of DpdkMbuf.        *)
(***************************************************************************)
EXTENDS Integers, FiniteSetsExt, DpdkProcess

CONSTANTS
  NbPorts,      (* ports that RTE_ETH_FOREACH_DEV visits                    *)
  BURST_SIZE,   (* most packets of one rte_eth_rx_burst                     *)
  TOT_SIZE_B,   (* payload bytes a packet must carry to pass the gate       *)
  DATA_NR,      (* words of such a payload                                  *)
  HISTOG_NR,    (* elements of final_histog, and the largest key let through *)
  MSGS_PER_MiB, (* MiB/TOT_SIZE_B                                           *)
  INT_HALF,     (* T is a signed integer in -INT_HALF .. INT_HALF-1         *)
  Programs,     (* the programs to consider                                 *)
  Packets,      (* the packets the network may deliver                      *)
  MaxRx         (* bound: packets received in one behaviour                 *)

Kernels == {"aggregate", "reduce", "histogram", "filter", "copy_to_host",
            "copy_from_host"}
WordIndex == 0 .. DATA_NR - 1
T == -INT_HALF .. INT_HALF - 1
Payloads == [WordIndex -> T]

(* ipv4: the Ethernet type is IPv4; dgram_len: the UDP length field;         *)
(* filtered: the destination address is a key of the filter's hash table.    *)
PacketType == [ipv4 : BOOLEAN, dgram_len : 0 .. 65535, filtered : BOOLEAN,
               payload : Payloads]

ASSUME CountedAssumption ==
  /\ NbPorts \in Nat \ {0}
  /\ BURST_SIZE \in Nat \ {0}
  /\ TOT_SIZE_B \in Nat
  /\ DATA_NR \in Nat \ {0}
  /\ HISTOG_NR \in Nat \ {0}
  /\ MSGS_PER_MiB \in Nat \ {0}
  /\ INT_HALF \in Nat \ {0}
  /\ (2 * INT_HALF) % MSGS_PER_MiB = 0
  /\ Programs \subseteq [kernel : Kernels, timed : BOOLEAN]
  /\ Packets \subseteq PacketType
  /\ IsFiniteSet(Lcores) /\ IsFiniteSet(Packets)
  /\ MaxRx \in Nat

-------------------------------------------------------------------------------
(* What distinguishes the twelve programs.                                   *)
aggregate           == [kernel |-> "aggregate", timed |-> TRUE]
reduce              == [kernel |-> "reduce", timed |-> TRUE]
histogram           == [kernel |-> "histogram", timed |-> TRUE]
filter              == [kernel |-> "filter", timed |-> TRUE]
copy_to_host        == [kernel |-> "copy_to_host", timed |-> TRUE]
copy_from_host      == [kernel |-> "copy_from_host", timed |-> TRUE]
aggregate_no_t      == [kernel |-> "aggregate", timed |-> FALSE]
reduce_no_t         == [kernel |-> "reduce", timed |-> FALSE]
histogram_no_t      == [kernel |-> "histogram", timed |-> FALSE]
filter_no_t         == [kernel |-> "filter", timed |-> FALSE]
copy_to_host_no_t   == [kernel |-> "copy_to_host", timed |-> FALSE]
copy_from_host_no_t == [kernel |-> "copy_from_host", timed |-> FALSE]

VARIABLES
  prog,         (* the program that was started; never changes              *)
  port,         (* the port the lcore is serving                            *)
  left,         (* packets of the burst the packet loop has not seen yet    *)
  payload,      (* the words of the packet being processed                  *)
  word,         (* the word loop's index                                    *)
  res,          (* aggregate's local sum                                    *)
  nb_mng_rx,    (* packets of the burst that passed the gate                *)
  host,         (* the shared memory: aggregate_val, red_val, final_histog, *)
                (* copy_val                                                 *)
  pkt_rec,      (* the shared packet counter                                *)
  rx,           (* packets received by the process (bound)                  *)
  processed,    (* history: packets each lcore has worked on                *)
  seen          (* history: how often work on each payload was begun        *)

loopVars == <<port, left, payload, word, res, nb_mng_rx>>
hostVars == <<host, pkt_rec>>
histVars == <<processed, seen>>
vars == <<prog, status, force_quit, pc, loopVars, hostVars, rx, histVars,
          logVars>>

Cells == 0 .. (IF HISTOG_NR >= DATA_NR THEN HISTOG_NR ELSE DATA_NR) - 1
PCs == {"loop", "rx", "gate", "work", "latency", "check", "done"}
NoPayload == [k \in WordIndex |-> 0]
SeenPayloads == {p.payload : p \in Packets}

\* Two's complement arithmetic of rte_atomic32_t and of T.
wrap(x) == ((x + INT_HALF) % (2 * INT_HALF)) - INT_HALF

TypeOK ==
  /\ prog \in Programs
  /\ status \in Statuses \cup {"undefined"}
  /\ force_quit \in BOOLEAN
  /\ pc \in [Lcores -> PCs]
  /\ port \in [Lcores -> 1 .. NbPorts]
  /\ left \in [Lcores -> 0 .. BURST_SIZE]
  /\ payload \in [Lcores -> Payloads]
  /\ word \in [Lcores -> WordIndex]
  /\ res \in [Lcores -> T]
  /\ nb_mng_rx \in [Lcores -> 0 .. BURST_SIZE]
  /\ host \in [Cells -> T]
  /\ pkt_rec \in T
  /\ rx \in 0 .. MaxRx
  /\ processed \in [Lcores -> Nat]
  /\ seen \in [SeenPayloads -> Nat]
  /\ LogTypeOK

Init ==
  /\ prog \in Programs
  /\ ProcessInit
  /\ port = [l \in Lcores |-> 1]
  /\ left = [l \in Lcores |-> 0]
  /\ payload = [l \in Lcores |-> NoPayload]
  /\ word = [l \in Lcores |-> 0]
  /\ res = [l \in Lcores |-> 0]
  /\ nb_mng_rx = [l \in Lcores |-> 0]
  /\ host = [c \in Cells |-> 0]
  /\ pkt_rec = 0
  /\ rx = 0
  /\ processed = [l \in Lcores |-> 0]
  /\ seen = [p \in SeenPayloads |-> 0]
  /\ LogInit

-------------------------------------------------------------------------------
(* The gate in front of the work.                                            *)

\* uint16_t payload_size = ntohs(udp_h->dgram_len) - sizeof(struct rte_udp_hdr)
payload_size(p) == (p.dgram_len - 8) % 65536

\* IPv4, and a UDP payload of the right length; every other packet is skipped.
Meaningful(p) == p.ipv4 /\ payload_size(p) = TOT_SIZE_B

Lookup_failed(p) == prog.kernel = "filter" /\ ~p.filtered

-------------------------------------------------------------------------------
(* main() and the signal handler.                                            *)

restVars == <<prog, loopVars, hostVars, rx, histVars, logVars>>

Start == main_init /\ UNCHANGED restVars
Finish == main_wait /\ UNCHANGED restVars
Signal == signal_handler /\ UNCHANGED restVars

-------------------------------------------------------------------------------
(* lcore_main: the loops.                                                    *)

\* A bug: one port too many.
NextPort_one_more(l) ==
  /\ nb_mng_rx' = [nb_mng_rx EXCEPT ![l] = 0]
  /\ IF port[l] <= NbPorts
       THEN Goto(l, "rx") /\ port' = [port EXCEPT ![l] = @ + 1]
       ELSE Goto(l, "loop") /\ port' = [port EXCEPT ![l] = 1]

\* The next port of the same pass, or force_quit is read again.  The locals of
\* this iteration go out of scope.
NextPort(l) ==
  /\ nb_mng_rx' = [nb_mng_rx EXCEPT ![l] = 0]
  /\ IF port[l] < NbPorts
       THEN Goto(l, "rx") /\ port' = [port EXCEPT ![l] = @ + 1]
       ELSE Goto(l, "loop") /\ port' = [port EXCEPT ![l] = 1]

Loop(l) == test_quit(l) /\ UNCHANGED restVars

\* rte_eth_rx_burst finds nothing.
rx_nothing(l) ==
  /\ At(l, "rx")
  /\ NextPort(l)
  /\ UNCHANGED <<prog, status, force_quit, left, payload, word, res, hostVars,
                 rx, histVars, logVars>>

\* rte_eth_rx_burst returns nb_rx > 0 packets.
rx_burst(l) ==
  /\ At(l, "rx")
  /\ \E nb_rx \in 1 .. BURST_SIZE :
       /\ rx + nb_rx <= MaxRx
       /\ rx' = rx + nb_rx
       /\ left' = [left EXCEPT ![l] = nb_rx]
  /\ nb_mng_rx' = [nb_mng_rx EXCEPT ![l] = 0]
  /\ Goto(l, "gate")
  /\ UNCHANGED <<prog, status, force_quit, port, payload, word, res, hostVars,
                 histVars, logVars>>

\* A packet is not IPv4 or has the wrong length: continue.
skip_packet(l) ==
  /\ At(l, "gate")
  /\ left[l] > 0
  /\ \E p \in Packets : ~Meaningful(p)
  /\ left' = [left EXCEPT ![l] = @ - 1]
  /\ UNCHANGED <<prog, status, force_quit, pc, port, payload, word, res,
                 nb_mng_rx, hostVars, rx, histVars, logVars>>

Counted(l) ==
  /\ nb_mng_rx' = [nb_mng_rx EXCEPT ![l] = @ + 1]
  /\ processed' = [processed EXCEPT ![l] = @ + 1]
  /\ left' = [left EXCEPT ![l] = @ - 1]

\* filter: no match in the hash table.  The packet counts all the same.
filter_miss(l) ==
  /\ At(l, "gate")
  /\ left[l] > 0
  /\ \E p \in Packets : Meaningful(p) /\ Lookup_failed(p)
  /\ Counted(l)
  /\ UNCHANGED <<prog, status, force_quit, pc, port, payload, word, res, hostVars,
                 rx, seen, logVars>>

\* The packet passes: its word loop begins.
begin_packet(l) ==
  /\ At(l, "gate")
  /\ left[l] > 0
  /\ \E p \in Packets :
       /\ Meaningful(p) /\ ~Lookup_failed(p)
       /\ payload' = [payload EXCEPT ![l] = p.payload]
       /\ seen' = [seen EXCEPT ![p.payload] = @ + 1]
  /\ word' = [word EXCEPT ![l] = 0]
  /\ res' = [res EXCEPT ![l] = 0]
  /\ Goto(l, "work")
  /\ UNCHANGED <<prog, status, force_quit, port, left, nb_mng_rx, hostVars, rx,
                 processed, logVars>>

-------------------------------------------------------------------------------
(* The word loops.  Each iteration makes at most one atomic operation on     *)
(* the shared memory.                                                        *)

LastWord(l) == word[l] = DATA_NR - 1

\* The end of one iteration; after the last one the packet is counted.
NextWord(l) ==
  /\ IF LastWord(l)
       THEN Counted(l) /\ Goto(l, "gate") /\ UNCHANGED word
       ELSE /\ word' = [word EXCEPT ![l] = @ + 1]
            /\ UNCHANGED <<pc, nb_mng_rx, processed, left>>
  /\ UNCHANGED <<prog, status, port, pkt_rec, rx, seen, logVars>>

EndWord(l) == NextWord(l) /\ UNCHANGED force_quit

InLoop(l, kernel) == At(l, "work") /\ prog.kernel = kernel

\* A bug: the shared sum is updated before the last word is added to res.
aggregate_word_late(l) ==
  /\ InLoop(l, "aggregate")
  /\ res' = [res EXCEPT ![l] = wrap(@ + payload[l][word[l]])]
  /\ host' = IF LastWord(l) THEN [host EXCEPT ![0] = wrap(@ + res[l])] ELSE host
  /\ EndWord(l)
  /\ UNCHANGED payload

\* res += payload[i]; after the loop rte_atomic32_add(aggregate_val, res)
aggregate_word(l) ==
  /\ InLoop(l, "aggregate")
  /\ res' = [res EXCEPT ![l] = wrap(@ + payload[l][word[l]])]
  /\ host' = IF LastWord(l) THEN [host EXCEPT ![0] = wrap(@ + res'[l])] ELSE host
  /\ EndWord(l)
  /\ UNCHANGED payload

\* rte_atomic32_add(red_val[i], payload[i])
reduce_word(l) ==
  /\ InLoop(l, "reduce")
  /\ host' = [host EXCEPT ![word[l]] = wrap(@ + payload[l][word[l]])]
  /\ EndWord(l)
  /\ UNCHANGED <<payload, res>>

\* payload[i] > HISTOG_NR || payload[i] < 0
WrongKey(key) == key > HISTOG_NR \/ key < 0

\* rte_atomic32_add(&final_histog[key], 1)
histogram_word(l) ==
  /\ InLoop(l, "histogram")
  /\ payload[l][word[l]] \in 0 .. HISTOG_NR - 1
  /\ host' = [host EXCEPT ![payload[l][word[l]]] = wrap(@ + 1)]
  /\ EndWord(l)
  /\ UNCHANGED <<payload, res>>

\* The same atomic add for the key HISTOG_NR, which is not a wrong key: it goes to
\* the word behind final_histog.  Where the build put something the program no
\* longer looks at, nothing happens; where it put force_quit, the flag is set; where
\* it put wfptr, rwl or pkt_rec, a pointer is off by one and the model ends.
histogram_stray(l) ==
  /\ InLoop(l, "histogram")
  /\ payload[l][word[l]] = HISTOG_NR
  /\ \/ EndWord(l) /\ UNCHANGED <<host, payload, res>>
     \/ NextWord(l) /\ force_quit' = TRUE /\ UNCHANGED <<host, payload, res>>
     \/ status' = "undefined" /\ UNCHANGED <<force_quit, pc, restVars>>

\* rte_exit(EXIT_FAILURE, "Got a wrong key for histog"); what the packet's
\* earlier words added stays added.
histogram_exit(l) ==
  /\ InLoop(l, "histogram")
  /\ WrongKey(payload[l][word[l]])
  /\ Exit
  /\ UNCHANGED restVars

\* rte_atomic32_set(copy_val[i], payload[i])
copy_to_host_word(l) ==
  /\ InLoop(l, "copy_to_host")
  /\ host' = [host EXCEPT ![word[l]] = payload[l][word[l]]]
  /\ EndWord(l)
  /\ UNCHANGED <<payload, res>>

\* The same copy, for a packet whose address is in the hash table.
filter_word(l) ==
  /\ InLoop(l, "filter")
  /\ host' = [host EXCEPT ![word[l]] = payload[l][word[l]]]
  /\ EndWord(l)
  /\ UNCHANGED <<payload, res>>

\* payload[i] = rte_atomic32_read(copy_val[i])
copy_from_host_word(l) ==
  /\ InLoop(l, "copy_from_host")
  /\ payload' = [payload EXCEPT ![l][word[l]] = host[word[l]]]
  /\ EndWord(l)
  /\ UNCHANGED <<host, res>>

-------------------------------------------------------------------------------
(* lcore_main: after the packet loop.                                        *)

\* The packet loop's locals go out of scope.
DropPacket(l) ==
  /\ payload' = [payload EXCEPT ![l] = NoPayload]
  /\ word' = [word EXCEPT ![l] = 0]
  /\ res' = [res EXCEPT ![l] = 0]

\* A bug: rte_atomic32_set instead of rte_atomic32_add.
count_burst_overwriting(l) ==
  /\ At(l, "gate")
  /\ left[l] = 0
  /\ pkt_rec' = wrap(nb_mng_rx[l])
  /\ Goto(l, IF prog.timed /\ nb_mng_rx[l] # 0 THEN "latency" ELSE "check")
  /\ DropPacket(l)
  /\ UNCHANGED <<prog, status, force_quit, port, left, nb_mng_rx, host, rx,
                 processed, seen, logVars>>

\* rte_atomic32_add(pkt_rec, nb_mng_rx); if (nb_mng_rx != 0) calc_latency(...)
count_burst(l) ==
  /\ At(l, "gate")
  /\ left[l] = 0
  /\ pkt_rec' = wrap(pkt_rec + nb_mng_rx[l])
  /\ Goto(l, IF prog.timed /\ nb_mng_rx[l] # 0 THEN "latency" ELSE "check")
  /\ DropPacket(l)
  /\ UNCHANGED <<prog, status, force_quit, port, left, nb_mng_rx, host, rx,
                 processed, seen, logVars>>

\* calc_latency, up to the unlock.
log_step(l) ==
  /\ At(l, "latency")
  /\ write_lock(l) \/ open_log(l) \/ print_lines(l, nb_mng_rx[l])
  /\ UNCHANGED <<prog, status, force_quit, pc, loopVars, hostVars, rx, histVars>>

log_done(l) ==
  /\ At(l, "latency")
  /\ write_unlock(l)
  /\ Goto(l, "check")
  /\ UNCHANGED <<prog, status, force_quit, loopVars, hostVars, rx, histVars>>

\* fopen fails: exit(1)
log_exit(l) ==
  /\ At(l, "latency")
  /\ stage[l] = "fopen"
  /\ Exit
  /\ UNCHANGED restVars

\* pkt_rec is read anew; a multiple of MSGS_PER_MiB is answered with bufs[0].
\* Then the burst is freed and the next port served.
answer(l) ==
  /\ At(l, "check")
  /\ pkt_rec % MSGS_PER_MiB = 0
  /\ NextPort(l)
  /\ UNCHANGED <<prog, status, force_quit, left, payload, word, res, hostVars,
                 rx, histVars, logVars>>

no_answer(l) ==
  /\ At(l, "check")
  /\ pkt_rec % MSGS_PER_MiB # 0
  /\ NextPort(l)
  /\ UNCHANGED <<prog, status, force_quit, left, payload, word, res, hostVars,
                 rx, histVars, logVars>>

Work(l) ==
  \/ aggregate_word(l) \/ reduce_word(l) \/ histogram_word(l)
  \/ histogram_stray(l) \/ histogram_exit(l) \/ copy_to_host_word(l)
  \/ filter_word(l) \/ copy_from_host_word(l)

lcore_main(l) ==
  \/ Loop(l) \/ rx_nothing(l) \/ rx_burst(l)
  \/ skip_packet(l) \/ filter_miss(l) \/ begin_packet(l) \/ Work(l)
  \/ count_burst(l) \/ log_step(l) \/ log_done(l) \/ log_exit(l)
  \/ answer(l) \/ no_answer(l)

\* The process is gone, or nothing is known of it any more.
Ended == status \in {"exited", "cleaned", "undefined"}

Terminated == Ended /\ UNCHANGED vars

Next ==
  \/ Start \/ Finish \/ Signal
  \/ \E l \in Lcores : lcore_main(l)
  \/ Terminated

Spec == Init /\ [][Next]_vars

(* Each lcore is a pinned thread that never blocks except on the spin lock,  *)
(* and main joins them: all are scheduled.  The signal need not come.        *)
Fairness ==
  /\ WF_vars(Start) /\ WF_vars(Finish)
  /\ \A l \in Lcores : WF_vars(lcore_main(l))

FairSpec == Spec /\ Fairness

-------------------------------------------------------------------------------
(* Properties.                                                               *)

WordSum(p) == SumFunctionOnSet(p, WordIndex)

\* The lcores whose word loop has yet to reach word k of their packet.
Before(k) == {l \in Lcores : pc[l] = "work" /\ word[l] <= k}
Working == Before(DATA_NR - 1)

\* The cells that a summing kernel adds to.
SumCells ==
  CASE prog.kernel = "aggregate" -> {0}
    [] prog.kernel = "reduce" -> WordIndex
    [] prog.kernel = "histogram" -> 0 .. HISTOG_NR - 1
    [] OTHER -> {}

\* What a packet with the words p adds to cell c from its word `from' on.
Adds(p, from, c) ==
  CASE prog.kernel = "aggregate" -> WordSum(p)
    [] prog.kernel = "reduce" -> IF from <= c THEN p[c] ELSE 0
    [] prog.kernel = "histogram" ->
         Cardinality({k \in WordIndex : k >= from /\ p[k] = c})

\* What the packets in the middle of their word loop have still to add to cell c,
\* and what all the packets begun so far add to it.
Owed(c) == SumFunction([l \in Working |-> Adds(payload[l], word[l], c)])
Due(c) == SumFunction([p \in SeenPayloads |-> seen[p] * Adds(p, 0, c)])

\* The payloads whose word k some lcore has already worked on.
Written(k) ==
  {p \in SeenPayloads : seen[p] > Cardinality({l \in Before(k) : payload[l] = p})}

(***************************************************************************)
(* Whatever the lcores' steps interleave to, the shared memory holds what   *)
(* the packets worked on so far add up to, no update lost and none made     *)
(* twice: aggregate_val is the sum of all words, red_val[c] of the words c, *)
(* final_histog[c] the number of words c, less what the packets in the      *)
(* middle of their word loop have still to add (modulo 2^32).  The bins of  *)
(* final_histog are right even if keys went past its end, but those keys    *)
(* are in no bin.  copy_val[c] holds word c of some packet, and             *)
(* copy_from_host never writes it.                                          *)
(***************************************************************************)
HostExact ==
  CASE prog.kernel \in {"aggregate", "reduce", "histogram"} ->
         \A c \in SumCells : wrap(host[c] + Owed(c)) = wrap(Due(c))
    [] prog.kernel \in {"copy_to_host", "filter"} ->
         \A c \in WordIndex :
           IF Written(c) = {} THEN host[c] = 0
                              ELSE host[c] \in {p[c] : p \in Written(c)}
    [] prog.kernel = "copy_from_host" ->
         \A c \in WordIndex : host[c] = 0

\* Packets an lcore has worked on but not yet added to pkt_rec.
Pending(l) == IF pc[l] \in {"gate", "work"} THEN nb_mng_rx[l] ELSE 0

(***************************************************************************)
(* pkt_rec and the packets the lcores have yet to add to it make up all the *)
(* packets worked on, though every lcore adds whole bursts and the counter  *)
(* wraps around (rte_atomic32_add(pkt_rec, nb_mng_rx)).                     *)
(***************************************************************************)
CountConserved ==
  LET pending == SumFunction([l \in Lcores |-> Pending(l)])
  IN  pkt_rec = wrap(SumFunction(processed) - pending)

\* Packets an lcore has worked on but not yet printed a line for.
Unlogged(l) ==
  IF pc[l] \in {"gate", "work"} \/ (pc[l] = "latency" /\ stage[l] # "unlock")
    THEN nb_mng_rx[l]
    ELSE 0

(***************************************************************************)
(* The results file of a timed program gets exactly one line per packet,    *)
(* from the lcore that worked on it; the other programs print nothing       *)
(* (calc_latency).                                                          *)
(***************************************************************************)
LogConserved ==
  \A l \in Lcores :
    lines[l] = IF prog.timed THEN processed[l] - Unlogged(l) ELSE 0

(***************************************************************************)
(* After SIGINT or SIGTERM the process ends: no lcore is stuck behind the   *)
(* lock and main's rte_eal_mp_wait_lcore returns (unless a key wrote past   *)
(* the end of final_histog and spoiled the lock or the counter meanwhile).  *)
(***************************************************************************)
ShutdownCompletes == force_quit ~> Ended
===============================================================================
