------------------------------ MODULE XdpCounted ------------------------------
(***************************************************************************)
(* The counting XDP programs: aggregate, reduce, histogram, filter,         *)
(* copy_to_host, copy_from_host, timed and _no_t, the clock_overhead copy   *)
(* of aggregate, and baseline and ktime_call, which only stamp packets.     *)
(* The kernel runs the attached program for every packet, on the CPU that   *)
(* received it, one packet at a time per CPU.  All CPUs work on the same    *)
(* BPF maps.                                                                *)
(*                                                                          *)
(* Each access to a map is one step: the word loop's updates, the           *)
(* __sync_fetch_and_add on the packet counter and, after it, the separate   *)
(* read of the counter that decides whether the packet is sent back.        *)
(***************************************************************************)
EXTENDS FiniteSetsExt, XdpLoader

CONSTANTS
  Cpus,         (* the CPUs that receive packets                            *)
  TOT_SIZE_B,   (* payload bytes a packet must carry to pass the gate       *)
  DATA_NR,      (* words of such a payload                                  *)
  HISTOG_NR,    (* entries of rxhist                                        *)
  MSGS_PER_MiB, (* MiB/TOT_SIZE_B                                           *)
  INT_HALF,     (* T is a signed integer in -INT_HALF .. INT_HALF-1         *)
  BYTE,         (* values of a byte: 256, less in small instances           *)
  Programs,     (* the programs to consider                                 *)
  Packets,      (* the packets the network may deliver                      *)
  MaxRx         (* bound: packets received in one behaviour                 *)

Kernels == {"aggregate", "reduce", "histogram", "filter", "copy_to_host",
            "copy_from_host", "baseline"}
WordIndex == 0 .. DATA_NR - 1
T == -INT_HALF .. INT_HALF - 1
Payloads == [WordIndex -> T]
U16 == 0 .. 65535

(* udp: long enough for the three headers and protocol UDP; dgram_len: the   *)
(* UDP length field; room: the bytes the frame really has behind the UDP     *)
(* header, more than dgram_len says in a padded frame, fewer in a cut one;   *)
(* to_port: sent to the loader's port; key: ntohs(ip->daddr).                *)
PacketType == [udp : BOOLEAN, dgram_len : U16, room : U16, to_port : BOOLEAN,
               key : U16, payload : Payloads]

(* rest: what becomes of a packet that is not sent back.  A payload has 256   *)
(* words (1024 bytes of int32_t), as many as a byte has values.              *)
ASSUME XdpAssumption ==
  /\ TOT_SIZE_B \in Nat /\ DATA_NR \in Nat \ {0} /\ HISTOG_NR \in Nat \ {0}
  /\ MSGS_PER_MiB \in Nat \ {0} /\ INT_HALF \in Nat \ {0, 1} /\ BYTE \in Nat \ {0}
  /\ (2 * INT_HALF) % MSGS_PER_MiB = 0
  /\ DATA_NR <= BYTE /\ BYTE <= 256
  /\ Programs \subseteq [kernel : Kernels, rest : {"stamp", "drop", "pass"}]
  /\ Packets \subseteq PacketType
  /\ IsFiniteSet(Cpus) /\ IsFiniteSet(Packets)
  /\ MaxRx \in Nat

-------------------------------------------------------------------------------
(* What distinguishes the fifteen programs.                                  *)
aggregate           == [kernel |-> "aggregate", rest |-> "stamp"]
reduce              == [kernel |-> "reduce", rest |-> "stamp"]
histogram           == [kernel |-> "histogram", rest |-> "stamp"]
filter              == [kernel |-> "filter", rest |-> "stamp"]
copy_to_host        == [kernel |-> "copy_to_host", rest |-> "stamp"]
copy_from_host      == [kernel |-> "copy_from_host", rest |-> "stamp"]
aggregate_no_t      == [kernel |-> "aggregate", rest |-> "drop"]
reduce_no_t         == [kernel |-> "reduce", rest |-> "pass"]
histogram_no_t      == [kernel |-> "histogram", rest |-> "pass"]
filter_no_t         == [kernel |-> "filter", rest |-> "pass"]
copy_to_host_no_t   == [kernel |-> "copy_to_host", rest |-> "pass"]
copy_from_host_no_t == [kernel |-> "copy_from_host", rest |-> "pass"]
clock_overhead      == [kernel |-> "aggregate", rest |-> "stamp"]
baseline            == [kernel |-> "baseline", rest |-> "stamp"]
ktime_call          == [kernel |-> "baseline", rest |-> "stamp"]

VARIABLES
  prog,         (* the program the loader attaches; never changes           *)
  pc,           (* where each CPU is in the program                         *)
  pkt,          (* the packet each CPU is working on                        *)
  word,         (* the word loop's index                                    *)
  host,         (* the array map: rxaggr, rxred, rxhist, rxfilter, rxcptoh  *)
  hm,           (* the keys of hmfilter                                     *)
  nr_pkt,       (* rxpkt[0], the packet counter                             *)
  filled,       (* insertions fill_htable has made / rxcptoh initialised    *)
  rx,           (* packets received (bound)                                 *)
  worked,       (* history: packets whose work was completed                *)
  seen,         (* history: how often work on each payload was begun        *)
  total,        (* history: nr_pkt as an unbounded number                   *)
  answers       (* history: packets sent back at each value of total        *)

cpuVars == <<pc, pkt, word>>
mapVars == <<host, hm, nr_pkt>>
histVars == <<worked, seen, total, answers>>
vars == <<prog, cpuVars, mapVars, filled, rx, histVars, loaderVars>>

Cells == 0 .. (IF HISTOG_NR >= DATA_NR THEN HISTOG_NR ELSE DATA_NR) - 1
PCs == {"idle", "work", "count", "check"}
SeenPayloads == {p.payload : p \in Packets}
NoPacket == [udp |-> FALSE, dgram_len |-> 0, room |-> 0, to_port |-> FALSE,
             key |-> 0, payload |-> [k \in WordIndex |-> 0]]

\* Two's complement arithmetic of T.
wrap(x) == ((x + INT_HALF) % (2 * INT_HALF)) - INT_HALF

\* hash = hash * 31 + byte, for the two bytes of the key, the low one first.
hashmult(key) == ((key % BYTE) * 31 + key \div BYTE) % 65536
HASH_ENTRIES == BYTE * BYTE
HashKeys == {hashmult(n) : n \in 0 .. HASH_ENTRIES - 1}

TypeOK ==
  /\ prog \in Programs
  /\ pc \in [Cpus -> PCs]
  /\ pkt \in [Cpus -> PacketType]
  /\ word \in [Cpus -> WordIndex]
  /\ host \in [Cells -> T]
  /\ hm \in SUBSET U16
  /\ nr_pkt \in T
  /\ filled \in 0 .. HASH_ENTRIES
  /\ rx \in 0 .. MaxRx
  /\ worked \in [Cpus -> Nat]
  /\ seen \in [SeenPayloads -> Nat]
  /\ total \in 0 .. MaxRx
  /\ answers \in [0 .. MaxRx -> Nat]
  /\ LoaderTypeOK

Init ==
  /\ prog \in Programs
  /\ pc = [c \in Cpus |-> "idle"]
  /\ pkt = [c \in Cpus |-> NoPacket]
  /\ word = [c \in Cpus |-> 0]
  /\ host = [k \in Cells |-> 0]
  /\ hm = {}
  /\ nr_pkt = 0
  /\ filled = 0
  /\ rx = 0
  /\ worked = [c \in Cpus |-> 0]
  /\ seen = [p \in SeenPayloads |-> 0]
  /\ total = 0
  /\ answers = [n \in 0 .. MaxRx |-> 0]
  /\ LoaderInit

-------------------------------------------------------------------------------
(* The loader, and what it writes into the maps before it listens.           *)

timed == prog.rest = "stamp"
kernelVars == <<prog, cpuVars, rx, histVars>>

\* The loaders prepare the maps of filter and copy_from_host after attaching,
\* the timed ones after binding the socket.
Preparing == loader = (IF timed THEN "bound" ELSE "attached")
\* A bug: waiting for one insertion too many.
Prepared_one_more ==
  CASE prog.kernel = "filter" -> filled = HASH_ENTRIES + 1
    [] prog.kernel = "copy_from_host" -> filled = 1
    [] OTHER -> TRUE

Prepared == CASE prog.kernel = "filter" -> filled = HASH_ENTRIES
              [] prog.kernel = "copy_from_host" -> filled = 1
              [] OTHER -> TRUE

Attach == main_attach /\ UNCHANGED <<kernelVars, mapVars, filled>>
Bind == timed /\ poll_stats_bind /\ UNCHANGED <<kernelVars, mapVars, filled>>
Listen == Prepared /\ poll_stats_listen /\ UNCHANGED <<kernelVars, mapVars, filled>>

\* One insertion of the loop over the hash table's entries.
fill_htable ==
  /\ prog.kernel = "filter"
  /\ Preparing
  /\ filled < HASH_ENTRIES
  /\ hm' = hm \cup {hashmult(filled)}
  /\ filled' = filled + 1
  /\ UNCHANGED <<kernelVars, host, nr_pkt, loaderVars>>

\* copy_from_host: bpf_map_update_elem(map_fd, 0, 1)
init_map ==
  /\ prog.kernel = "copy_from_host"
  /\ Preparing
  /\ filled = 0
  /\ host' = [host EXCEPT ![0] = 1]
  /\ filled' = 1
  /\ UNCHANGED <<kernelVars, hm, nr_pkt, loaderVars>>

poll_stats ==
  /\ \E k \in Kinds : recvfrom(k)
  /\ UNCHANGED <<kernelVars, mapVars, filled>>

LoaderExit == int_exit /\ UNCHANGED <<kernelVars, mapVars, filled>>

-------------------------------------------------------------------------------
(* The program: the gate.                                                    *)

\* unsigned int payload_size = ntohs(udp->len) - sizeof(*udp): a length below
\* the header's wraps around to a huge value (2^30 stands for 2^32).
payload_size(p) == (p.dgram_len - 8) % 1073741824

fits(p) == payload_size(p) <= p.room

\* A bug: baseline and ktime_call are built with the gate of the others.
Gate_exact(p) == p.udp /\ payload_size(p) = TOT_SIZE_B /\ fits(p)

\* The counting programs demand a payload of TOT_SIZE_B bytes; baseline and
\* ktime_call room for two times in the frame, whatever the datagram's length.
Gate(p) ==
  /\ p.udp
  /\ IF prog.kernel = "baseline" THEN p.room >= 16
                                 ELSE payload_size(p) = TOT_SIZE_B /\ fits(p)

At(c, at) == pc[c] = at
Goto(c, at) == pc' = [pc EXCEPT ![c] = at]

\* The program ends for this packet.
Return(c) ==
  /\ Goto(c, "idle")
  /\ pkt' = [pkt EXCEPT ![c] = NoPacket]
  /\ word' = [word EXCEPT ![c] = 0]

\* XDP_PASS of a packet: the stack hands a sound datagram to the socket.
PassAs(p, kind) ==
  IF p.udp /\ p.to_port /\ fits(p) /\ p.dgram_len >= 8
    THEN deliver(IF p.dgram_len - 8 >= 16 THEN kind ELSE "short")
    ELSE UNCHANGED loaderVars

\* XDP_PASS of a packet nothing was written to.
PassUp(p) == PassAs(p, "raw")

\* A packet that does not pass the gate.
pass_packet(c) ==
  /\ attached
  /\ At(c, "idle")
  /\ rx < MaxRx
  /\ rx' = rx + 1
  /\ \E p \in Packets : ~Gate(p) /\ PassUp(p)
  /\ UNCHANGED <<prog, cpuVars, mapVars, filled, histVars>>

\* baseline and ktime_call touch no map: the two times are written over the
\* first 16 bytes of the frame's payload and the packet is passed up.
stamp_packet(c) ==
  /\ attached
  /\ prog.kernel = "baseline"
  /\ At(c, "idle")
  /\ rx < MaxRx
  /\ rx' = rx + 1
  /\ \E p \in Packets : Gate(p) /\ PassAs(p, "stamped")
  /\ UNCHANGED <<prog, cpuVars, mapVars, filled, histVars>>

\* A packet for the others.  filter first looks up its address: without a match
\* there is nothing to do but to count the packet.
begin_packet(c) ==
  /\ attached
  /\ prog.kernel # "baseline"
  /\ At(c, "idle")
  /\ rx < MaxRx
  /\ rx' = rx + 1
  /\ \E p \in Packets :
       LET miss == prog.kernel = "filter" /\ p.key \notin hm IN
       /\ Gate(p)
       /\ pkt' = [pkt EXCEPT ![c] = p]
       /\ Goto(c, IF miss THEN "count" ELSE "work")
       /\ worked' = [worked EXCEPT ![c] = IF miss THEN @ + 1 ELSE @]
       /\ seen' = [seen EXCEPT ![p.payload] = IF miss THEN @ ELSE @ + 1]
  /\ UNCHANGED <<prog, word, mapVars, filled, total, answers, loaderVars>>

-------------------------------------------------------------------------------
(* The word loops.                                                           *)

InLoop(c, kernel) == At(c, "work") /\ prog.kernel = kernel
Word(c) == pkt[c].payload[word[c]]

WorkDone(c) ==
  /\ Goto(c, "count")
  /\ worked' = [worked EXCEPT ![c] = @ + 1]
  /\ UNCHANGED word

\* A bug: the loop runs to i <= payload_size/DATA_SIZE_B.
EndWord_one_more(c) ==
  /\ IF word[c] = DATA_NR
       THEN WorkDone(c)
       ELSE /\ word' = [word EXCEPT ![c] = @ + 1]
            /\ UNCHANGED <<pc, worked>>
  /\ UNCHANGED <<prog, nr_pkt, filled, rx, seen, total, answers, loaderVars>>

EndWord(c) ==
  /\ IF word[c] = DATA_NR - 1
       THEN WorkDone(c)
       ELSE /\ word' = [word EXCEPT ![c] = @ + 1]
            /\ UNCHANGED <<pc, worked>>
  /\ UNCHANGED <<prog, nr_pkt, filled, rx, seen, total, answers, loaderVars>>

WordSum(p) == SumFunctionOnSet(p, WordIndex)

\* The sum is local; one __sync_fetch_and_add(map_val, res).
aggregate_packet(c) ==
  /\ InLoop(c, "aggregate")
  /\ host' = [host EXCEPT ![0] = wrap(@ + WordSum(pkt[c].payload))]
  /\ WorkDone(c)
  /\ UNCHANGED <<prog, pkt, hm, nr_pkt, filled, rx, seen, total, answers, loaderVars>>

\* A bug: the word is stored, not added, and what was there is lost.
reduce_word_lossy(c) ==
  /\ InLoop(c, "reduce")
  /\ host' = [host EXCEPT ![word[c]] = wrap(Word(c))]
  /\ EndWord(c)
  /\ UNCHANGED <<pkt, hm>>

\* __sync_fetch_and_add(map_val, payload[i])
reduce_word(c) ==
  /\ InLoop(c, "reduce")
  /\ host' = [host EXCEPT ![word[c]] = wrap(@ + Word(c))]
  /\ EndWord(c)
  /\ UNCHANGED <<pkt, hm>>

\* payload[i] > HISTOG_NR || payload[i] < 0
WrongKey(key) == key > HISTOG_NR \/ key < 0

\* The lookup of key HISTOG_NR finds nothing and the word is not counted.
histogram_word(c) ==
  /\ InLoop(c, "histogram")
  /\ ~WrongKey(Word(c))
  /\ host' = IF Word(c) < HISTOG_NR THEN [host EXCEPT ![Word(c)] = wrap(@ + 1)]
                                    ELSE host
  /\ EndWord(c)
  /\ UNCHANGED <<pkt, hm>>

\* A bug: leaving the loop instead of the program counts the packet.
histogram_pass_counted(c) ==
  /\ InLoop(c, "histogram")
  /\ WrongKey(Word(c))
  /\ Goto(c, "count")
  /\ UNCHANGED <<prog, pkt, word, mapVars, filled, rx, histVars, loaderVars>>

\* return XDP_PASS in the middle of the packet; what its earlier words added
\* stays added, and the packet is not counted.
histogram_pass(c) ==
  /\ InLoop(c, "histogram")
  /\ WrongKey(Word(c))
  /\ PassUp(pkt[c])
  /\ Return(c)
  /\ UNCHANGED <<prog, mapVars, filled, rx, histVars>>

\* bpf_map_update_elem(&rxcptoh, &key, &payload[i])
copy_to_host_word(c) ==
  /\ InLoop(c, "copy_to_host")
  /\ host' = [host EXCEPT ![word[c]] = Word(c)]
  /\ EndWord(c)
  /\ UNCHANGED <<pkt, hm>>

\* A bug: the index is one too large.
filter_word_off(c) ==
  /\ InLoop(c, "filter")
  /\ hm' = hm \cup {word[c] + 1}
  /\ EndWord(c)
  /\ UNCHANGED <<pkt, host>>

\* bpf_map_update_elem(&hmfilter, &key, &payload[i]): the word goes into the
\* hash table under its own index, not into rxfilter.
filter_word(c) ==
  /\ InLoop(c, "filter")
  /\ hm' = hm \cup {word[c]}
  /\ EndWord(c)
  /\ UNCHANGED <<pkt, host>>

\* payload[i] = *map_val
copy_from_host_word(c) ==
  /\ InLoop(c, "copy_from_host")
  /\ pkt' = [pkt EXCEPT ![c].payload[word[c]] = host[word[c]]]
  /\ EndWord(c)
  /\ UNCHANGED <<host, hm>>

-------------------------------------------------------------------------------
(* The program: counting the packet and its verdict.                         *)

\* A bug: the packet is not counted.
count_packet_lost(c) ==
  /\ At(c, "count")
  /\ Goto(c, "check")
  /\ UNCHANGED <<prog, pkt, word, host, hm, nr_pkt, filled, rx, worked, seen,
                 total, answers, loaderVars>>

\* __sync_fetch_and_add(nr_pkt, 1)
count_packet(c) ==
  /\ At(c, "count")
  /\ nr_pkt' = wrap(nr_pkt + 1)
  /\ total' = total + 1
  /\ Goto(c, "check")
  /\ UNCHANGED <<prog, pkt, word, host, hm, filled, rx, worked, seen, answers,
                 loaderVars>>

\* *nr_pkt is read: at a multiple the addresses are swapped and XDP_TX.
answer(c) ==
  /\ At(c, "check")
  /\ nr_pkt % MSGS_PER_MiB = 0
  /\ answers' = [answers EXCEPT ![total] = @ + 1]
  /\ Return(c)
  /\ UNCHANGED <<prog, mapVars, filled, rx, worked, seen, total, loaderVars>>

\* Otherwise the two times are written into the payload and XDP_PASS; the
\* programs without timing pass the packet up as it is, or drop it.
no_answer(c) ==
  /\ At(c, "check")
  /\ nr_pkt % MSGS_PER_MiB # 0
  /\ CASE prog.rest = "stamp" -> PassAs(pkt[c], "stamped")
       [] prog.rest = "pass" -> PassUp(pkt[c])
       [] OTHER -> UNCHANGED loaderVars
  /\ Return(c)
  /\ UNCHANGED <<prog, mapVars, filled, rx, histVars>>

Work(c) ==
  \/ aggregate_packet(c) \/ reduce_word(c) \/ histogram_word(c)
  \/ histogram_pass(c) \/ copy_to_host_word(c) \/ filter_word(c)
  \/ copy_from_host_word(c)

Handle(c) == Work(c) \/ count_packet(c) \/ answer(c) \/ no_answer(c)
Receive(c) == pass_packet(c) \/ stamp_packet(c) \/ begin_packet(c)
Loader == Attach \/ Bind \/ fill_htable \/ init_map \/ Listen \/ poll_stats

\* Nothing is left to do but to wait for the next packet (or no program was
\* attached).
Waiting ==
  /\ rx = MaxRx \/ ~attached
  /\ \A c \in Cpus : pc[c] = "idle"
  /\ loader \in {"listening", "exited"}
  /\ UNCHANGED vars

Next ==
  \/ Loader \/ LoaderExit
  \/ \E c \in Cpus : Receive(c) \/ Handle(c)
  \/ Waiting

Spec == Init /\ [][Next]_vars

(* The kernel finishes a program it has started, and the loader is a process *)
(* that is scheduled; packets and signals need not come.                     *)
Fairness ==
  /\ \A c \in Cpus : WF_vars(Handle(c))
  /\ WF_vars(Loader)

FairSpec == Spec /\ Fairness

-------------------------------------------------------------------------------
(* Properties.                                                               *)

\* The CPUs whose word loop has yet to reach word k of their packet.
Before(k) == {c \in Cpus : pc[c] = "work" /\ word[c] <= k}
Working == Before(DATA_NR - 1)

\* The words of a payload that a histogram counts in bin b, from word `from' on:
\* those before the first wrong key.
Binned(p, b, from) ==
  Cardinality({k \in from .. DATA_NR - 1 :
                 p[k] = b /\ \A j \in from .. k : ~WrongKey(p[j])})

\* The cells that a summing program adds to.
SumCells ==
  CASE prog.kernel = "aggregate" -> {0}
    [] prog.kernel = "reduce" -> WordIndex
    [] prog.kernel = "histogram" -> 0 .. HISTOG_NR - 1
    [] OTHER -> {}

\* What a packet with the words p adds to cell k from its word `from' on.
Adds(p, from, k) ==
  CASE prog.kernel = "aggregate" -> WordSum(p)
    [] prog.kernel = "reduce" -> IF from <= k THEN p[k] ELSE 0
    [] prog.kernel = "histogram" -> Binned(p, k, from)

\* What the packets in the middle of their word loop have still to add to cell k,
\* and what all the packets begun so far add to it.
Owed(k) == SumFunction([c \in Working |-> Adds(pkt[c].payload, word[c], k)])
Due(k) == SumFunction([p \in SeenPayloads |-> seen[p] * Adds(p, 0, k)])

\* The payloads whose word k some CPU has already worked on.
Written(k) ==
  {p \in SeenPayloads :
     seen[p] > Cardinality({c \in Before(k) : pkt[c].payload = p})}

(***************************************************************************)
(* However the CPUs interleave, the maps hold what the packets add up to:   *)
(* rxaggr the sum of all words, rxred[k] of the words k, rxhist[b] the      *)
(* number of words b up to each packet's first wrong key, less what packets *)
(* in the middle of their loop have still to add (modulo 2^32); rxcptoh[k]  *)
(* the word k of some packet, or what the loader put there.  Nothing is     *)
(* claimed of rxhist for key HISTOG_NR, which passes the check and has no   *)
(* bin, nor of filter's rxfilter, which the program does not write.         *)
(***************************************************************************)
HostExact ==
  CASE prog.kernel \in {"aggregate", "reduce", "histogram"} ->
         \A k \in SumCells : wrap(host[k] + Owed(k)) = wrap(Due(k))
    [] prog.kernel = "copy_to_host" ->
         \A k \in WordIndex :
           IF Written(k) = {} THEN host[k] = 0
                              ELSE host[k] \in {p[k] : p \in Written(k)}
    [] prog.kernel = "copy_from_host" ->
         \A k \in WordIndex : host[k] = IF k = 0 THEN filled ELSE 0
    [] OTHER -> TRUE

(***************************************************************************)
(* The counter holds every packet whose work was completed, once, and no    *)
(* packet that was passed up unprocessed or abandoned at a wrong key.       *)
(***************************************************************************)
CountConserved ==
  nr_pkt = wrap(SumFunction(worked)
                - Cardinality({c \in Cpus : pc[c] = "count"}))

(***************************************************************************)
(* Several CPUs may find the counter at the same multiple, but no CPU twice:*)
(* a completed MiB is answered at most once per CPU (the fetch_and_add and  *)
(* the read of *nr_pkt after it).                                           *)
(***************************************************************************)
AnswersBounded == \A n \in DOMAIN answers : answers[n] <= Cardinality(Cpus)

\* The keys fill_htable has put into the hash table so far, and the indices under
\* which words of packets have been stored.
LoaderKeys == {hashmult(n) : n \in 0 .. filled - 1}
Stored == {k \in WordIndex : Written(k) # {}}

(***************************************************************************)
(* filter stores the words of matched packets in the hash table it looks    *)
(* addresses up in.  At any moment the addresses that match are the ones    *)
(* the loader has inserted so far and the indices of the words stored so    *)
(* far: while the table is being filled, or for good once the loader was    *)
(* killed halfway, addresses match that nobody inserted.  Only when the     *)
(* fill is complete do the loader's keys cover the indices, and the         *)
(* addresses that match are the loader's again.                             *)
(***************************************************************************)
TableExact ==
  prog.kernel = "filter" =>
    /\ hm = LoaderKeys \cup Stored
    /\ filled = HASH_ENTRIES => hm = LoaderKeys

(***************************************************************************)
(* With baseline and ktime_call every line of the results file is the       *)
(* difference of two times: what poll_stats takes for two times because it  *)
(* has BUFLEN bytes is a packet the program found room in, padded, cut off  *)
(* or sent while the loader was starting.                                   *)
(***************************************************************************)
OnlyStampsLogged == prog.kernel = "baseline" => lines["raw"] = 0

(***************************************************************************)
(* A stamped datagram in the socket does not stay there: poll_stats reads   *)
(* it, or the loader ends.                                                  *)
(***************************************************************************)
StampsRead == sock["stamped"] > 0 ~> (sock["stamped"] = 0 \/ loader = "exited")

(***************************************************************************)
(* "Send back element if we have received correct number pkts": when no     *)
(* packet is being handled, every completed MiB has been answered.          *)
(***************************************************************************)
EveryMiBAnswered ==
  (\A c \in Cpus : pc[c] = "idle")
    => \A n \in 1 .. total : n % MSGS_PER_MiB = 0 => answers[n] > 0
===============================================================================
