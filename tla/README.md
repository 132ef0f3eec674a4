# TLA+ models of the packet-processing benchmark

The repository compares packet-processing architectures on a set of small network
workloads. Each workload is written once per architecture: as a DPDK program
(`src/dpdk/X/X.c`), as an XDP program with a user-space loader
(`src/ebpf-xdp/X/X.c`, `X_loader.c`), and for one workload as a PsPIN handler. Most
come in two versions: one that measures the latency and one that does not (`X_no_t`).

This directory holds TLA+ modules that model the programs, TLC configurations that
check them on small instances, and proofs that TLAPS checks for every instance.

## Inventory

| Part | State it keeps | Operations | What is hard |
|---|---|---|---|
| DPDK counting programs: aggregate, reduce, histogram, filter, copy_to_host, copy_from_host, and `_no_t` | shared memory of 32-bit atomics, shared packet counter `pkt_rec`, per-lcore burst | `lcore_main`: receive a burst, gate, word loop, count, log, answer | several lcores on the same memory; counter read back separately; counter wraps; exit in mid-packet |
| DPDK echo programs: pingpong, kvstore, zuc, and `_no_t` | per-lcore burst of mbufs | `lcore_main`: receive, gate, swap, send the first `nb_tx`, free the rest | a TX ring that may be full; ownership of each mbuf |
| Latency log of the timed DPDK programs | lock `rwl`, global `FILE *wfptr`, the results file | `calc_latency` | one `wfptr` for all lcores |
| DPDK process | `force_quit`, the launched lcores | `main`, `signal_handler`, `rte_exit` | shutdown at any point |
| DPDK port set-up | global `port_conf`, the devices | `port_init`, `main` up to the launch | a global that each call clears; queue numbers; partial failure |
| XDP counting programs (the same six workloads) | BPF maps shared by all CPUs | the XDP handler | CPUs interleave at every map access; the maps are filled after the program is attached |
| XDP loaders | the attached program, a UDP socket, the results file | `main`, `poll_stats`, `int_exit` | packets before the loader listens; killed at any point |
| XDP baseline, ktime_call, clock_overhead | none, or aggregate's | the XDP handler | a frame exactly as long as the times written into it |
| Key-value stores: `kvstore` under DPDK and XDP | an `rte_hash`; four LRU maps | write, read | several workers on one table; full sets; a pointer followed after the lookup |
| ZUC under DPDK and PsPIN | the cipher's registers, globals of `zuc.h`; the heap or the scratchpad | `EEA3` for each packet | two workers inside the cipher at once; memory never freed; undefined values |
| XDP echo servers: ping_pong, fw_back, fw_back_ov, xdp_pass, xdp_no_pass | none | send the packet back | who has which address; checksums |
| Checksum helper `caludpcsum` | none | sum, fold, complement | the carry of the fold |
| RTT clients `X_stats.c` | two FILEs, the times of a pass | send a chunk, wait, print | lost, duplicated, foreign datagrams; signals at any point |
| Load balancing, XDP ZUC, generators, plots, scripts | | | not modelled, see below |

The parts interact as follows. A DPDK program is one process: `main` sets up the ports
(DpdkPort), launches `lcore_main` on every lcore and joins them (DpdkProcess). The
lcores share the workload's memory and counter (DpdkCounted), the mbuf pool and the TX
rings (DpdkMbuf), and the log (LatencyLog). An XDP program is run by the kernel on any
CPU; it shares its maps with the other CPUs and with its loader, and hands packets with
two times written into them to the loader's socket (XdpCounted, XdpLoader). A key-value
store is shared by all lcores or CPUs (KvStore), the cipher by all lcores or by the HPUs
of a cluster (Zuc). An RTT client talks to one of the echoing programs over UDP
(RttClient, which uses the checksum of UdpChecksum).

For each part, what makes it correct: no update of the shared memory or of the counter
is lost; every packet worked on is counted and logged exactly once; a completed MiB is
answered; a buffer has one owner and none is lost; a queue that is polled has been set
up; a signal ends the process; the loader reads what the program sends it; a
key-value store is a map; a packet is encrypted with its own key and decrypted by being
encrypted again; a client's time belongs to the chunk it is printed for, and its results
survive a signal.

## Modules

`LatencyLog` models `calc_latency`. Variables `rwl`, `wfptr`, `opened`, `stage`,
`lines`; actions `write_lock`, `open_log`, `print_lines` (the loop and `fclose`),
`write_unlock`. A FILE is named by the lcore that opened it, so that printing through
another lcore's FILE is visible.

`DpdkProcess` extends it with the life of a DPDK process: `main_init`, `main_wait`,
`signal_handler`, the loop test `test_quit`, and `Exit` (`rte_exit` or `exit(1)`, which
end all lcores wherever they are).

`DpdkCounted` extends that with `lcore_main` of the twelve counting programs, one record
`[kernel, timed]` per program. One step is one atomic operation on shared memory: a word
of the word loop, the addition to `pkt_rec`, each stage of the log, the later read of
`pkt_rec` that decides on the answer. `payload_size` is computed modulo 2^16 as in the
code, values of type `T` wrap around at `INT_HALF`. The contents of a packet are chosen
when the packet loop reaches it. `processed` and `seen` are history variables: no action
of the code depends on them. The histogram's range check lets the key 1024 through, and
the atomic add then goes to the word behind `final_histog`. `histogram_stray` has the
outcomes a build can give this: nothing the program looks at changes, `force_quit` is set,
or a pointer or the lock is spoiled, after which the status is `"undefined"` and the model
ends.

`DpdkMbuf` extends `DpdkProcess` with the buffers. `pool` and `txq` count how often a
buffer is in the pool and in a TX ring, so that a double free is representable; `bufs`,
`nb_rx`, `i`, `nb_tx` are the code's locals; `done` is the send loop's and then the free
loop's index. `rte_eth_tx_burst` is two actions: `tx_packet` for each buffer the ring
takes, and `tx_return` at any time, because the ring may be full. Whether a counting
program answers is left open here, since DpdkCounted says when. The model has one port:
the port loop repeats the same body with the same `bufs`. The driver that returns a sent
buffer to the pool (`nic_sent`) is external.

`DpdkPort` models `main` up to the launch and `port_init` for each port in turn. The
devices and what they can do are external: `rte_eth_dev_configure` refuses more queues
than a device has, `rte_eth_dev_info_get` may return any of `MaxQueues`. `fail` stands
for every check that ends in `rte_exit`. The calls that add callbacks may return NULL,
which `port_init` does not look at: `port_callbacks` then goes on, and the fields
`rx_null` and `tx_null` remember on which queue it happened.

`XdpLoader` models a loader: attach, bind, listen, `recvfrom`, exit. `XdpCounted` extends
it with the XDP programs: one step per map access, and the loader's preparation of the
maps (`fill_htable`, `init_map`) between the attachment and the loop. A packet that the
program passes up is delivered to the socket or dropped by the stack, which is external;
that covers datagrams whose checksum was not recomputed.

The same module holds `baseline`, `ktime_call` and `clock_overhead`: the first two have
no maps and write two times into every frame that has room for them (`stamp_packet`), the
last is aggregate with both times taken at the start.

`KvMap` is the cache that the headers of the stores promise. A write always takes effect,
and a full set loses a key for it. A read answers with the content its key has at that
moment, or with nothing. The answer that is sent is the answer that was found. Its
variables are the set of each key (`part`), the content (`store`), the operations asked
for (`call`) and the answers not sent yet (`ans`).

`KvStore` models the four programs that implement it. `entry` is the element that holds
a key and `val` the content of an element. Under DPDK a call of `rte_hash` is one step,
because the hash is created with its lock. Under XDP `map_update` links a new element and
frees the old one, evicting some key when the map is full, and a read is `map_lookup`
followed, possibly much later, by `map_load` through the pointer. `get_set` is the code's
switch with its default. `stamp` is the timed XDP program writing two times over the
content it has just put into the packet.

The refinement mapping is at the end of the module: `CallOf` is the request of a worker
whose operation is not done, `AnswerOf` what its packet holds afterwards. The programs do
not refine `KvMap`. `ImplementsMap` says how far they are from it: every step is a step of
`KvMap` or one of three departures, each with the condition under which it may happen, and
none of which changes the store or what another worker sees.

- `Refusable`: a write to a full set is acknowledged and not stored. The results of
  `rte_hash_add_key_data` and `bpf_map_update_elem` are ignored.
- `Overtaken`: a write to the set comes between the lookup of a read and its load.
- `Overwritten`: the timed XDP program answers a read with its two times.

Two idealisations of the external tables: an `rte_hash` is taken to use all its elements,
while one created without `RTE_HASH_EXTRA_FLAGS_EXT_TABLE`, as here, may refuse a key
earlier; an LRU map is taken to evict one key when it is full, while the kernel keeps free
elements per CPU and may evict earlier, and several keys at once.

`ZucArith` holds the arithmetic of `zuc.h` that does not depend on the key: `AddM`, and
where the buffers of an HPU lie in the scratchpad. `Zuc` models the cipher on its shared
registers: one step per function (`Initialization`, `BitReorganization`, `F`, the two
LFSR modes), so that workers interleave between them. Values are symbolic: a register
group holds the run and round it comes from, or junk when values of different runs are
mixed, and a message word is the set of things that were XORed into it. A word of an
answer that the cipher did not write is `Unknown`: it is what the heap or the scratchpad
held, which may come from another packet, and nothing is claimed of it. The allocations
of the DPDK program and what its `memcpy` reads and moves are modelled word by word; so
is the PsPIN handler `zuc_ph`, whose `spin__memcpy` is external and copies as its comment
says.

`UdpChecksum` is `caludpcsum` after the summation, with the receiver's check as an
external operator. `RttClient` composes a client, a server and a network that loses,
duplicates and reorders. A time is represented by the datagram that stopped the clock.
`owner` says which end has the address `IP` of `helpers.h`, to which both the clients of
the XDP programs and the user-space echo send; in `create_vnet.sh` it is the client's. A
result row is in the stdio buffer until `flush` or `fclose_write`; `int_exit` closes both
FILEs whatever their state, with every outcome that undefined behaviour allows.

`MCDpdkCounted`, `MCDpdkMbuf`, `MCDpdkPort`, `MCXdpCounted`, `MCKvStore`, `MCRttClient`
and `MCZuc` define the packets and program sets of the instances. `DpdkMbufProofs`,
`DpdkPortProofs`, `DpdkCountedProofs`, `XdpCountedProofs`, `KvStoreProofs`,
`RttClientProofs` and `ZucProofs` hold the proofs about the module they are named after;
`SumTheorems` holds the facts about sums that both counting models need.
Definitions that begin with the comment "A bug:" are mutated forms of
the definition that follows them. They are used to see that a property can fail and are
not part of any specification.

## Runs

| Run | Result | What it shows |
|---|---|---|
| `dpdk_counted` | passes, about 370,000 states | Twelve programs, 2 lcores, 2 ports, bursts of up to 2, 3 packets: `HostExact` (the shared memory equals what the packets worked on add up to, at every moment), `CountConserved`, `LogConserved`, `LogHandleOwned`, `ShutdownCompletes` |
| `dpdk_mbuf` | passes, about 390,000 states | Echo programs, 2 lcores, 3 buffers: `ExclusiveOwner`, `NoLeak`, `EchoLogConserved`, `LogHandleOwned`, `ShutdownReturnsMbufs` |
| `dpdk_port` | passes, about 4,700 states | All programs, 1 or 2 ports, devices with 1, 2 or 16 queues: `PolledQueueReady`, `MissingCallbackRefused`, `PortsAlike` |
| `xdp_counted` | passes, about 85,000 states | Fifteen programs, 2 CPUs, 3 packets, the loader killed at any point: `HostExact`, `CountConserved`, `AnswersBounded`, `TableExact`, `OnlyStampsLogged`, `StampsRead` |
| `kvstore` | passes, about 144,000 states | Four programs, 2 workers, 3 keys, sets of 2: `NodesExclusive`, `PointerGood`, and `ImplementsMap`: `KvMap` but for the three departures |
| `rtt_client` | passes, about 170,000 states | Seven clients, seven servers, 2 passes of 2 chunks, 2 losses, 2 surplus datagrams: `OwnAnswer`, `LossIsFatal`, `PassesKept`, `FinishesUnlessLost` |
| `zuc` | passes, about 1,170,000 states | DPDK and PsPIN, 2 workers, 3 packets: `SoloKeystream`, `HeapConserved` |
| `dpdk_free` | violated | `FreedIsFree`: a buffer given to the TX ring is freed too |
| `dpdk_sendback` | violated | `OnlyProcessedSent`: the first buffers are sent, not the accepted ones |
| `dpdk_rss` | violated | `RssConfigured`: the cleared configuration is used |
| `xdp_answer` | violated | `EveryMiBAnswered`: two CPUs add before either reads |
| `zuc_roundtrip` | violated | `RoundTrip`: an answer that is sent in again does not come back as its message |

Each violated property states what a comment of the source says; `PROJECT.json` quotes
it under "findings".

What the passing runs say of the code that a reader may not expect:

- `ImplementsMap`: under XDP only `kvstore_no_t` answers a read with content, and a read
  that a write overtakes may return the content of another key. The DPDK store is `KvMap`
  itself as long as its clients use no more keys than the hash has elements
  (`RoomyHashIsMap`); beyond that it keeps the old keys and drops the new ones.
- `LossIsFatal` and `FinishesUnlessLost` together say that one lost answer stops a paced
  client for good, unless a surplus datagram hides the loss. The stamping server loses
  packets by itself: the theorem `ChecksumRightIffNoCarry` says which.
- `HeapConserved`: each answer of the DPDK ZUC program costs two blocks of the heap.
- `SoloKeystream` is about a worker that is alone in the cipher. With two inside, the
  keystream is junk.
- `TableExact`: the XDP filter stores the words of matched packets in the table it looks
  addresses up in, so that word indices become addresses that match. Once the loader's
  fill is complete its keys cover the indices and this no longer shows; while the fill is
  going on, or for good if the loader was killed halfway, it does.
- A DPDK burst can step over the multiple of 1024 just as two CPUs can (`xdp_answer`):
  the counter is read back once per burst.

Where the code does not do what its own comments say, beyond the five violated runs. The
properties above claim nothing for these cases, or name them as exceptions:

- The header of both histograms gives the keys as [0,1024], and both range checks agree
  (`> HISTOG_NR`). The arrays have 1024 cells: under DPDK the key 1024 is written behind
  the array (`src/dpdk/histogram/histogram.c:36`, `283-287`), under XDP the lookup finds
  no cell and the word is not counted. `HostExact` holds for the cells there are, until
  the stray write has made the program undefined.
- `src/ebpf-xdp/filter/filter.c:4-6` says that matched content is written to host memory.
  Line 79 writes it to the table of addresses; nothing writes `rxfilter`. `HostExact`
  claims nothing of filter.
- `src/dpdk/kvstore/kvstore.c:32` says that the store evicts the least recently used key.
  The hash refuses new keys when it is full: the departure `Refusable`.
- `src/ebpf-xdp/kvstore/kvstore.c:143-145` writes the times over the content of a read,
  which was put into the packet a few lines before: the departure `Overwritten`.
- The default of `get_set` is commented as impossible to get to
  (`src/ebpf-xdp/kvstore/kvstore.c:63`). Every key that is a multiple of the number of
  sets gets there, and shares the first set; the fourth map is never used.
- `src/dpdk/aggregate/aggregate.c:201-202` ignores whether the callbacks could be added.
  A queue without its RX callback has no arrival times; `MissingCallbackRefused` says that
  this is the only way in which one comes to lack it.
- The clients of the XDP programs and the user-space echo use one address
  (`src/ebpf-xdp/helpers/helpers.h:5`). With the addresses of `create_vnet.sh` it is the
  client's own, and the clients measure the loopback. `owner` covers both cases.

### Bounds

- Two lcores or CPUs. Every conflict in the code is between two threads at one shared
  word, so two threads show each kind of conflict. The safety properties are proved for
  any number of them.
- `MaxRx = 3` packets per behaviour. With two threads that allows a burst of two beside
  a burst of one, and a second burst after a first. `MSGS_PER_MiB = 2`, so that
  the multiple is reached, reached again, and stepped over.
- `INT_HALF = 3`: counters and sums wrap at 3 instead of 2^31, so that wrapping happens.
  `(2 * INT_HALF) % MSGS_PER_MiB = 0` is assumed, as 2^32 is a multiple of 1024.
- `DATA_NR = 2` words per packet, `HISTOG_NR = 2` bins under DPDK and 1 under XDP: a word
  loop can be interrupted between words, and keys inside the range, at its documented end,
  and beyond it occur.
  `BYTE = 2` shrinks the keys of the filter's hash in the same way.
- The packets of the instances include the lengths at which `payload_size` underflows and
  at which it is one byte short, a frame that is not IPv4 or UDP, and one that is cut off.
- `kvstore`: two of the three keys share a set of two elements under XDP and all three
  under DPDK, so that sets become full and evict or refuse; four requests are
  enough to fill a set, begin a read, and evict the key that is being read.
- `rtt_client`: a second pass makes an answer of the first arrive late; two losses and
  two surplus datagrams hide one another in every order. `W = 4` has sums with and
  without a carry.
- `zuc`: `INIT_ROUNDS = 1` and two encrypted words let runs cut across each other in the
  initialisation, the discarded round and the working rounds; ten words leave some of the
  message unencrypted; a heap of six blocks serves two packets, and the third crashes the
  program. `zuc_roundtrip` uses one worker and two garbage values.
  All packets have one length: the DPDK gate demands it, and the PsPIN driver sends it.
  What a shorter packet would find in the scratchpad is therefore not explored.
- `kvstore` and `zuc`, which check safety only, use the symmetry of the workers (and of
  the contents). The other runs have liveness properties and use none.

### Fairness

`FairSpec` assumes weak fairness of each lcore's steps, of `main`, of a started XDP
handler, and of the loader. Lcores are threads pinned to cores that poll and never block
except on the spin lock; the kernel runs an XDP program to its end; the loader is an
ordinary process. RttClient assumes weak fairness of the client and of the server, which
are such processes or programs too. No fairness is assumed of the network, of signals, or of the device.
Weak fairness is enough for the lock in these instances because an lcore that has seen
`force_quit` does not take the lock again.

## Proofs

| Theorem | Statement |
|---|---|
| `DpdkMbufProofs!TypeInvariance`, `TypeCorrect` | `Spec => []TypeInv`, `Spec => []TypeOK` |
| `DpdkMbufProofs!LogHandleSafe` | `Spec => []LogHandleOwned` |
| `DpdkMbufProofs!NoBufferLost` | `Spec => []NoLeak`, also for the counting programs |
| `DpdkMbufProofs!EchoExclusive` | `Spec => []ExclusiveOwner` for the echo programs |
| `DpdkMbufProofs!EchoLogCorrect` | `Spec => []EchoLogConserved` for the echo programs |
| `DpdkPortProofs!PortInvariance`, `PortTypeCorrect` | `Spec => []PortInv`, `Spec => []TypeOK` |
| `DpdkPortProofs!LaunchedReady`, `LaunchedCallbacks` | `Spec => []PolledQueueReady`, `Spec => []MissingCallbackRefused`, if the lcore ids are 0, 1, ... without gaps |
| `DpdkPortProofs!ConfiguredAlike` | `Spec => []PortsAlike` |
| `DpdkCountedProofs!CountedInvariance`, `CountedTypeCorrect` | `Spec => []CountedInv`, `Spec => []TypeOK` |
| `DpdkCountedProofs!CountedHandleSafe`, `CountedLogCorrect` | `Spec => []LogHandleOwned`, `Spec => []LogConserved` |
| `DpdkCountedProofs!CounterCorrect`, `HostCorrect` | `Spec => []CountConserved`, `Spec => []HostExact` |
| `XdpCountedProofs!XdpInvariance`, `XdpTypeCorrect` | `Spec => []XdpInv`, `Spec => []TypeOK` |
| `XdpCountedProofs!AnswersLimited`, `TableCorrect`, `StampsOnly` | `Spec => []AnswersBounded`, `Spec => []TableExact`, `Spec => []OnlyStampsLogged` |
| `XdpCountedProofs!CounterCorrect`, `HostCorrect` | `Spec => []CountConserved`, `Spec => []HostExact` |
| `KvStoreProofs!KvInvariance`, `KvTypeCorrect` | `Spec => []KvInv`, `Spec => []TypeOK` |
| `KvStoreProofs!ElementsExclusive`, `PointerSafe` | `Spec => []NodesExclusive`, `Spec => []PointerGood` |
| `KvStoreProofs!StoreImplementsMap` | `Spec => ImplementsMap`: the four stores are `KvMap` but for the three departures |
| `KvStoreProofs!RoomyHashIsMap` | `Spec => Map!Spec` for the DPDK programs, if there are at most `BLOCKS` keys |
| `RttClientProofs!RttInvariance`, `RttTypeCorrect` | `Spec => []RttInv`, `Spec => []TypeOK` |
| `RttClientProofs!AnswersMatch`, `LossBlocks` | `Spec => []OwnAnswer`, `Spec => []LossIsFatal` |
| `RttClientProofs!ResultsKept` | `Spec => []PassesKept` |
| `RttClientProofs!ChecksumRightIffNoCarry` | the receiver accepts `caludpcsum` exactly when adding the halves of the sum does not carry |
| `ZucProofs!ZucInvariance`, `ZucTypeCorrect` | `Spec => []ZucInv`, `Spec => []TypeOK` |
| `ZucProofs!AloneIsRight`, `HeapAccounted` | `Spec => []SoloKeystream`, `Spec => []HeapConserved` |
| `ZucProofs!AddMCorrect` | `AddM` on two cells gives a cell, their sum modulo 2^31-1 |
| `ZucProofs!ScratchDisjoint` | for messages of at most 1500 bytes no HPU's buffers overlap another's or each other |

With these, every invariant that a passing run checks is also a theorem. They hold for
every value of the constants that satisfies the named assumptions of the modules
(`LcoreAssumption`, `CountedAssumption`, `MbufAssumption`, `PortAssumption`,
`XdpAssumption`, `KvAssumption`, `RttAssumption`, `ZucAssumption`, `WAssumption`,
`HAssumption`), which TLC evaluates on every run. Most of these only give the constants
their types. The others:

- sets of lcores, CPUs and packets are finite, without which a sum over them means
  nothing; workers of the stores and of the cipher need not be finite in number;
- 2^32 is a multiple of the packets per MiB, as above;
- XdpCounted: a payload has no more words than a byte has values, and a byte no more than
  256 (`DATA_NR <= BYTE`, `BYTE <= 256`). In the code both are 256. The
  second part of `TableExact` rests on it: filter stores words under their index, and only
  an index below 256 is the hash of an address;
- XdpCounted: `INT_HALF > 1`, so that the 1 of `init_map` is a value of the map;
- Zuc: a packet has words behind its key.

*The log.* `LogHandleOwned` is not inductive: it says nothing of who may enter. `LogInv`
adds that the lcore inside `calc_latency` is the one that holds the lock, and that a FILE
is open only while its lcore prints. Each action of the log keeps it, whichever program
calls it: `DpdkMbufProofs` and `DpdkCountedProofs` both begin with these lemmas.

*The buffers.* `TypeInv` adds `BurstInv`: how `i`, `nb_rx`, `nb_tx` and `done` relate in
each phase of a burst. Without it the type of `bufs[l][done[l]]` is unknown and no bound
on the loops follows. `NoLeak`, `ExclusiveOwner` and `EchoLogConserved` are inductive
relative to `TypeInv`. For `ExclusiveOwner` the steps of an lcore fall into four kinds:
those that touch no buffer, those that give the next owned buffer to the pool or the
ring, the receipt of a buffer, and the end of a burst. There is one lemma for each. It
needs the assumption `EchoOnly`; the run `dpdk_free` shows why.

*The ports.* `PortInv` says that the ports before `portid` are ready, the ones after it
untouched, how far the current one is, and that the configuration passed to the device is
the cleared one. `PolledQueueReady` follows only if each `rte_lcore_id()` is below
`rte_lcore_count()`; the assumption `LcoresFromZero` says so. The code does not check it.

*The counting programs.* `CountedInv` (DPDK) and `XdpInv` add to the types what the
locals obey in each phase: a burst's counted and remaining packets fit in the burst, a
CPU without a packet starts at word 0, the packets counted and those about to be are
packets received. `AnswersBounded` needs more than its own statement: nothing is answered
ahead of the counter, and the CPUs that have yet to read the counter together with the
answers at its present value are at most as many as there are CPUs.

`CountConserved` and `HostExact` are sums over lcores and over payloads. `SumTheorems`
shows what one step does to such a sum: if the summands of two functions agree except at
one element, so do the sums up to that element's summand. The sum is a fold that takes its
elements in the order of `CHOOSE`; that the order does not matter is proved by taking a
smallest set for which it fails, as the subsets of a finite set are well-founded. On this,
`HostExact` is one case per program. What a worker still owes to a cell is its `Share`:
a step adds `d` to the cell and takes `d` from the share, or begins a payload and adds the
same to what is owed and what is due. `ExactInv` has two further parts that are needed for
induction. `ResInv` (DPDK) says that aggregate's local sum is the sum of the words before
the loop index. `CopyInv` says of the programs that copy, and of the XDP filter, that a
payload was begun at least as often as workers are in the middle of it, so that a payload
whose word was just written is among those `Written`. In the XDP histogram, a packet given
up at a wrong key leaves the sums right because it owes nothing from that word on. The
DPDK key 1024 is no cell, so it is in no worker's share, and whatever the stray write does
touches no sum.

`TableExact` is proved with `HostExact`: its first part is `FillExact`, one conjunct of
`ExactInv`. Storing a word adds its index to both sides, because by `CopyInv` the payload
is then among those written at that index; an insertion of the loader adds one key to
both. The second part follows from it and from the assumption on 256 above.

*The key-value stores.* `KvInv` adds to `NodesExclusive` that a pending load's pointer
leads to an element of its key's set that was written (`RequestInv`), that an element that
was ever written holds a content of its set (`ContentInv`), and that the pointer is the
key's own element as long as no write overtook the read (`FreshInv`). The refinement has
one lemma per kind of step. Its core is that a set has no unused element exactly when it
holds `BLOCKS` keys, since the keys of a set and its used elements correspond one to one:
so an XDP store evicts only where the map does, and a DPDK store refuses a write only where
the map would evict. `FreshInv` makes a load that nobody overtook a read of the map.
`RoomyHashIsMap` shows that no departure can happen: a key that is not stored leaves a set
of at most `BLOCKS - 1` keys, so its write finds an unused element, and a DPDK read
neither loads later nor is stamped over.

*The clients.* `BalanceInv` counts the copies on their way: what was sent or came on top
was received, was lost, or is in the network. `LossIsFatal` follows, since with one loss
that no surplus makes up for the two bags are empty. `CurrentInv` says that without
surplus only the current chunk is on its way; this gives `OwnAnswer`. `RowsInv` numbers
the rows of file and stdio buffer through, which gives `PassesKept` at every signal.

*The cipher.* `AloneInv` says what the shared registers hold for a worker that has been
alone in the cipher since it entered, in each phase and round; `SoloKeystream` is its
last case. `KeystreamInv` says how long the keystream is in each phase. `AccountInv`
relates the heap, the workers and the answers.

*Checksum and cipher arithmetic.* These are facts about operators, by cases on whether the
sum exceeds the word. `AddMCorrect` is about cells: the uninitialised `f` of
`LFSRWithInitialisationMode` is not one.

Only model-checked: the liveness properties `ShutdownCompletes`, `ShutdownReturnsMbufs`,
`StampsRead` and `FinishesUnlessLost`, which rest on fairness and are out of the prover's
reach.

## Not modelled

- The times written to the log and into packets, formatting and output.
- Header parsing beyond the conditions of the gate. The summation of `caludpcsum`: only
  the two halves of the sum matter for what follows.
- The S-boxes, rotations and constants of ZUC, which are inside the symbols of `Zuc`.
- The exact size of pools, rings and descriptors, and with it `nb_ports`, which three
  programs use uninitialised where the pool is sized.
- The DPDK `clock_overhead` beyond its set-up: its `lcore_main` handles no packet and
  calls `calc_latency` a million times on lcore 0, without a look at `force_quit`.
- That `baseline.c` takes its two times from different clocks: times are not modelled.
- `xdp_drop`: one line without state.
- `loadbalancing`: the DPDK program does not compile, and the XDP program writes to a
  field of the context that the verifier does not let it write.
- ZUC under XDP: it does not compile (`LFSR_S` is not declared, and it calls `exit`).
- The PsPIN runtime and simulator, which are not in the repository, and its driver.
- Traffic generators, plots and scripts: input and output only.

## Plan

1. Done: the counting programs and the log, the buffers, port set-up, the XDP programs
   and loaders; the key-value stores with the map they implement; the ciphers; the
   clients, servers and network; a proof of each safety property the runs check, and of
   how the stores relate to KvMap.
2. Action properties worth proving from the same invariants: that a counter's history
   never decreases, that rows once in the results file stay there, and that a linked
   element changes its key only in a step that evicts it.
3. An abstract specification of a counting program, in which a packet takes effect at
   once, with `HostExact` as the mapping.
