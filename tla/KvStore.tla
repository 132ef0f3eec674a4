-------------------------------- MODULE KvStore --------------------------------
(***************************************************************************)
(* The key-value stores: kvstore.c under DPDK and under XDP.  A request is  *)
(* a packet with a flag (write or read), a key and a content word; the      *)
(* answer is the same packet, with the content of the key in it.            *)
(*                                                                          *)
(* DPDK keeps the keys in one rte_hash, whose calls are atomic (the hash    *)
(* was created with RTE_HASH_EXTRA_FLAGS_RW_CONCURRENCY: each call takes    *)
(* its lock).  XDP keeps them in LRU maps chosen by get_set.  There an      *)
(* update links a new element in place of the old one, which may at once    *)
(* be used for another key, and a lookup returns a pointer to the element   *)
(* which the program follows in a later step.                               *)
(*                                                                          *)
(* A node is an element of a set.  What becomes of the answer, and of the   *)
(* rest of a DPDK burst, is the subject of DpdkMbuf.                        *)
(***************************************************************************)
EXTENDS Naturals, FiniteSets

CONSTANTS
  Workers,     (* lcores, or CPUs that run the XDP program                  *)
  Keys,        (* the keys clients use                                      *)
  Vals,        (* the contents clients write                                *)
  NoVal,       (* no content                                                *)
  NoNode,      (* NULL                                                      *)
  BLOCKS,      (* elements of a set: SETS_BLOCKS                            *)
  Programs,    (* the programs to consider                                  *)
  MaxReq       (* bound: requests in one behaviour                          *)

ASSUME KvAssumption ==
  /\ Keys \subseteq Nat
  /\ Vals \subseteq Nat
  /\ NoVal \notin Vals \cup Keys
  /\ BLOCKS \in Nat \ {0}
  /\ NoNode \notin (0 .. 4) \X (1 .. BLOCKS)
  /\ Programs \subseteq [arch : {"dpdk", "xdp"}, timed : BOOLEAN]
  /\ MaxReq \in Nat

(* The programs.                                                             *)
dpdk_kvstore      == [arch |-> "dpdk", timed |-> TRUE]
dpdk_kvstore_no_t == [arch |-> "dpdk", timed |-> FALSE]
xdp_kvstore       == [arch |-> "xdp", timed |-> TRUE]
xdp_kvstore_no_t  == [arch |-> "xdp", timed |-> FALSE]

VARIABLES
  prog,      (* the program that was started; never changes                 *)
  entry,     (* the node that holds each key                                *)
  val,       (* the content of each node                                    *)
  pc,        (* where each worker is with its packet                        *)
  req,       (* flag and key read from the packet                           *)
  content,   (* payload[2] of the packet                                    *)
  cont,      (* the pointer bpf_map_lookup_elem returned                    *)
  reqs,      (* requests received (bound)                                   *)
  raced,     (* history: the set was written to since the worker's lookup   *)
  past       (* history: contents ever written to each set                  *)

storeVars == <<entry, val>>
vars == <<prog, entry, val, pc, req, content, cont, reqs, raced, past>>

Sets == 0 .. 4
Nodes == Sets \X (1 .. BLOCKS)
Blocks(s) == {s} \X (1 .. BLOCKS)
Requests == [flag : BOOLEAN, key : Keys]
NoReq == [flag |-> FALSE, key |-> NoVal]
PCs == {"idle", "op", "load", "stamp", "send"}

SETS_NR == IF prog.arch = "dpdk" THEN 1 ELSE 4
BUCK(v) == v % SETS_NR

\* The cases 1 to 4 of the switch and its default.
get_set(v) == IF v \in 1 .. 4 THEN v ELSE 1

SetOf(k) == IF prog.arch = "dpdk" THEN BUCK(k) ELSE get_set(BUCK(k))

TypeOK ==
  /\ prog \in Programs
  /\ entry \in [Keys -> Nodes \cup {NoNode}]
  /\ val \in [Nodes -> Vals \cup {NoVal}]
  /\ pc \in [Workers -> PCs]
  /\ req \in [Workers -> Requests \cup {NoReq}]
  /\ content \in [Workers -> Vals \cup {NoVal, 0}]
  /\ cont \in [Workers -> Nodes \cup {NoNode}]
  /\ reqs \in 0 .. MaxReq
  /\ raced \in [Workers -> BOOLEAN]
  /\ past \in [Sets -> SUBSET Vals]

Init ==
  /\ prog \in Programs
  /\ entry = [k \in Keys |-> NoNode]
  /\ val = [n \in Nodes |-> NoVal]
  /\ pc = [w \in Workers |-> "idle"]
  /\ req = [w \in Workers |-> NoReq]
  /\ content = [w \in Workers |-> NoVal]
  /\ cont = [w \in Workers |-> NoNode]
  /\ reqs = 0
  /\ raced = [w \in Workers |-> FALSE]
  /\ past = [s \in Sets |-> {}]

--------------------------------------------------------------------------------
Goto(w, at) == pc' = [pc EXCEPT ![w] = at]

\* A packet that passes the gate: flag, key and content are what the client
\* sent.  A read has 0 where the content will be.
receive(w) ==
  /\ pc[w] = "idle"
  /\ reqs < MaxReq
  /\ reqs' = reqs + 1
  /\ \E r \in Requests : \E c \in IF r.flag THEN Vals ELSE {0} :
       /\ req' = [req EXCEPT ![w] = r]
       /\ content' = [content EXCEPT ![w] = c]
  /\ Goto(w, "op")
  /\ UNCHANGED <<prog, storeVars, cont, raced, past>>

\* Not IPv4 or UDP, or not of TOT_SIZE_B bytes: continue, or XDP_PASS.
reject(w) ==
  /\ pc[w] = "idle"
  /\ reqs < MaxReq
  /\ reqs' = reqs + 1
  /\ UNCHANGED <<prog, storeVars, pc, req, content, cont, raced, past>>

At(w, arch, flag) ==
  pc[w] = "op" /\ prog.arch = arch /\ req[w].flag = flag

\* After the operation: only the timed XDP program writes its times.
Worked(w) == Goto(w, IF prog.arch = "xdp" /\ prog.timed THEN "stamp" ELSE "send")

\* The elements of a set that hold no key.
Unused(s) == Blocks(s) \ {entry[k] : k \in Keys}

\* The element n gets the content of the packet and becomes the one of key k.
Link(w, n, gone) ==
  LET k == req[w].key IN
  /\ entry' = [j \in Keys |-> IF j = k THEN n
                              ELSE IF j \in gone THEN NoNode ELSE entry[j]]
  /\ val' = [val EXCEPT ![n] = content[w]]
  /\ past' = [past EXCEPT ![SetOf(k)] = @ \cup {content[w]}]
  /\ raced' = [x \in Workers |-> raced[x] \/
                 (pc[x] = "load" /\ SetOf(req[x].key) = SetOf(k))]

\* rte_hash_add_key_data: an existing key is changed in place, a new one takes
\* an unused element; when there is none the call fails with -ENOSPC, which
\* nobody looks at.  (The hash is taken to use every element it has.)
hash_add(w) ==
  LET k == req[w].key IN
  /\ At(w, "dpdk", TRUE)
  /\ \/ entry[k] # NoNode /\ Link(w, entry[k], {})
     \/ /\ entry[k] = NoNode
        /\ \E n \in Unused(SetOf(k)) : Link(w, n, {})
     \/ /\ entry[k] = NoNode
        /\ Unused(SetOf(k)) = {}
        /\ UNCHANGED <<storeVars, past, raced>>
  /\ Worked(w)
  /\ UNCHANGED <<prog, req, content, cont, reqs>>

\* A bug: data is not set when the key is not there, and is sent as it is.
hash_lookup_unset(w) ==
  LET n == entry[req[w].key] IN
  /\ At(w, "dpdk", FALSE)
  /\ cont' = [cont EXCEPT ![w] = n]
  /\ content' = [content EXCEPT ![w] = IF n = NoNode THEN NoNode ELSE val[n]]
  /\ Worked(w)
  /\ UNCHANGED <<prog, storeVars, req, reqs, raced, past>>

\* rte_hash_lookup_data, and payload[2] = data, or 0 for a key that is not there.
hash_lookup(w) ==
  LET n == entry[req[w].key] IN
  /\ At(w, "dpdk", FALSE)
  /\ cont' = [cont EXCEPT ![w] = n]
  /\ content' = [content EXCEPT ![w] = IF n = NoNode THEN 0 ELSE val[n]]
  /\ Worked(w)
  /\ UNCHANGED <<prog, storeVars, req, reqs, raced, past>>

\* A bug: the element of the evicted key is not taken out of the map.
map_update_shared(w) ==
  LET s == SetOf(req[w].key) IN
  /\ At(w, "xdp", TRUE)
  /\ \/ \E n \in Unused(s) : Link(w, n, {})
     \/ /\ Unused(s) = {}
        /\ \E g \in {j \in Keys : SetOf(j) = s /\ entry[j] # NoNode} :
             Link(w, entry[g], {})
  /\ Worked(w)
  /\ UNCHANGED <<prog, req, content, cont, reqs>>

\* A bug: with BPF_NOEXIST a key that is there keeps its old content.
map_update_noexist(w) ==
  LET s == SetOf(req[w].key) IN
  /\ At(w, "xdp", TRUE)
  /\ \/ /\ entry[req[w].key] = NoNode
        /\ \E n \in Unused(s) : Link(w, n, {})
     \/ /\ entry[req[w].key] = NoNode
        /\ Unused(s) = {}
        /\ \E g \in {j \in Keys : SetOf(j) = s /\ entry[j] # NoNode} :
             Link(w, entry[g], {g})
     \/ entry[req[w].key] # NoNode /\ UNCHANGED <<storeVars, past, raced>>
  /\ Worked(w)
  /\ UNCHANGED <<prog, req, content, cont, reqs>>

\* bpf_map_update_elem on an LRU map: the content goes into an unused element
\* or, when there is none, into the element of some key of the map, which is
\* evicted; the key's former element is then unused.  It may fail to evict
\* (-ENOMEM), which nobody looks at.
map_update(w) ==
  LET s == SetOf(req[w].key) IN
  /\ At(w, "xdp", TRUE)
  /\ \/ \E n \in Unused(s) : Link(w, n, {})
     \/ /\ Unused(s) = {}
        /\ \E g \in {j \in Keys : SetOf(j) = s /\ entry[j] # NoNode} :
             Link(w, entry[g], {g})
     \/ Unused(s) = {} /\ UNCHANGED <<storeVars, past, raced>>
  /\ Worked(w)
  /\ UNCHANGED <<prog, req, content, cont, reqs>>

\* A bug: the pointer is kept in a variable that all CPUs share.
map_lookup_shared(w) ==
  LET n == entry[req[w].key] IN
  /\ At(w, "xdp", FALSE)
  /\ cont' = [x \in Workers |-> n]
  /\ raced' = [raced EXCEPT ![w] = FALSE]
  /\ IF n = NoNode THEN Worked(w) ELSE Goto(w, "load")
  /\ UNCHANGED <<prog, storeVars, req, content, reqs, past>>

\* cont = bpf_map_lookup_elem(...); if it is NULL the packet keeps the content
\* the client sent.
map_lookup(w) ==
  LET n == entry[req[w].key] IN
  /\ At(w, "xdp", FALSE)
  /\ cont' = [cont EXCEPT ![w] = n]
  /\ raced' = [raced EXCEPT ![w] = FALSE]
  /\ IF n = NoNode THEN Worked(w) ELSE Goto(w, "load")
  /\ UNCHANGED <<prog, storeVars, req, content, reqs, past>>

\* payload[2] = *cont
map_load(w) ==
  /\ pc[w] = "load"
  /\ content' = [content EXCEPT ![w] = val[cont[w]]]
  /\ Worked(w)
  /\ UNCHANGED <<prog, storeVars, req, cont, reqs, raced, past>>

\* The two times go over the first four words of the payload: flag, key,
\* content and the word after it.
stamp(w) ==
  /\ pc[w] = "stamp"
  /\ content' = [content EXCEPT ![w] = NoVal]
  /\ Goto(w, "send")
  /\ UNCHANGED <<prog, storeVars, req, cont, reqs, raced, past>>

\* The addresses are swapped and the packet is sent: XDP_TX or tx_burst.
send(w) ==
  /\ pc[w] = "send"
  /\ req' = [req EXCEPT ![w] = NoReq]
  /\ content' = [content EXCEPT ![w] = NoVal]
  /\ cont' = [cont EXCEPT ![w] = NoNode]
  /\ raced' = [raced EXCEPT ![w] = FALSE]
  /\ Goto(w, "idle")
  /\ UNCHANGED <<prog, storeVars, reqs, past>>

Handle(w) ==
  \/ receive(w) \/ reject(w)
  \/ hash_add(w) \/ hash_lookup(w)
  \/ map_update(w) \/ map_lookup(w) \/ map_load(w)
  \/ stamp(w) \/ send(w)

\* No more requests are sent.
Quiet == reqs = MaxReq /\ (\A w \in Workers : pc[w] = "idle") /\ UNCHANGED vars

Next == (\E w \in Workers : Handle(w)) \/ Quiet

Spec == Init /\ [][Next]_vars

--------------------------------------------------------------------------------
(* Properties.                                                               *)

\* The content of a key.
Content(k) == IF entry[k] = NoNode THEN NoVal ELSE val[entry[k]]

(***************************************************************************)
(* Every element holds at most one key, of the set it belongs to: an        *)
(* eviction or an update never leaves two keys with the same element        *)
(* (bpf_map_update_elem and rte_hash_add_key_data as lcore_main and         *)
(* kvstore() use them, with the set chosen by get_set).                     *)
(***************************************************************************)
NodesExclusive ==
  \A k \in Keys : entry[k] # NoNode =>
    /\ entry[k] \in Blocks(SetOf(k))
    /\ \A j \in Keys : entry[j] = entry[k] => j = k

(***************************************************************************)
(* The pointer a CPU holds between bpf_map_lookup_elem and the load is good *)
(* as long as nobody has written to the set: it still points to the element *)
(* of the key it was looked up for.  Whatever was written since, the load   *)
(* cannot leave the set: it returns something a client once wrote to it.    *)
(***************************************************************************)
PointerGood ==
  \A w \in Workers : pc[w] = "load" =>
    /\ cont[w] \in Blocks(SetOf(req[w].key))
    /\ val[cont[w]] \in past[SetOf(req[w].key)]
    /\ ~raced[w] => entry[req[w].key] = cont[w]

\* What the packet of a worker asks for while the operation is to be done.
CallOf(w) ==
  IF pc[w] \in {"op", "load"}
    THEN [op |-> IF req[w].flag THEN "write" ELSE "read",
          key |-> req[w].key,
          val |-> IF req[w].flag THEN content[w] ELSE NoVal]
    ELSE [op |-> "none", key |-> NoVal, val |-> NoVal]

\* The answer in the packet of a worker that is done with its operation.
AnswerOf(w) ==
  IF pc[w] \in {"stamp", "send"}
    THEN [done |-> TRUE,
          val |-> IF req[w].flag \/ cont[w] = NoNode THEN NoVal ELSE content[w]]
    ELSE [done |-> FALSE, val |-> NoVal]

Map == INSTANCE KvMap WITH
  part <- [k \in Keys |-> SetOf(k)],
  store <- [k \in Keys |-> Content(k)],
  call <- [w \in Workers |-> CallOf(w)],
  ans <- [w \in Workers |-> AnswerOf(w)]

\* Where a worker may depart from the map: a write finds its set full (under DPDK
\* only that of a new key needs room); a write to the set overtook the lookup of a
\* read that has yet to load the content; the content of a read is in the words
\* that the times are about to be written over.
Refusable(w) ==
  /\ pc[w] = "op" /\ req[w].flag
  /\ Unused(SetOf(req[w].key)) = {}
  /\ prog.arch = "dpdk" => entry[req[w].key] = NoNode
Overtaken(w) == pc[w] = "load" /\ raced[w]
Overwritten(w) == pc[w] = "stamp" /\ ~req[w].flag

\* It then gives an answer of its own, and touches neither the store nor what the
\* others are at.
Departs(w) ==
  /\ Refusable(w) \/ Overtaken(w) \/ Overwritten(w)
  /\ AnswerOf(w)'.done
  /\ UNCHANGED <<prog, storeVars>>
  /\ \A x \in Workers \ {w} : CallOf(x)' = CallOf(x) /\ AnswerOf(x)' = AnswerOf(x)

(***************************************************************************)
(* The stores are the map their headers promise (KvMap) but for three       *)
(* departures: a write acknowledged though a full set did not take it (the  *)
(* results of rte_hash_add_key_data and bpf_map_update_elem are ignored), a *)
(* read that a write to its set overtakes between bpf_map_lookup_elem and   *)
(* the load, and the answer of the timed XDP program, which the times are   *)
(* written over.  In every other step a write is in the store at once,      *)
(* nothing but a full set loses a key, and a read answers with the content  *)
(* its key has.                                                             *)
(***************************************************************************)
ImplementsMap ==
  Map!Init /\ [][Map!Next \/ \E w \in Workers : Departs(w)]_(Map!vars)
================================================================================
