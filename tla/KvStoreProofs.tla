----------------------------- MODULE KvStoreProofs -----------------------------
(***************************************************************************)
(* Proofs about KvStore, for any number of workers, keys and contents and   *)
(* any size of the sets: no element is shared, the pointer of a lookup      *)
(* stays in its set, and the stores are the map of KvMap but for three      *)
(* departures, none of which a DPDK store with room for its keys makes.     *)
(***************************************************************************)
EXTENDS KvStore, FiniteSetTheorems, TLAPS

\* What a worker's locals hold in each phase of a request.
RequestOK(w) ==
  /\ pc[w] \in {"idle", "op"} => cont[w] = NoNode
  /\ pc[w] # "idle" => req[w] \in Requests
  /\ pc[w] = "op" /\ req[w].flag => content[w] \in Vals
  /\ pc[w] = "load" => /\ prog.arch = "xdp" /\ ~req[w].flag
                       /\ cont[w] \in Blocks(SetOf(req[w].key))
                       /\ val[cont[w]] # NoVal
  /\ pc[w] = "stamp" => prog = xdp_kvstore

RequestInv == \A w \in Workers : RequestOK(w)

\* An element that was ever written holds a content of its set, and the element
\* of a key was written.
ContentInv ==
  /\ \A n \in Nodes : val[n] # NoVal => val[n] \in past[n[1]]
  /\ \A k \in Keys : entry[k] # NoNode => val[entry[k]] # NoVal

\* The pointer of a pending load is the key's element unless the set was written.
FreshInv ==
  \A w \in Workers : pc[w] = "load" /\ ~raced[w] => entry[req[w].key] = cont[w]

\* The inductive invariant.
KvInv == TypeOK /\ NodesExclusive /\ RequestInv /\ ContentInv /\ FreshInv

USE KvAssumption

\* The set of a key depends on the program alone, which never changes.
LEMMA SetOfSame ==
  ASSUME prog' = prog, NEW k \in Keys
  PROVE  SetOf(k)' = SetOf(k)
  BY DEF SetOf, get_set, BUCK, SETS_NR

\* Every key belongs to one of the sets, the default of the switch included.
LEMMA SetOfType ==
  ASSUME NEW k \in Keys
  PROVE  SetOf(k) \in Sets
  <1>1. k \in Nat
    OBVIOUS
  <1>2. k % 1 = 0
    BY <1>1
  <1>3. k % 4 \in 0 .. 3
    BY <1>1
  <1>4. QED
    BY <1>1, <1>2, <1>3 DEF SetOf, get_set, BUCK, SETS_NR, Sets

\* Initially every set is empty and no request is pending.
LEMMA InitInv == Init => KvInv
  <1> SUFFICES ASSUME Init PROVE KvInv
    OBVIOUS
  <1> USE DEF Init
  <1>1. TypeOK
    BY DEF TypeOK, PCs, Sets, Nodes
  <1>2. NodesExclusive /\ ContentInv /\ FreshInv
    BY DEF NodesExclusive, ContentInv, FreshInv
  <1>3. RequestInv
    BY DEF RequestInv, RequestOK
  <1>4. QED
    BY <1>1, <1>2, <1>3 DEF KvInv

\* Where the elements of a set lie.
LEMMA BlocksInSet ==
  ASSUME NEW s \in Sets, NEW n \in Blocks(s)
  PROVE  n \in Nodes /\ n[1] = s /\ n # NoNode
  BY DEF Blocks, Nodes, Sets

(***************************************************************************)
(* What a write does to the store, whichever program makes it: element n    *)
(* belongs to the set of the key and held no other key than those that are  *)
(* evicted for it, all of the same set.                                     *)
(***************************************************************************)
LEMMA LinkStep ==
  ASSUME KvInv, prog' = prog,
         NEW w \in Workers, pc[w] = "op", req[w].flag,
         NEW n \in Blocks(SetOf(req[w].key)),
         NEW gone \in SUBSET Keys,
         \A j \in Keys : entry[j] = n => j = req[w].key \/ j \in gone,
         \A j \in gone : SetOf(j) = SetOf(req[w].key),
         Link(w, n, gone)
  PROVE  /\ entry' \in [Keys -> Nodes \cup {NoNode}]
         /\ val' \in [Nodes -> Vals \cup {NoVal}]
         /\ past' \in [Sets -> SUBSET Vals]
         /\ raced' \in [Workers -> BOOLEAN]
         /\ NodesExclusive'
         /\ ContentInv'
         /\ \A m \in Nodes : val[m] # NoVal => val'[m] # NoVal
         /\ \A x \in Workers : pc[x] = "load" /\ ~raced'[x] =>
              entry'[req[x].key] = cont[x]
  <1> DEFINE k == req[w].key
             s == SetOf(k)
  <1>1. /\ k \in Keys /\ s \in Sets /\ n \in Nodes /\ n[1] = s /\ n # NoNode
        /\ content[w] \in Vals /\ content[w] # NoVal
    <2>1. k \in Keys /\ content[w] \in Vals
      BY DEF KvInv, RequestInv, RequestOK, Requests
    <2>2. QED
      BY <2>1, SetOfType, BlocksInSet
  <1>2. entry' = [j \in Keys |-> IF j = k THEN n
                              ELSE IF j \in gone THEN NoNode ELSE entry[j]]
    BY DEF Link
  <1>3. val' = [val EXCEPT ![n] = content[w]]
    BY DEF Link
  <1>4. past' = [past EXCEPT ![s] = @ \cup {content[w]}]
    BY DEF Link
  <1>5. raced' = [x \in Workers |-> raced[x] \/
                   (pc[x] = "load" /\ SetOf(req[x].key) = s)]
    BY DEF Link
  <1>t. /\ entry \in [Keys -> Nodes \cup {NoNode}]
        /\ val \in [Nodes -> Vals \cup {NoVal}]
        /\ past \in [Sets -> SUBSET Vals]
        /\ raced \in [Workers -> BOOLEAN]
    BY DEF KvInv, TypeOK
  <1> HIDE DEF k, s
  <1>6. entry' \in [Keys -> Nodes \cup {NoNode}]
    BY <1>1, <1>2, <1>t
  <1>7. val' \in [Nodes -> Vals \cup {NoVal}]
    BY <1>1, <1>3, <1>t
  <1>8. past' \in [Sets -> SUBSET Vals]
    BY <1>1, <1>4, <1>t
  <1>9. raced' \in [Workers -> BOOLEAN]
    BY <1>5, <1>t, Zenon
  <1>10. NodesExclusive'
    <2> SUFFICES ASSUME NEW j \in Keys, entry'[j] # NoNode
                 PROVE  /\ entry'[j] \in Blocks(SetOf(j))
                        /\ \A i \in Keys : entry'[i] = entry'[j] => i = j
      BY SetOfSame DEF NodesExclusive, Blocks
    <2>1. CASE j = k
      BY <2>1, <1>1, <1>2 DEF k, s
    <2>2. CASE j # k
      BY <2>2, <1>1, <1>2 DEF KvInv, NodesExclusive, k
    <2>3. QED
      BY <2>1, <2>2
  <1>11. ContentInv'
    <2>1. ASSUME NEW m \in Nodes, val'[m] # NoVal PROVE val'[m] \in past'[m[1]]
      <3>0. m[1] \in Sets
        BY DEF Nodes
      <3>1. CASE m = n
        BY <3>1, <1>1, <1>3, <1>4, <1>t
      <3>2. CASE m # n
        <4>1. val'[m] = val[m] /\ val[m] \in past[m[1]]
          BY <3>2, <2>1, <1>3, <1>t DEF KvInv, ContentInv
        <4>2. past[m[1]] \subseteq past'[m[1]]
          BY <3>0, <1>4, <1>t
        <4>3. QED
          BY <4>1, <4>2
      <3>3. QED
        BY <3>1, <3>2
    <2>2. ASSUME NEW j \in Keys, entry'[j] # NoNode PROVE val'[entry'[j]] # NoVal
      <3>1. CASE j = k
        BY <3>1, <1>1, <1>2, <1>3, <1>t
      <3>2. CASE j # k
        <4>1. entry'[j] = entry[j] /\ entry[j] # NoNode /\ entry[j] \in Nodes
          BY <3>2, <2>2, <1>2, <1>t
        <4>2. val[entry[j]] # NoVal
          BY <4>1 DEF KvInv, ContentInv
        <4>3. QED
          BY <4>1, <4>2, <1>1, <1>3, <1>t
      <3>3. QED
        BY <3>1, <3>2
    <2>3. QED
      BY <2>1, <2>2 DEF ContentInv
  <1>12. \A m \in Nodes : val[m] # NoVal => val'[m] # NoVal
    BY <1>1, <1>3, <1>t
  <1>13. ASSUME NEW x \in Workers, pc[x] = "load", ~raced'[x]
         PROVE  entry'[req[x].key] = cont[x]
    <2>1. req[x].key \in Keys
      BY <1>13 DEF KvInv, RequestInv, RequestOK, Requests
    <2>2. ~raced[x] /\ SetOf(req[x].key) # s
      BY <1>5, <1>13
    <2>3. entry[req[x].key] = cont[x]
      BY <1>13, <2>2 DEF KvInv, FreshInv
    <2>4. req[x].key # k /\ req[x].key \notin gone
      BY <2>2 DEF k, s
    <2>5. QED
      BY <2>1, <2>3, <2>4, <1>2
  <1>14. QED
    BY <1>6, <1>7, <1>8, <1>9, <1>10, <1>11, <1>12, <1>13

\* A step of worker w that leaves the store alone keeps what the others know.
LEMMA OthersKept ==
  ASSUME KvInv, prog' = prog, NEW w \in Workers, NEW x \in Workers, x # w,
         \A m \in Nodes : val[m] # NoVal => val'[m] # NoVal,
         pc'[x] = pc[x], req'[x] = req[x], content'[x] = content[x],
         cont'[x] = cont[x]
  PROVE  RequestOK(x)'
  <1>1. RequestOK(x)
    BY DEF KvInv, RequestInv
  <1>2. pc[x] # "idle" => req[x].key \in Keys
    BY <1>1 DEF RequestOK, Requests
  <1>4. pc[x] = "load" => cont[x] \in Nodes
    BY <1>1, <1>2, SetOfType, BlocksInSet DEF RequestOK
  <1>5. Requests' = Requests
    BY DEF Requests
  <1>6. pc[x] = "load" => (cont[x] \in Blocks(SetOf(req[x].key)))'
    BY <1>1 DEF RequestOK, Blocks, SetOf, get_set, BUCK, SETS_NR
  <1>7. QED
    BY <1>1, <1>4, <1>5, <1>6 DEF RequestOK, xdp_kvstore

\* Steps that leave the store alone.
LEMMA StoreSame ==
  ASSUME KvInv, prog' = prog, UNCHANGED <<storeVars, past>>
  PROVE  NodesExclusive' /\ ContentInv'
  <1> USE DEF storeVars
  <1>1. ContentInv'
    BY DEF KvInv, ContentInv
  <1>2. NodesExclusive'
    BY SetOfSame DEF KvInv, NodesExclusive, Blocks
  <1>3. QED
    BY <1>1, <1>2

\* The operation of a request is followed by the stamp only in xdp_kvstore.
LEMMA AfterWork ==
  ASSUME TypeOK, NEW w \in Workers, Worked(w)
  PROVE  /\ pc' \in [Workers -> PCs]
         /\ pc'[w] \in {"stamp", "send"}
         /\ pc'[w] = "stamp" <=> prog = xdp_kvstore
         /\ \A x \in Workers : x # w => pc'[x] = pc[x]
  <1>1. prog \in [arch : {"dpdk", "xdp"}, timed : BOOLEAN]
    BY DEF TypeOK
  <1>2. prog.arch = "xdp" /\ prog.timed <=> prog = xdp_kvstore
    BY <1>1 DEF xdp_kvstore
  <1>3. QED
    BY <1>2 DEF Worked, Goto, TypeOK, PCs

\* The element of a request's key, if there is one.
LEMMA EntryOK ==
  ASSUME KvInv, NEW w \in Workers, pc[w] # "idle"
  PROVE  /\ req[w] \in Requests /\ req[w].key \in Keys
         /\ entry[req[w].key] \in Nodes \cup {NoNode}
         /\ entry[req[w].key] # NoNode =>
              /\ entry[req[w].key] \in Blocks(SetOf(req[w].key))
              /\ val[entry[req[w].key]] # NoVal
              /\ val[entry[req[w].key]] \in Vals
  <1>1. req[w] \in Requests /\ req[w].key \in Keys
    BY DEF KvInv, RequestInv, RequestOK, Requests
  <1> DEFINE n == entry[req[w].key]
  <1>2. n \in Nodes \cup {NoNode}
    BY <1>1 DEF KvInv, TypeOK
  <1>3. n # NoNode => n \in Blocks(SetOf(req[w].key)) /\ val[n] # NoVal
    BY <1>1 DEF KvInv, NodesExclusive, ContentInv
  <1>4. n # NoNode => val[n] \in Vals
    BY <1>2, <1>3 DEF KvInv, TypeOK
  <1>5. QED
    BY <1>1, <1>2, <1>3, <1>4

\* Every step keeps the invariant.
LEMMA NextInv == KvInv /\ [Next]_vars => KvInv'
  <1> SUFFICES ASSUME KvInv, [Next]_vars PROVE KvInv'
    OBVIOUS
  <1>t. TypeOK /\ RequestInv /\ FreshInv /\ \A w \in Workers : RequestOK(w)
    BY DEF KvInv, RequestInv
  <1> USE <1>t DEF PCs
  <1>1. ASSUME NEW w \in Workers, receive(w) PROVE KvInv'
    <2> USE <1>1 DEF receive, Goto
    <2>1. TypeOK'
      BY DEF TypeOK, storeVars, Requests
    <2>2. NodesExclusive' /\ ContentInv'
      BY StoreSame
    <2>3. RequestOK(w)'
      BY DEF RequestOK, TypeOK, Requests
    <2>4. ASSUME NEW x \in Workers, x # w PROVE RequestOK(x)'
      BY <2>4, OthersKept DEF TypeOK, storeVars
    <2>5. FreshInv'
      BY DEF FreshInv, TypeOK, storeVars
    <2>6. QED
      BY <2>1, <2>2, <2>3, <2>4, <2>5 DEF KvInv, RequestInv
  <1>2. ASSUME NEW w \in Workers, hash_lookup(w) PROVE KvInv'
    <2> USE <1>2 DEF hash_lookup, At
    <2>a. /\ pc' \in [Workers -> PCs] /\ pc'[w] \in {"stamp", "send"}
          /\ pc'[w] = "stamp" <=> prog = xdp_kvstore
          /\ \A x \in Workers : x # w => pc'[x] = pc[x]
      BY AfterWork
    <2>1. TypeOK'
      BY <2>a, EntryOK DEF TypeOK, storeVars
    <2>2. NodesExclusive' /\ ContentInv'
      BY StoreSame
    <2>3. RequestOK(w)'
      BY <2>a, EntryOK DEF RequestOK, TypeOK
    <2>4. ASSUME NEW x \in Workers, x # w PROVE RequestOK(x)'
      BY <2>4, <2>a, OthersKept DEF TypeOK, storeVars
    <2>5. FreshInv'
      BY <2>a DEF FreshInv, TypeOK, storeVars
    <2>6. QED
      BY <2>1, <2>2, <2>3, <2>4, <2>5 DEF KvInv, RequestInv
  <1>3. ASSUME NEW w \in Workers, map_lookup(w) PROVE KvInv'
    <2> USE <1>3 DEF map_lookup, At
    <2>a. /\ pc' \in [Workers -> PCs] /\ pc'[w] \in {"load", "stamp", "send"}
          /\ entry[req[w].key] = NoNode <=> pc'[w] # "load"
          /\ pc'[w] = "stamp" => prog = xdp_kvstore
          /\ \A x \in Workers : x # w => pc'[x] = pc[x]
      BY AfterWork DEF Goto, TypeOK
    <2>1. TypeOK'
      BY <2>a, EntryOK DEF TypeOK, storeVars
    <2>2. NodesExclusive' /\ ContentInv'
      BY StoreSame
    <2>3. RequestOK(w)'
      <3>1. CASE entry[req[w].key] = NoNode
        BY <3>1, <2>a, EntryOK DEF RequestOK, TypeOK
      <3>2. CASE entry[req[w].key] # NoNode
        <4>1. pc'[w] = "load" /\ cont'[w] = entry[req[w].key] /\ req' = req
          BY <3>2, <2>a DEF TypeOK
        <4>2. (cont[w] \in Blocks(SetOf(req[w].key)))'
          BY <3>2, <4>1, EntryOK DEF Blocks, SetOf, get_set, BUCK, SETS_NR
        <4>3. QED
          BY <3>2, <4>1, <4>2, EntryOK DEF RequestOK, storeVars
      <3>3. QED
        BY <3>1, <3>2
    <2>4. ASSUME NEW x \in Workers, x # w PROVE RequestOK(x)'
      BY <2>4, <2>a, OthersKept DEF TypeOK, storeVars
    <2>5. FreshInv'
      BY <2>a DEF FreshInv, TypeOK, storeVars
    <2>6. QED
      BY <2>1, <2>2, <2>3, <2>4, <2>5 DEF KvInv, RequestInv
  <1>4. ASSUME NEW w \in Workers, map_load(w) PROVE KvInv'
    <2> USE <1>4 DEF map_load
    <2>a. /\ pc' \in [Workers -> PCs] /\ pc'[w] \in {"stamp", "send"}
          /\ pc'[w] = "stamp" <=> prog = xdp_kvstore
          /\ \A x \in Workers : x # w => pc'[x] = pc[x]
      BY AfterWork
    <2>1. TypeOK'
      <3>1. cont[w] \in Nodes
        BY EntryOK, SetOfType, BlocksInSet DEF RequestOK
      <3>2. QED
        BY <2>a, <3>1 DEF TypeOK, storeVars
    <2>2. NodesExclusive' /\ ContentInv'
      BY StoreSame
    <2>3. RequestOK(w)'
      BY <2>a, EntryOK DEF RequestOK, TypeOK
    <2>4. ASSUME NEW x \in Workers, x # w PROVE RequestOK(x)'
      BY <2>4, <2>a, OthersKept DEF TypeOK, storeVars
    <2>5. FreshInv'
      BY <2>a DEF FreshInv, TypeOK, storeVars
    <2>6. QED
      BY <2>1, <2>2, <2>3, <2>4, <2>5 DEF KvInv, RequestInv
  <1>5. ASSUME NEW w \in Workers, stamp(w) PROVE KvInv'
    <2> USE <1>5 DEF stamp, Goto
    <2>1. TypeOK'
      BY DEF TypeOK, storeVars
    <2>2. NodesExclusive' /\ ContentInv'
      BY StoreSame
    <2>3. RequestOK(w)'
      BY DEF RequestOK, TypeOK
    <2>4. ASSUME NEW x \in Workers, x # w PROVE RequestOK(x)'
      BY <2>4, OthersKept DEF TypeOK, storeVars
    <2>5. FreshInv'
      BY DEF FreshInv, TypeOK, storeVars
    <2>6. QED
      BY <2>1, <2>2, <2>3, <2>4, <2>5 DEF KvInv, RequestInv
  <1>6. ASSUME NEW w \in Workers, send(w) PROVE KvInv'
    <2> USE <1>6 DEF send, Goto
    <2>1. TypeOK'
      BY DEF TypeOK, storeVars
    <2>2. NodesExclusive' /\ ContentInv'
      BY StoreSame
    <2>3. RequestOK(w)'
      BY DEF RequestOK, TypeOK
    <2>4. ASSUME NEW x \in Workers, x # w PROVE RequestOK(x)'
      BY <2>4, OthersKept DEF TypeOK, storeVars
    <2>5. FreshInv'
      BY DEF FreshInv, TypeOK, storeVars
    <2>6. QED
      BY <2>1, <2>2, <2>3, <2>4, <2>5 DEF KvInv, RequestInv
  <1>7. ASSUME NEW w \in Workers, hash_add(w) PROVE KvInv'
    <2> DEFINE k == req[w].key
    <2>0. /\ pc[w] = "op" /\ req[w].flag /\ k \in Keys /\ Worked(w) /\ prog' = prog
          /\ UNCHANGED <<req, content, cont, reqs>>
      BY <1>7, EntryOK DEF hash_add, At
    <2>a. /\ pc' \in [Workers -> PCs] /\ pc'[w] \in {"stamp", "send"}
          /\ pc'[w] = "stamp" <=> prog = xdp_kvstore
          /\ \A x \in Workers : x # w => pc'[x] = pc[x]
      BY <2>0, AfterWork
    <2>1. ASSUME NEW n \in Blocks(SetOf(k)), NEW gone \in SUBSET Keys,
                 \A j \in Keys : entry[j] = n => j = k \/ j \in gone,
                 \A j \in gone : SetOf(j) = SetOf(k),
                 Link(w, n, gone)
          PROVE  KvInv'
      <3>1. /\ entry' \in [Keys -> Nodes \cup {NoNode}]
            /\ val' \in [Nodes -> Vals \cup {NoVal}]
            /\ past' \in [Sets -> SUBSET Vals]
            /\ raced' \in [Workers -> BOOLEAN]
            /\ NodesExclusive' /\ ContentInv'
            /\ \A m \in Nodes : val[m] # NoVal => val'[m] # NoVal
            /\ \A x \in Workers : pc[x] = "load" /\ ~raced'[x] =>
                 entry'[req[x].key] = cont[x]
        BY <2>0, <2>1, LinkStep, ZenonT(30)
      <3>2. TypeOK'
        BY <2>0, <2>a, <3>1 DEF TypeOK
      <3>3. RequestOK(w)'
        BY <2>0, <2>a DEF RequestOK
      <3>4. ASSUME NEW x \in Workers, x # w PROVE RequestOK(x)'
        BY <2>0, <2>a, <3>1, <3>4, OthersKept
      <3>5. FreshInv'
        BY <2>0, <2>a, <3>1 DEF FreshInv
      <3>6. QED
        BY <3>1, <3>2, <3>3, <3>4, <3>5 DEF KvInv, RequestInv
    <2>2. ASSUME UNCHANGED <<storeVars, past, raced>> PROVE KvInv'
      <3>1. TypeOK'
        BY <2>0, <2>a, <2>2 DEF TypeOK, storeVars
      <3>2. NodesExclusive' /\ ContentInv'
        BY <2>0, <2>2, StoreSame
      <3>3. RequestOK(w)'
        BY <2>0, <2>a DEF RequestOK
      <3>4. ASSUME NEW x \in Workers, x # w PROVE RequestOK(x)'
        BY <2>0, <2>a, <2>2, <3>4, OthersKept DEF storeVars
      <3>5. FreshInv'
        BY <2>0, <2>a, <2>2 DEF FreshInv, storeVars
      <3>6. QED
        BY <3>1, <3>2, <3>3, <3>4, <3>5 DEF KvInv, RequestInv
    <2>3. CASE entry[k] # NoNode /\ Link(w, entry[k], {})
      <3>1. entry[k] \in Blocks(SetOf(k)) /\ \A j \in Keys : entry[j] = entry[k] => j = k
        BY <2>0, <2>3 DEF KvInv, NodesExclusive
      <3>2. QED
        BY <2>1, <2>3, <3>1
    <2>4. ASSUME NEW n \in Unused(SetOf(k)), Link(w, n, {}) PROVE KvInv'
      <3>1. n \in Blocks(SetOf(k)) /\ \A j \in Keys : entry[j] # n
        BY DEF Unused
      <3> DEFINE none == {}
      <3>2. none \in SUBSET Keys /\ Link(w, n, none) /\ \A j \in none : SetOf(j) = SetOf(k)
        BY <2>4
      <3> HIDE DEF none
      <3>3. QED
        BY <2>1, <3>1, <3>2
    <2>5. QED
      BY <1>7, <2>2, <2>3, <2>4 DEF hash_add
  <1>8. ASSUME NEW w \in Workers, map_update(w) PROVE KvInv'
    <2> DEFINE k == req[w].key
    <2>0. /\ pc[w] = "op" /\ req[w].flag /\ k \in Keys /\ Worked(w) /\ prog' = prog
          /\ UNCHANGED <<req, content, cont, reqs>>
      BY <1>8, EntryOK DEF map_update, At
    <2>a. /\ pc' \in [Workers -> PCs] /\ pc'[w] \in {"stamp", "send"}
          /\ pc'[w] = "stamp" <=> prog = xdp_kvstore
          /\ \A x \in Workers : x # w => pc'[x] = pc[x]
      BY <2>0, AfterWork
    <2>1. ASSUME NEW n \in Blocks(SetOf(k)), NEW gone \in SUBSET Keys,
                 \A j \in Keys : entry[j] = n => j = k \/ j \in gone,
                 \A j \in gone : SetOf(j) = SetOf(k),
                 Link(w, n, gone)
          PROVE  KvInv'
      <3>1. /\ entry' \in [Keys -> Nodes \cup {NoNode}]
            /\ val' \in [Nodes -> Vals \cup {NoVal}]
            /\ past' \in [Sets -> SUBSET Vals]
            /\ raced' \in [Workers -> BOOLEAN]
            /\ NodesExclusive' /\ ContentInv'
            /\ \A m \in Nodes : val[m] # NoVal => val'[m] # NoVal
            /\ \A x \in Workers : pc[x] = "load" /\ ~raced'[x] =>
                 entry'[req[x].key] = cont[x]
        BY <2>0, <2>1, LinkStep, ZenonT(30)
      <3>2. TypeOK'
        BY <2>0, <2>a, <3>1 DEF TypeOK
      <3>3. RequestOK(w)'
        BY <2>0, <2>a DEF RequestOK
      <3>4. ASSUME NEW x \in Workers, x # w PROVE RequestOK(x)'
        BY <2>0, <2>a, <3>1, <3>4, OthersKept
      <3>5. FreshInv'
        BY <2>0, <2>a, <3>1 DEF FreshInv
      <3>6. QED
        BY <3>1, <3>2, <3>3, <3>4, <3>5 DEF KvInv, RequestInv
    <2>2. ASSUME UNCHANGED <<storeVars, past, raced>> PROVE KvInv'
      <3>1. TypeOK'
        BY <2>0, <2>a, <2>2 DEF TypeOK, storeVars
      <3>2. NodesExclusive' /\ ContentInv'
        BY <2>0, <2>2, StoreSame
      <3>3. RequestOK(w)'
        BY <2>0, <2>a DEF RequestOK
      <3>4. ASSUME NEW x \in Workers, x # w PROVE RequestOK(x)'
        BY <2>0, <2>a, <2>2, <3>4, OthersKept DEF storeVars
      <3>5. FreshInv'
        BY <2>0, <2>a, <2>2 DEF FreshInv, storeVars
      <3>6. QED
        BY <3>1, <3>2, <3>3, <3>4, <3>5 DEF KvInv, RequestInv
    <2>3. ASSUME NEW n \in Unused(SetOf(k)), Link(w, n, {}) PROVE KvInv'
      <3>1. n \in Blocks(SetOf(k)) /\ \A j \in Keys : entry[j] # n
        BY DEF Unused
      <3> DEFINE none == {}
      <3>2. none \in SUBSET Keys /\ Link(w, n, none) /\ \A j \in none : SetOf(j) = SetOf(k)
        BY <2>3
      <3> HIDE DEF none
      <3>3. QED
        BY <2>1, <3>1, <3>2
    <2>4. ASSUME NEW g \in Keys, SetOf(g) = SetOf(k), entry[g] # NoNode,
                 Link(w, entry[g], {g})
          PROVE  KvInv'
      <3>1. /\ entry[g] \in Blocks(SetOf(k))
            /\ \A j \in Keys : entry[j] = entry[g] => j \in {g}
        BY <2>0, <2>4 DEF KvInv, NodesExclusive
      <3>2. QED
        BY <2>1, <2>4, <3>1
    <2>5. QED
      BY <1>8, <2>2, <2>3, <2>4 DEF map_update
  <1>9. CASE UNCHANGED <<prog, storeVars, pc, req, content, cont, raced, past>>
             /\ reqs' \in 0 .. MaxReq
    <2> USE <1>9
    <2>1. TypeOK' /\ FreshInv'
      BY DEF TypeOK, FreshInv, storeVars
    <2>2. NodesExclusive' /\ ContentInv'
      BY StoreSame
    <2>3. RequestInv'
      BY DEF RequestInv, RequestOK, storeVars, SetOf, get_set, BUCK, SETS_NR
    <2>4. QED
      BY <2>1, <2>2, <2>3 DEF KvInv
  <1>10. ASSUME NEW w \in Workers, reject(w) PROVE KvInv'
    BY <1>9, <1>10 DEF reject, TypeOK
  <1>11. CASE Quiet \/ UNCHANGED vars
    BY <1>9, <1>11 DEF Quiet, vars, storeVars, TypeOK
  <1>12. QED
    BY <1>1, <1>2, <1>3, <1>4, <1>5, <1>6, <1>7, <1>8, <1>10, <1>11 DEF Next, Handle

(***************************************************************************)
(* The invariant holds of the key-value stores of DPDK and XDP.             *)
(***************************************************************************)
THEOREM KvInvariance == Spec => []KvInv
  BY InitInv, NextInv, PTL DEF Spec

(***************************************************************************)
(* Requests, elements and pointers stay in their types.                     *)
(***************************************************************************)
THEOREM KvTypeCorrect == Spec => []TypeOK
  BY KvInvariance, PTL DEF KvInv

(***************************************************************************)
(* However lcores or CPUs interleave their writes and evictions, no element *)
(* of a set is ever that of two keys.                                       *)
(***************************************************************************)
THEOREM ElementsExclusive == Spec => []NodesExclusive
  BY KvInvariance, PTL DEF KvInv

(***************************************************************************)
(* The pointer a CPU holds between bpf_map_lookup_elem and the load of      *)
(* *cont is that of its key as long as nobody wrote to the set, and never   *)
(* leads out of the set.                                                    *)
(***************************************************************************)
THEOREM PointerSafe == Spec => []PointerGood
  <1>1. KvInv => PointerGood
    <2> SUFFICES ASSUME KvInv, NEW w \in Workers, pc[w] = "load"
                 PROVE  /\ cont[w] \in Blocks(SetOf(req[w].key))
                        /\ val[cont[w]] \in past[SetOf(req[w].key)]
                        /\ ~raced[w] => entry[req[w].key] = cont[w]
      BY DEF PointerGood
    <2>1. /\ cont[w] \in Blocks(SetOf(req[w].key)) /\ val[cont[w]] # NoVal
          /\ req[w].key \in Keys
      BY EntryOK DEF KvInv, RequestInv, RequestOK
    <2>2. cont[w] \in Nodes /\ cont[w][1] = SetOf(req[w].key)
      BY <2>1, SetOfType, BlocksInSet
    <2>3. val[cont[w]] \in past[SetOf(req[w].key)]
      BY <2>1, <2>2 DEF KvInv, ContentInv
    <2>4. QED
      BY <2>1, <2>3 DEF KvInv, FreshInv
  <1>2. QED
    BY <1>1, KvInvariance, PTL

--------------------------------------------------------------------------------
(* The refinement of KvMap.                                                  *)

\* A key of set s is stored exactly if it has an element.
Holders(s) == {k \in Keys : SetOf(k) = s /\ Content(k) # NoVal}

\* A key has a content exactly when it has an element.
LEMMA StoredHasEntry ==
  ASSUME KvInv, NEW k \in Keys
  PROVE  Content(k) # NoVal <=> entry[k] # NoNode
  BY DEF KvInv, ContentInv, Content

(***************************************************************************)
(* A set has no unused element exactly when it holds BLOCKS keys: the keys  *)
(* it holds are in one-to-one correspondence with elements of the set.      *)
(***************************************************************************)
LEMMA FullIffNoneUnused ==
  ASSUME KvInv, NEW s \in Sets
  PROVE  Unused(s) = {} <=> Cardinality(Holders(s)) >= BLOCKS
  <1> DEFINE f == [k \in Holders(s) |-> entry[k]]
  <1>1. IsFiniteSet(Blocks(s)) /\ Cardinality(Blocks(s)) = BLOCKS
    <2>1. IsFiniteSet({s}) /\ Cardinality({s}) = 1
      BY FS_Singleton
    <2>2. IsFiniteSet(1 .. BLOCKS) /\ Cardinality(1 .. BLOCKS) = BLOCKS
      BY FS_Interval
    <2> DEFINE S == {s}
               N == 1 .. BLOCKS
    <2>a. IsFiniteSet(S) /\ IsFiniteSet(N)
      BY <2>1, <2>2
    <2>3. IsFiniteSet(S \X N) /\ Cardinality(S \X N) = Cardinality(S) * Cardinality(N)
      <3> HIDE DEF S, N
      <3> QED
        BY <2>a, FS_Product
    <2>4. QED
      BY <2>1, <2>2, <2>3 DEF Blocks
  <1>2. \A k \in Holders(s) : k \in Keys /\ entry[k] # NoNode /\ entry[k] \in Blocks(s)
    BY StoredHasEntry DEF Holders, KvInv, NodesExclusive
  <1>3. f \in Injection(Holders(s), Blocks(s))
    BY <1>2 DEF KvInv, NodesExclusive, Injection, IsInjective
  <1>4. /\ IsFiniteSet(Holders(s)) /\ Cardinality(Holders(s)) <= BLOCKS
        /\ Cardinality(Holders(s)) = BLOCKS <=> f \in Surjection(Holders(s), Blocks(s))
    <2> HIDE DEF f
    <2> QED
      BY <1>1, <1>3, FS_Injection
  <1>5. Unused(s) = {} <=> f \in Surjection(Holders(s), Blocks(s))
    <2>1. ASSUME Unused(s) = {}, NEW n \in Blocks(s) PROVE \E k \in Holders(s) : f[k] = n
      <3>1. PICK k \in Keys : entry[k] = n
        BY <2>1 DEF Unused
      <3>2. n # NoNode /\ n[1] = s
        BY BlocksInSet
      <3>3. n \in Blocks(SetOf(k)) /\ SetOf(k) \in Sets
        BY <3>1, <3>2, SetOfType DEF KvInv, NodesExclusive
      <3>4. SetOf(k) = s
        BY <3>2, <3>3, BlocksInSet
      <3>5. k \in Holders(s)
        BY <3>1, <3>2, <3>4, StoredHasEntry DEF Holders
      <3>6. QED
        BY <3>1, <3>5
    <2>2. ASSUME \A n \in Blocks(s) : \E k \in Holders(s) : f[k] = n PROVE Unused(s) = {}
      BY <2>2, <1>2 DEF Unused
    <2>3. f \in [Holders(s) -> Blocks(s)]
      BY <1>2
    <2>4. QED
      BY <2>1, <2>2, <2>3 DEF Surjection
  <1>6. Cardinality(Holders(s)) \in Nat
    BY <1>4, FS_CardinalityType
  <1>7. QED
    BY <1>4, <1>5, <1>6

\* The initial states of the stores are initial states of the map.
LEMMA InitRefines == Init => Map!Init
  <1> SUFFICES ASSUME Init PROVE Map!Init
    OBVIOUS
  <1>1. \A k \in Keys : SetOf(k) \in Sets /\ Content(k) = NoVal
    BY SetOfType DEF Init, Content
  <1>2. \A w \in Workers : CallOf(w) = Map!NoCall /\ AnswerOf(w) = Map!NoAnswer
    BY DEF Init, CallOf, AnswerOf, Map!NoCall, Map!NoAnswer
  <1>3. QED
    BY <1>1, <1>2 DEF Map!Init

\* The sets of the keys never change.
LEMMA PartSame ==
  ASSUME prog' = prog
  PROVE  [k \in Keys |-> SetOf(k)]' = [k \in Keys |-> SetOf(k)]
  BY SetOfSame

\* Steps that leave the table alone leave the abstract map alone.
LEMMA ContentSame ==
  ASSUME UNCHANGED storeVars
  PROVE  [k \in Keys |-> Content(k)]' = [k \in Keys |-> Content(k)]
  BY DEF storeVars, Content

\* The workers that do not move keep their calls and answers.
LEMMA OtherWorkers ==
  ASSUME NEW x \in Workers,
         pc'[x] = pc[x], req'[x] = req[x], content'[x] = content[x],
         cont'[x] = cont[x]
  PROVE  CallOf(x)' = CallOf(x) /\ AnswerOf(x)' = AnswerOf(x)
  BY DEF AnswerOf, CallOf

\* What the map sees of a worker without a request.
LEMMA IdleWorker ==
  ASSUME NEW w \in Workers
  PROVE  /\ pc[w] = "idle" => CallOf(w) = Map!NoCall /\ AnswerOf(w) = Map!NoAnswer
         /\ pc'[w] = "idle" => CallOf(w)' = Map!NoCall /\ AnswerOf(w)' = Map!NoAnswer
  <1>1. ASSUME pc[w] = "idle"
        PROVE  CallOf(w) = Map!NoCall /\ AnswerOf(w) = Map!NoAnswer
    <2>1. pc[w] \notin {"op", "load"} /\ pc[w] \notin {"stamp", "send"}
      BY <1>1
    <2>2. QED
      BY <2>1, Zenon DEF CallOf, AnswerOf, Map!NoCall, Map!NoAnswer
  <1>2. ASSUME pc'[w] = "idle"
        PROVE  CallOf(w)' = Map!NoCall /\ AnswerOf(w)' = Map!NoAnswer
    <2>1. pc'[w] \notin {"op", "load"} /\ pc'[w] \notin {"stamp", "send"}
      BY <1>2
    <2>2. QED
      BY <2>1, Zenon DEF CallOf, AnswerOf, Map!NoCall, Map!NoAnswer
  <1>3. QED
    BY <1>1, <1>2

\* What the map sees of a worker that is at its operation.
LEMMA BusyWorker ==
  ASSUME NEW w \in Workers, pc[w] \in {"op", "load"}
  PROVE  /\ req[w].flag => CallOf(w) = Map!Write(req[w].key, content[w])
         /\ ~req[w].flag => CallOf(w) = Map!Read(req[w].key)
         /\ AnswerOf(w) = Map!NoAnswer
  <1>1. pc[w] \notin {"stamp", "send"}
    OBVIOUS
  <1>2. QED
    BY <1>1, Zenon DEF CallOf, AnswerOf, Map!Write, Map!Read, Map!NoAnswer

\* The same after the step.
LEMMA BusyWorkerNext ==
  ASSUME NEW w \in Workers, pc'[w] \in {"op", "load"}
  PROVE  /\ req'[w].flag => CallOf(w)' = Map!Write(req'[w].key, content'[w])
         /\ ~req'[w].flag => CallOf(w)' = Map!Read(req'[w].key)
         /\ AnswerOf(w)' = Map!NoAnswer
  <1>1. pc'[w] \notin {"stamp", "send"}
    OBVIOUS
  <1>2. QED
    BY <1>1, Zenon DEF CallOf, AnswerOf, Map!Write, Map!Read, Map!NoAnswer

\* What the map sees of a worker that has just finished.
LEMMA FinishedWorker ==
  ASSUME NEW w \in Workers, pc'[w] \in {"stamp", "send"}
  PROVE  /\ CallOf(w)' = Map!NoCall
         /\ AnswerOf(w)' = Map!Answer(IF req'[w].flag \/ cont'[w] = NoNode
                                        THEN NoVal ELSE content'[w])
  <1>1. pc'[w] \notin {"op", "load"}
    OBVIOUS
  <1>2. QED
    BY <1>1, Zenon DEF CallOf, AnswerOf, Map!NoCall, Map!Answer

\* A write answers with nothing, a read with what its packet carries or nothing.
LEMMA WorkedAnswer ==
  ASSUME KvInv, NEW w \in Workers, Worked(w), req' = req
  PROVE  /\ CallOf(w)' = Map!NoCall
         /\ req[w].flag => AnswerOf(w)' = Map!Answer(NoVal)
         /\ ~req[w].flag =>
              AnswerOf(w)' = Map!Answer(IF cont'[w] = NoNode THEN NoVal ELSE content'[w])
  <1>1. pc'[w] \in {"stamp", "send"}
    BY AfterWork DEF KvInv
  <1>2. /\ CallOf(w)' = Map!NoCall
        /\ AnswerOf(w)' = Map!Answer(IF req'[w].flag \/ cont'[w] = NoNode
                                       THEN NoVal ELSE content'[w])
    BY <1>1, FinishedWorker
  <1>3. req'[w].flag <=> req[w].flag
    OBVIOUS
  <1>4. QED
    BY <1>2, <1>3, Zenon

\* A packet that passes the gate asks the map for something.
LEMMA AskStep ==
  ASSUME prog' = prog, UNCHANGED storeVars, NEW w \in Workers, NEW c,
         CallOf(w) = Map!NoCall, AnswerOf(w) = Map!NoAnswer,
         CallOf(w)' = c, AnswerOf(w)' = Map!NoAnswer,
         \A x \in Workers \ {w} : CallOf(x)' = CallOf(x) /\ AnswerOf(x)' = AnswerOf(x)
  PROVE  Map!Ask(w, c)
  <1>1. [x \in Workers |-> CallOf(x)]' = [[x \in Workers |-> CallOf(x)] EXCEPT ![w] = c]
    OBVIOUS
  <1>2. [x \in Workers |-> AnswerOf(x)]' = [x \in Workers |-> AnswerOf(x)]
    OBVIOUS
  <1>3. ~[x \in Workers |-> AnswerOf(x)][w].done
    BY DEF Map!NoAnswer
  <1>4. [x \in Workers |-> CallOf(x)][w] = Map!NoCall
    OBVIOUS
  <1>5. QED
    BY <1>1, <1>2, <1>3, <1>4, PartSame, ContentSame DEF Map!Ask

\* Finishing an operation with answer v.
LEMMA AnswersStep ==
  ASSUME NEW w \in Workers, NEW v,
         CallOf(w)' = Map!NoCall, AnswerOf(w)' = Map!Answer(v),
         \A x \in Workers \ {w} : CallOf(x)' = CallOf(x) /\ AnswerOf(x)' = AnswerOf(x)
  PROVE  Map!Answers(w, v)
  <1>1. [x \in Workers |-> CallOf(x)]'
          = [[x \in Workers |-> CallOf(x)] EXCEPT ![w] = Map!NoCall]
    OBVIOUS
  <1>2. [x \in Workers |-> AnswerOf(x)]'
          = [[x \in Workers |-> AnswerOf(x)] EXCEPT ![w] = Map!Answer(v)]
    OBVIOUS
  <1>3. QED
    BY <1>1, <1>2 DEF Map!Answers

\* A read that answers with the content of its key.
LEMMA GetStep ==
  ASSUME prog' = prog, UNCHANGED storeVars,
         NEW w \in Workers, NEW k \in Keys,
         CallOf(w) = Map!Read(k),
         CallOf(w)' = Map!NoCall, AnswerOf(w)' = Map!Answer(Content(k)),
         \A x \in Workers \ {w} : CallOf(x)' = CallOf(x) /\ AnswerOf(x)' = AnswerOf(x)
  PROVE  Map!Get(w, k)
  <1> DEFINE v == Content(k)
  <1>1. AnswerOf(w)' = Map!Answer(v)
    OBVIOUS
  <1>2. v = [j \in Keys |-> Content(j)][k]
    OBVIOUS
  <1>3. Map!Answers(w, v)
    <2> HIDE DEF v
    <2> QED
      BY <1>1, AnswersStep
  <1>4. [x \in Workers |-> CallOf(x)][w] = Map!Read(k)
    OBVIOUS
  <1>5. QED
    BY <1>2, <1>3, <1>4, PartSame, ContentSame DEF Map!Get

\* The answer leaves.
LEMMA ReplyStep ==
  ASSUME prog' = prog, UNCHANGED storeVars, NEW w \in Workers,
         AnswerOf(w).done, AnswerOf(w)' = Map!NoAnswer, CallOf(w)' = CallOf(w),
         \A x \in Workers \ {w} : CallOf(x)' = CallOf(x) /\ AnswerOf(x)' = AnswerOf(x)
  PROVE  Map!Reply(w)
  <1>1. [x \in Workers |-> CallOf(x)]' = [x \in Workers |-> CallOf(x)]
    OBVIOUS
  <1>2. [x \in Workers |-> AnswerOf(x)]'
          = [[x \in Workers |-> AnswerOf(x)] EXCEPT ![w] = Map!NoAnswer]
    OBVIOUS
  <1>3. QED
    BY <1>1, <1>2, PartSame, ContentSame DEF Map!Reply

\* A step the map does not see.
LEMMA StutterStep ==
  ASSUME prog' = prog, UNCHANGED storeVars,
         \A x \in Workers : CallOf(x)' = CallOf(x) /\ AnswerOf(x)' = AnswerOf(x)
  PROVE  UNCHANGED Map!vars
  <1>1. [x \in Workers |-> CallOf(x)]' = [x \in Workers |-> CallOf(x)]
    OBVIOUS
  <1>2. [x \in Workers |-> AnswerOf(x)]' = [x \in Workers |-> AnswerOf(x)]
    OBVIOUS
  <1>3. QED
    BY <1>1, <1>2, PartSame, ContentSame DEF Map!vars

\* A write that takes effect.
LEMMA StoresStep ==
  ASSUME KvInv,
         NEW w \in Workers, pc[w] = "op", req[w].flag,
         NEW n \in Blocks(SetOf(req[w].key)),
         NEW gone \in SUBSET Keys,
         \A j \in Keys : entry[j] = n => j = req[w].key \/ j \in gone,
         Link(w, n, gone)
  PROVE  Map!Stores(req[w].key, content[w], gone)
  <1> DEFINE k == req[w].key
             v == content[w]
  <1>1. k \in Keys /\ v \in Vals /\ n \in Nodes /\ n # NoNode
    <2>1. k \in Keys /\ v \in Vals
      BY EntryOK DEF KvInv, RequestInv, RequestOK
    <2>2. QED
      BY <2>1, SetOfType, BlocksInSet
  <1>t. /\ entry \in [Keys -> Nodes \cup {NoNode}]
        /\ val \in [Nodes -> Vals \cup {NoVal}]
    BY DEF KvInv, TypeOK
  <1>2. ASSUME NEW j \in Keys
        PROVE  Content(j)' = IF j = k THEN v ELSE IF j \in gone THEN NoVal ELSE Content(j)
    <2>1. entry'[j] = IF j = k THEN n ELSE IF j \in gone THEN NoNode ELSE entry[j]
      BY DEF Link
    <2>2. val' = [val EXCEPT ![n] = v]
      BY DEF Link
    <2>3. entry[j] \in Nodes \cup {NoNode}
      BY <1>t
    <2>4. CASE j = k
      BY <1>1, <1>t, <2>1, <2>2, <2>4 DEF Content
    <2>5. CASE j # k /\ j \in gone
      BY <2>1, <2>5 DEF Content
    <2>6. CASE j # k /\ j \notin gone
      <3>1. entry[j] # n /\ entry'[j] = entry[j]
        BY <2>1, <2>6
      <3>2. entry[j] # NoNode => val'[entry[j]] = val[entry[j]]
        BY <3>1, <2>2, <2>3, <1>t
      <3>3. QED
        BY <3>1, <3>2, <2>6 DEF Content
    <2>7. QED
      BY <2>4, <2>5, <2>6
  <1>3. [j \in Keys |-> Content(j)]'
          = [j \in Keys |-> IF j = k THEN v
                            ELSE IF j \in gone THEN NoVal
                            ELSE [i \in Keys |-> Content(i)][j]]
    BY <1>2
  <1>4. QED
    BY <1>3 DEF Map!Stores

\* A set of the map is full when the store has no unused element in it.
LEMMA FullSame ==
  ASSUME KvInv, NEW k \in Keys
  PROVE  Map!Full([j \in Keys |-> SetOf(j)][k]) <=> Unused(SetOf(k)) = {}
  <1> DEFINE s == SetOf(k)
  <1>1. s \in Sets
    BY SetOfType
  <1>2. Map!Stored(s) = Holders(s)
    BY DEF Map!Stored, Holders
  <1>3. Map!Full(s) <=> Cardinality(Holders(s)) >= BLOCKS
    BY <1>2 DEF Map!Full, Map!Cardinality, Cardinality
  <1>4. QED
    BY <1>1, <1>3, FullIffNoneUnused

(***************************************************************************)
(* A finished write that was stored, with or without an eviction, is a Put  *)
(* of the map.                                                              *)
(***************************************************************************)
LEMMA PutStep ==
  ASSUME KvInv, prog' = prog,
         NEW w \in Workers, pc[w] = "op", req[w].flag, Worked(w),
         UNCHANGED <<req, content, cont>>,
         \/ /\ Content(req[w].key) # NoVal \/ Unused(SetOf(req[w].key)) # {}
            /\ Map!Stores(req[w].key, content[w], {})
         \/ /\ Unused(SetOf(req[w].key)) = {}
            /\ \E g \in Holders(SetOf(req[w].key)) :
                 Map!Stores(req[w].key, content[w], {g})
  PROVE  Map!Put(w, req[w].key, content[w])
  <1> DEFINE k == req[w].key
             parts == [j \in Keys |-> SetOf(j)]
             vals == [j \in Keys |-> Content(j)]
  <1>1. k \in Keys
    BY EntryOK
  <1>2. \A x \in Workers \ {w} : CallOf(x)' = CallOf(x) /\ AnswerOf(x)' = AnswerOf(x)
    BY AfterWork, OtherWorkers DEF KvInv
  <1>3. [x \in Workers |-> CallOf(x)][w] = Map!Write(k, content[w])
    BY BusyWorker
  <1>4. Map!Answers(w, NoVal)
    <2>1. CallOf(w)' = Map!NoCall /\ AnswerOf(w)' = Map!Answer(NoVal)
      BY WorkedAnswer
    <2>2. QED
      BY <1>2, <2>1, AnswersStep
  <1>5. Map!Full(parts[k]) <=> Unused(SetOf(k)) = {}
    BY <1>1, FullSame
  <1>6. Map!Stored(parts[k]) = Holders(SetOf(k)) /\ vals[k] = Content(k)
    BY <1>1 DEF Map!Stored, Holders
  <1>7. parts' = parts
    BY PartSame
  <1> HIDE DEF parts, vals
  <1>8. \/ /\ vals[k] # NoVal \/ ~Map!Full(parts[k])
           /\ Map!Stores(k, content[w], {})
        \/ /\ Map!Full(parts[k])
           /\ \E g \in Map!Stored(parts[k]) : Map!Stores(k, content[w], {g})
    BY <1>5, <1>6
  <1>9. QED
    BY <1>3, <1>4, <1>7, <1>8, Zenon DEF Map!Put, parts, vals

\* A step of the map, a step the map does not see, or a departure of a worker.
AllowedStep ==
  [Map!Next \/ \E w \in Workers : Departs(w)]_(Map!vars)

\* The map's own steps are allowed.
LEMMA MapSteps ==
  ASSUME NEW w \in Workers
  PROVE  /\ \A k \in Keys, v \in Vals :
              Map!Ask(w, Map!Write(k, v)) \/ Map!Put(w, k, v) => AllowedStep
         /\ \A k \in Keys : Map!Ask(w, Map!Read(k)) \/ Map!Get(w, k) => AllowedStep
         /\ Map!Reply(w) => AllowedStep
         /\ Departs(w) => AllowedStep
         /\ UNCHANGED Map!vars => AllowedStep
  BY Zenon DEF AllowedStep, Map!Next

\* Every step of a store is allowed.
LEMMA NextRefines ==
  ASSUME KvInv, [Next]_vars
  PROVE  AllowedStep
  <1>p. prog' = prog
    BY DEF Next, Handle, receive, reject, hash_add, hash_lookup, map_update,
           map_lookup, map_load, stamp, send, Quiet, vars
  <1>1. CASE UNCHANGED vars \/ Quiet
    <2>1. UNCHANGED vars
      BY <1>1 DEF Quiet
    <2>2. \A x \in Workers : CallOf(x)' = CallOf(x) /\ AnswerOf(x)' = AnswerOf(x)
      BY <2>1, OtherWorkers DEF vars
    <2>3. UNCHANGED Map!vars
      BY <2>1, <2>2, <1>p, StutterStep DEF vars, storeVars
    <2>4. QED
      BY <2>3 DEF AllowedStep
  <1>2. ASSUME NEW w \in Workers, Handle(w)
        PROVE  AllowedStep
    <2> DEFINE k == req[w].key
               Others == \A x \in Workers \ {w} :
                           CallOf(x)' = CallOf(x) /\ AnswerOf(x)' = AnswerOf(x)
    <2>o. ASSUME \A x \in Workers \ {w} :
                   /\ pc'[x] = pc[x] /\ req'[x] = req[x] /\ content'[x] = content[x]
                   /\ cont'[x] = cont[x]
          PROVE  Others
      BY <2>o, OtherWorkers
    <2>t. /\ pc \in [Workers -> PCs] /\ DOMAIN req = Workers
          /\ DOMAIN content = Workers /\ DOMAIN cont = Workers
      BY DEF KvInv, TypeOK
    <2>1. CASE receive(w)
      <3>1. PICK r \in Requests : \E c \in IF r.flag THEN Vals ELSE {0} :
              /\ req' = [req EXCEPT ![w] = r]
              /\ content' = [content EXCEPT ![w] = c]
        BY <2>1 DEF receive
      <3>2. /\ pc[w] = "idle" /\ pc'[w] = "op" /\ UNCHANGED storeVars
            /\ req'[w] = r /\ r.key \in Keys /\ r.flag \in BOOLEAN
            /\ r.flag => content'[w] \in Vals
        BY <2>1, <2>t, <3>1 DEF receive, Goto, Requests
      <3>3. Others
        BY <2>1, <2>t, <2>o, <3>1 DEF receive, Goto
      <3>4. CallOf(w) = Map!NoCall /\ AnswerOf(w) = Map!NoAnswer
        BY <3>2, IdleWorker
      <3>5. /\ req'[w].flag => CallOf(w)' = Map!Write(req'[w].key, content'[w])
            /\ ~req'[w].flag => CallOf(w)' = Map!Read(req'[w].key)
            /\ AnswerOf(w)' = Map!NoAnswer
        BY <3>2, BusyWorkerNext
      <3>6. CASE r.flag
        <4> DEFINE c == Map!Write(r.key, content'[w])
        <4>1. CallOf(w)' = c
          BY <3>2, <3>5, <3>6, Zenon
        <4>2. Map!Ask(w, c)
          <5> HIDE DEF c
          <5> QED
            BY <1>p, <3>2, <3>3, <3>4, <3>5, <4>1, AskStep
        <4>3. QED
          BY <3>2, <3>6, <4>2, MapSteps
      <3>7. CASE ~r.flag
        <4> DEFINE c == Map!Read(r.key)
        <4>1. CallOf(w)' = c
          BY <3>2, <3>5, <3>7, Zenon
        <4>2. Map!Ask(w, c)
          <5> HIDE DEF c
          <5> QED
            BY <1>p, <3>2, <3>3, <3>4, <3>5, <4>1, AskStep
        <4>3. QED
          BY <3>2, <4>2, MapSteps
      <3>8. QED
        BY <3>6, <3>7
    <2>2. CASE reject(w)
      <3>1. \A x \in Workers : CallOf(x)' = CallOf(x) /\ AnswerOf(x)' = AnswerOf(x)
        BY <2>2, OtherWorkers DEF reject
      <3>2. QED
        BY <2>2, <1>p, <3>1, StutterStep, MapSteps DEF reject
    <2>3. CASE hash_add(w) \/ map_update(w)
      <3>1. /\ pc[w] = "op" /\ req[w].flag = TRUE /\ Worked(w)
            /\ UNCHANGED <<req, content, cont>>
        BY <2>3 DEF hash_add, map_update, At
      <3>2. k \in Keys /\ content[w] \in Vals /\ SetOf(k) \in Sets
        BY <3>1, EntryOK, SetOfType DEF KvInv, RequestInv, RequestOK
      <3>3. Others
        BY <3>1, <2>o, AfterWork DEF KvInv
      <3>4. ASSUME NEW n \in Blocks(SetOf(k)), NEW gone \in SUBSET Keys,
                   \A j \in Keys : entry[j] = n => j = k \/ j \in gone,
                   Link(w, n, gone)
            PROVE  Map!Stores(k, content[w], gone)
        BY <3>1, <3>4, StoresStep
      <3>5. (Content(k) = NoVal) <=> (entry[k] = NoNode)
        BY <3>2, StoredHasEntry
      <3>6. \/ /\ Content(k) # NoVal \/ Unused(SetOf(k)) # {}
               /\ Map!Stores(k, content[w], {})
            \/ /\ Unused(SetOf(k)) = {}
               /\ \E g \in Holders(SetOf(k)) : Map!Stores(k, content[w], {g})
            \/ /\ Unused(SetOf(k)) = {}
               /\ prog.arch = "dpdk" => entry[k] = NoNode
               /\ UNCHANGED storeVars
        <4>1. ASSUME NEW n \in Unused(SetOf(k)), Link(w, n, {})
              PROVE  /\ Unused(SetOf(k)) # {}
                     /\ Map!Stores(k, content[w], {})
          <5>1. n \in Blocks(SetOf(k)) /\ \A j \in Keys : entry[j] # n
            BY DEF Unused
          <5>2. QED
            BY <3>4, <4>1, <5>1
        <4>2. ASSUME NEW g \in Keys, SetOf(g) = SetOf(k), entry[g] # NoNode,
                     Link(w, entry[g], {g})
              PROVE  \E h \in Holders(SetOf(k)) : Map!Stores(k, content[w], {h})
          <5>1. /\ entry[g] \in Blocks(SetOf(k))
                /\ \A j \in Keys : entry[j] = entry[g] => j \in {g}
            BY <4>2 DEF KvInv, NodesExclusive
          <5>2. Map!Stores(k, content[w], {g})
            BY <3>4, <4>2, <5>1
          <5>3. g \in Holders(SetOf(k))
            BY <4>2, StoredHasEntry DEF Holders
          <5>4. QED
            BY <5>2, <5>3
        <4>3. CASE hash_add(w)
          <5>1. CASE entry[k] # NoNode /\ Link(w, entry[k], {})
            <6>1. /\ entry[k] \in Blocks(SetOf(k))
                  /\ \A j \in Keys : entry[j] = entry[k] => j = k
              BY <3>2, <5>1 DEF KvInv, NodesExclusive
            <6>2. Map!Stores(k, content[w], {})
              BY <3>4, <5>1, <6>1
            <6>3. QED
              BY <3>5, <5>1, <6>2
          <5>2. \/ entry[k] # NoNode /\ Link(w, entry[k], {})
                \/ \E n \in Unused(SetOf(k)) : Link(w, n, {})
                \/ /\ entry[k] = NoNode /\ Unused(SetOf(k)) = {}
                   /\ UNCHANGED storeVars
            BY <4>3 DEF hash_add
          <5>3. QED
            BY <4>1, <5>1, <5>2
        <4>4. CASE map_update(w)
          <5>1. prog.arch # "dpdk"
            BY <4>4 DEF map_update, At
          <5>2. \/ \E n \in Unused(SetOf(k)) : Link(w, n, {})
                \/ /\ Unused(SetOf(k)) = {}
                   /\ \E g \in {j \in Keys : SetOf(j) = SetOf(k) /\ entry[j] # NoNode} :
                        Link(w, entry[g], {g})
                \/ Unused(SetOf(k)) = {} /\ UNCHANGED storeVars
            BY <4>4 DEF map_update
          <5>3. QED
            BY <4>1, <4>2, <5>1, <5>2
        <4>5. QED
          BY <2>3, <4>3, <4>4
      <3>7. CASE /\ Unused(SetOf(k)) = {} /\ UNCHANGED storeVars
                 /\ prog.arch = "dpdk" => entry[k] = NoNode
        <4>1. Refusable(w)
          BY <3>1, <3>7 DEF Refusable
        <4>2. AnswerOf(w)' = Map!Answer(NoVal)
          BY <3>1, WorkedAnswer
        <4>3. AnswerOf(w)'.done
          BY <4>2 DEF Map!Answer
        <4>4. Departs(w)
          BY <1>p, <3>3, <3>7, <4>1, <4>3 DEF Departs
        <4>5. QED
          BY <4>4, MapSteps
      <3>8. CASE \/ /\ Content(k) # NoVal \/ Unused(SetOf(k)) # {}
                    /\ Map!Stores(k, content[w], {})
                 \/ /\ Unused(SetOf(k)) = {}
                    /\ \E g \in Holders(SetOf(k)) : Map!Stores(k, content[w], {g})
        <4>1. Map!Put(w, k, content[w])
          BY <3>1, <3>8, <1>p, PutStep
        <4>2. QED
          BY <3>2, <4>1, MapSteps
      <3>9. QED
        BY <3>6, <3>7, <3>8
    <2>4. CASE hash_lookup(w)
      <3>1. /\ pc[w] = "op" /\ req[w].flag = FALSE /\ Worked(w)
            /\ UNCHANGED <<storeVars, req>>
            /\ cont'[w] = entry[k]
            /\ content'[w] = IF entry[k] = NoNode THEN 0 ELSE val[entry[k]]
            /\ \A x \in Workers \ {w} : cont'[x] = cont[x] /\ content'[x] = content[x]
        BY <2>4, <2>t DEF hash_lookup, At
      <3>2. k \in Keys /\ Others
        BY <3>1, <2>o, EntryOK, AfterWork DEF KvInv
      <3>3. /\ CallOf(w)' = Map!NoCall
            /\ AnswerOf(w)' = Map!Answer(IF cont'[w] = NoNode THEN NoVal ELSE content'[w])
        BY <3>1, WorkedAnswer
      <3>4. AnswerOf(w)' = Map!Answer(Content(k))
        BY <3>1, <3>3 DEF Content
      <3>5. CallOf(w) = Map!Read(k)
        BY <3>1, BusyWorker
      <3>6. Map!Get(w, k)
        BY <1>p, <3>1, <3>2, <3>3, <3>4, <3>5, GetStep
      <3>7. QED
        BY <3>2, <3>6, MapSteps
    <2>5. CASE map_lookup(w)
      <3>1. /\ pc[w] = "op" /\ req[w].flag = FALSE
            /\ UNCHANGED <<storeVars, req, content>>
            /\ cont'[w] = entry[k]
            /\ \A x \in Workers \ {w} : cont'[x] = cont[x]
            /\ IF entry[k] = NoNode THEN Worked(w) ELSE Goto(w, "load")
        BY <2>5, <2>t DEF map_lookup, At
      <3>2. k \in Keys
        BY <3>1, EntryOK
      <3>3. CallOf(w) = Map!Read(k) /\ AnswerOf(w) = Map!NoAnswer
        BY <3>1, BusyWorker
      <3>4. CASE entry[k] = NoNode
        <4>1. Worked(w) /\ Others
          BY <3>1, <3>4, <2>o, AfterWork DEF KvInv
        <4>2. /\ CallOf(w)' = Map!NoCall
              /\ AnswerOf(w)' = Map!Answer(IF cont'[w] = NoNode THEN NoVal ELSE content'[w])
          BY <3>1, <4>1, WorkedAnswer
        <4>3. AnswerOf(w)' = Map!Answer(Content(k))
          BY <3>1, <3>4, <4>2 DEF Content
        <4>4. Map!Get(w, k)
          BY <1>p, <3>1, <3>2, <3>3, <4>1, <4>2, <4>3, GetStep
        <4>5. QED
          BY <3>2, <4>4, MapSteps
      <3>5. CASE entry[k] # NoNode
        <4>1. pc'[w] = "load" /\ Others
          BY <3>1, <3>5, <2>o, <2>t DEF Goto
        <4>2. CallOf(w)' = Map!Read(k) /\ AnswerOf(w)' = Map!NoAnswer
          BY <3>1, <4>1, BusyWorkerNext
        <4>3. \A x \in Workers : CallOf(x)' = CallOf(x) /\ AnswerOf(x)' = AnswerOf(x)
          BY <3>3, <4>1, <4>2
        <4>4. QED
          BY <1>p, <3>1, <4>3, StutterStep, MapSteps
      <3>6. QED
        BY <3>4, <3>5
    <2>6. CASE map_load(w)
      <3>1. /\ pc[w] = "load" /\ Worked(w)
            /\ UNCHANGED <<storeVars, req, cont>>
            /\ content'[w] = val[cont[w]]
            /\ \A x \in Workers \ {w} : content'[x] = content[x]
        BY <2>6, <2>t DEF map_load
      <3>2. k \in Keys /\ Others
        BY <3>1, <2>o, EntryOK, AfterWork DEF KvInv
      <3>3. ~req[w].flag /\ cont[w] # NoNode
        <4>1. ~req[w].flag /\ cont[w] \in Blocks(SetOf(k))
          BY <3>1 DEF KvInv, RequestInv, RequestOK
        <4>2. QED
          BY <3>2, <4>1, SetOfType, BlocksInSet
      <3>4. CallOf(w) = Map!Read(k)
        BY <3>1, <3>3, BusyWorker
      <3>5. CallOf(w)' = Map!NoCall /\ AnswerOf(w)' = Map!Answer(val[cont[w]])
        <4>1. /\ CallOf(w)' = Map!NoCall
              /\ AnswerOf(w)' = Map!Answer(IF cont'[w] = NoNode THEN NoVal ELSE content'[w])
          BY <3>1, <3>3, WorkedAnswer
        <4>2. QED
          BY <3>1, <3>3, <4>1
      <3>6. CASE raced[w]
        <4>1. Overtaken(w)
          BY <3>1, <3>6, Zenon DEF Overtaken
        <4>2. AnswerOf(w)'.done
          BY <3>5 DEF Map!Answer
        <4>3. Departs(w)
          BY <1>p, <3>1, <3>2, <4>1, <4>2 DEF Departs
        <4>4. QED
          BY <4>3, MapSteps
      <3>7. CASE ~raced[w]
        <4>1. entry[k] = cont[w]
          BY <3>1, <3>7 DEF KvInv, FreshInv
        <4>2. AnswerOf(w)' = Map!Answer(Content(k))
          BY <3>3, <3>5, <4>1 DEF Content
        <4>3. Map!Get(w, k)
          BY <1>p, <3>1, <3>2, <3>4, <3>5, <4>2, GetStep
        <4>4. QED
          BY <3>2, <4>3, MapSteps
      <3>8. QED
        BY <3>6, <3>7, Zenon
    <2>7. CASE stamp(w)
      <3>1. /\ pc[w] = "stamp" /\ pc'[w] = "send" /\ UNCHANGED <<storeVars, req, cont>>
            /\ Others
        BY <2>7, <2>t, <2>o DEF stamp, Goto
      <3>2. /\ CallOf(w)' = Map!NoCall
            /\ AnswerOf(w)' = Map!Answer(IF req'[w].flag \/ cont'[w] = NoNode
                                           THEN NoVal ELSE content'[w])
        BY <3>1, FinishedWorker
      <3>3. CASE ~req[w].flag
        <4>1. Overwritten(w)
          BY <3>1, <3>3, Zenon DEF Overwritten
        <4>2. AnswerOf(w)'.done
          BY <3>2 DEF Map!Answer
        <4>3. Departs(w)
          BY <1>p, <3>1, <4>1, <4>2 DEF Departs
        <4>4. QED
          BY <4>3, MapSteps
      <3>4. CASE req[w].flag
        <4>1. AnswerOf(w)' = Map!Answer(NoVal)
          BY <3>1, <3>2, <3>4, Zenon
        <4>2. pc[w] \in {"stamp", "send"} /\ pc[w] \notin {"op", "load"}
          BY <3>1
        <4>3. AnswerOf(w) = Map!Answer(NoVal) /\ CallOf(w) = Map!NoCall
          BY <4>2, <3>4, Zenon DEF AnswerOf, CallOf, Map!Answer, Map!NoCall
        <4>4. \A x \in Workers : CallOf(x)' = CallOf(x) /\ AnswerOf(x)' = AnswerOf(x)
          BY <3>1, <3>2, <4>1, <4>3
        <4>5. QED
          BY <1>p, <3>1, <4>4, StutterStep, MapSteps
      <3>5. QED
        BY <3>3, <3>4
    <2>8. CASE send(w)
      <3>1. /\ pc[w] = "send" /\ pc'[w] = "idle" /\ UNCHANGED storeVars
            /\ Others
        BY <2>8, <2>t, <2>o DEF send, Goto
      <3>2. CallOf(w)' = Map!NoCall /\ AnswerOf(w)' = Map!NoAnswer
        BY <3>1, IdleWorker
      <3>3. pc[w] \in {"stamp", "send"} /\ pc[w] \notin {"op", "load"}
        BY <3>1
      <3>4. /\ CallOf(w) = Map!NoCall
            /\ AnswerOf(w) = [done |-> TRUE,
                 val |-> IF req[w].flag \/ cont[w] = NoNode THEN NoVal ELSE content[w]]
        BY <3>3, Zenon DEF AnswerOf, CallOf, Map!NoCall
      <3>5. AnswerOf(w).done
        BY <3>4
      <3>6. Map!Reply(w)
        BY <1>p, <3>1, <3>2, <3>4, <3>5, ReplyStep
      <3>7. QED
        BY <3>6, MapSteps
    <2>9. QED
      BY <1>2, <2>1, <2>2, <2>3, <2>4, <2>5, <2>6, <2>7, <2>8 DEF Handle
  <1>3. QED
    BY <1>1, <1>2 DEF Next

(***************************************************************************)
(* The stores of kvstore.c, under DPDK and under XDP, are the map of KvMap, *)
(* for any number of workers, keys and contents and any size of the sets,   *)
(* but for a write that a full set refuses, a read that a write overtakes   *)
(* between its lookup and its load, and an answer that the times are        *)
(* written over.                                                            *)
(***************************************************************************)
THEOREM StoreImplementsMap == Spec => ImplementsMap
  <1>1. KvInv /\ [Next]_vars
          => [Map!Next \/ \E w \in Workers : Departs(w)]_(Map!vars)
    BY NextRefines DEF AllowedStep
  <1>2. QED
    BY <1>1, InitRefines, KvInvariance, PTL DEF Spec, ImplementsMap

--------------------------------------------------------------------------------
(* The DPDK store while its keys fit.                                        *)

\* As many elements as keys: a key that is not stored always finds one.
LEMMA RoomForAll ==
  ASSUME KvInv, IsFiniteSet(Keys), Cardinality(Keys) <= BLOCKS,
         NEW k \in Keys, entry[k] = NoNode
  PROVE  Unused(SetOf(k)) # {}
  <1> DEFINE s == SetOf(k)
             rest == Keys \ {k}
             held == Holders(s)
  <1>1. s \in Sets
    BY SetOfType
  <1>2. held \subseteq rest
    BY StoredHasEntry DEF Holders
  <1>3. IsFiniteSet(rest) /\ Cardinality(rest) = Cardinality(Keys) - 1
    BY FS_RemoveElement
  <1>4. Cardinality(Keys) \in Nat /\ Cardinality(rest) \in Nat
    BY <1>3, FS_CardinalityType
  <1>5. IsFiniteSet(held) /\ Cardinality(held) <= Cardinality(rest)
    <2> HIDE DEF held, rest
    <2> QED
      BY <1>2, <1>3, FS_Subset
  <1>6. Cardinality(held) \in Nat
    BY <1>5, FS_CardinalityType
  <1>7. ~(Cardinality(held) >= BLOCKS)
    <2> HIDE DEF held, rest
    <2> QED
      BY <1>3, <1>4, <1>5, <1>6
  <1>8. QED
    BY <1>1, <1>7, FullIffNoneUnused

(***************************************************************************)
(* The DPDK store (rte_hash_add_key_data and rte_hash_lookup_data) is the   *)
(* map, without any departure, as long as clients use no more keys than the *)
(* hash has elements, all of which it can use: every write is stored, and   *)
(* every read of any lcore answers with what was last written to its key.   *)
(***************************************************************************)
THEOREM RoomyHashIsMap ==
  ASSUME \A p \in Programs : p.arch = "dpdk",
         IsFiniteSet(Keys), Cardinality(Keys) <= BLOCKS
  PROVE  Spec => Map!Spec
  <1>1. ASSUME KvInv, NEW w \in Workers PROVE ~Departs(w)
    <2>1. prog.arch = "dpdk" /\ RequestOK(w)
      BY <1>1 DEF KvInv, TypeOK, RequestInv
    <2>2. ~Overtaken(w) /\ ~Overwritten(w)
      BY <2>1 DEF Overtaken, Overwritten, RequestOK, xdp_kvstore
    <2>3. ~Refusable(w)
      <3> SUFFICES ASSUME Refusable(w) PROVE FALSE
        OBVIOUS
      <3>1. /\ pc[w] = "op" /\ entry[req[w].key] = NoNode
            /\ Unused(SetOf(req[w].key)) = {}
        BY <2>1 DEF Refusable
      <3>2. req[w].key \in Keys
        BY <1>1, <3>1, EntryOK
      <3>3. QED
        BY <1>1, <3>1, <3>2, RoomForAll
    <2>4. QED
      BY <2>2, <2>3 DEF Departs
  <1>2. KvInv /\ [Next]_vars => [Map!Next]_(Map!vars)
    <2> SUFFICES ASSUME KvInv, [Next]_vars PROVE [Map!Next]_(Map!vars)
      OBVIOUS
    <2>1. AllowedStep
      BY NextRefines
    <2>2. QED
      BY <2>1, <1>1 DEF AllowedStep
  <1>3. QED
    BY <1>2, InitRefines, KvInvariance, PTL DEF Spec, Map!Spec
================================================================================
