--------------------------------- MODULE KvMap ---------------------------------
(***************************************************************************)
(* What the headers of the key-value stores promise: a cache cut into sets  *)
(* of at most BLOCKS keys, the set of a key determined by the key.          *)
(*                                                                          *)
(*   - a write always takes effect.  A full set loses a key for it; which   *)
(*     one is left to the policy that is built into the table;              *)
(*   - a read answers with the content its key has at that moment, or with  *)
(*     nothing when the key is not in the store;                            *)
(*   - the answer that is sent is the answer that was found.                *)
(***************************************************************************)
EXTENDS Naturals, FiniteSets

CONSTANTS Workers, Keys, Vals, NoVal, Sets, BLOCKS

VARIABLES
  part,    (* the set each key belongs to; never changes                    *)
  store,   (* the content of each key, or NoVal                             *)
  call,    (* the operation each worker was asked for and has not done yet  *)
  ans      (* the answer of a finished operation that is not sent yet       *)

vars == <<part, store, call, ans>>

Write(k, v) == [op |-> "write", key |-> k, val |-> v]
Read(k) == [op |-> "read", key |-> k, val |-> NoVal]
NoCall == [op |-> "none", key |-> NoVal, val |-> NoVal]

NoAnswer == [done |-> FALSE, val |-> NoVal]
Answer(v) == [done |-> TRUE, val |-> v]

Init ==
  /\ part \in [Keys -> Sets]
  /\ store = [k \in Keys |-> NoVal]
  /\ call = [w \in Workers |-> NoCall]
  /\ ans = [w \in Workers |-> NoAnswer]

Stored(s) == {k \in Keys : part[k] = s /\ store[k] # NoVal}
Full(s) == Cardinality(Stored(s)) >= BLOCKS

Ask(w, c) ==
  /\ call[w] = NoCall /\ ~ans[w].done
  /\ call' = [call EXCEPT ![w] = c]
  /\ UNCHANGED <<part, store, ans>>

Answers(w, v) ==
  /\ call' = [call EXCEPT ![w] = NoCall]
  /\ ans' = [ans EXCEPT ![w] = Answer(v)]

\* The write takes effect; gone is the set of keys that are evicted for it.
Stores(k, v, gone) ==
  store' = [j \in Keys |-> IF j = k THEN v
                           ELSE IF j \in gone THEN NoVal ELSE store[j]]

Put(w, k, v) ==
  /\ call[w] = Write(k, v)
  /\ \/ (store[k] # NoVal \/ ~Full(part[k])) /\ Stores(k, v, {})
     \/ Full(part[k]) /\ \E g \in Stored(part[k]) : Stores(k, v, {g})
  /\ Answers(w, NoVal)
  /\ UNCHANGED part

Get(w, k) ==
  /\ call[w] = Read(k)
  /\ Answers(w, store[k])
  /\ UNCHANGED <<part, store>>

\* The answer is sent.
Reply(w) ==
  /\ ans[w].done
  /\ ans' = [ans EXCEPT ![w] = NoAnswer]
  /\ UNCHANGED <<part, store, call>>

Next ==
  \E w \in Workers :
    \/ \E k \in Keys, v \in Vals : Ask(w, Write(k, v)) \/ Put(w, k, v)
    \/ \E k \in Keys : Ask(w, Read(k)) \/ Get(w, k)
    \/ Reply(w)

Spec == Init /\ [][Next]_vars
================================================================================
