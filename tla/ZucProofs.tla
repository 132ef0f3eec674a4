------------------------------ MODULE ZucProofs -------------------------------
(***************************************************************************)
(* Proofs about the arithmetic of zuc.h, for every width and every HPU, and *)
(* about the ZUC programs, for any number of workers, any sizes of packets  *)
(* and heap and any contents.                                               *)
(***************************************************************************)
EXTENDS Zuc, FiniteSetTheorems, TLAPS

(***************************************************************************)
(* AddM adds modulo 2^31-1: on two cells it gives a cell, which differs     *)
(* from their sum by nothing or by 2^31-1.  (The uninitialised f of         *)
(* LFSRWithInitialisationMode is not a cell, and escapes this.)             *)
(***************************************************************************)
THEOREM AddMCorrect ==
  \A a, b \in Cells :
    /\ AddM(a, b) \in Cells
    /\ AddM(a, b) = a + b \/ AddM(a, b) = a + b - (H - 1)
<1>1. SUFFICES ASSUME NEW a \in Cells, NEW b \in Cells
               PROVE  /\ AddM(a, b) \in Cells
                      /\ AddM(a, b) = a + b \/ AddM(a, b) = a + b - (H - 1)
  OBVIOUS
<1>2. CASE a + b < H
  BY <1>2, HAssumption DEF AddM, LowBits, TopBit, Cells
<1>3. CASE a + b >= H
  BY <1>3, HAssumption DEF AddM, LowBits, TopBit, Cells
<1> QED
  BY <1>2, <1>3, HAssumption DEF Cells

(***************************************************************************)
(* As long as a message and its keystream have at most 1500 bytes, no HPU   *)
(* writes to a buffer of another, nor its keystream into its own C.         *)
(***************************************************************************)
THEOREM ScratchDisjoint ==
  \A g, h \in Nat : \A m, n \in 0 .. 1500 :
    /\ CBytes(g, m) \cap ZBytes(h, n) = {}
    /\ g # h => /\ CBytes(g, m) \cap CBytes(h, n) = {}
                /\ ZBytes(g, m) \cap ZBytes(h, n) = {}
<1>1. SUFFICES ASSUME NEW g \in Nat, NEW h \in Nat,
                      NEW m \in 0 .. 1500, NEW n \in 0 .. 1500
               PROVE  /\ CBytes(g, m) \cap ZBytes(h, n) = {}
                      /\ g # h => /\ CBytes(g, m) \cap CBytes(h, n) = {}
                                  /\ ZBytes(g, m) \cap ZBytes(h, n) = {}
  OBVIOUS
<1>2. CBytes(g, m) \cap ZBytes(h, n) = {}
  BY DEF CBytes, ZBytes
<1>3. ASSUME g # h PROVE CBytes(g, m) \cap CBytes(h, n) = {}
  BY <1>3 DEF CBytes
<1>4. ASSUME g # h PROVE ZBytes(g, m) \cap ZBytes(h, n) = {}
  BY <1>4 DEF ZBytes
<1> QED
  BY <1>2, <1>3, <1>4

--------------------------------------------------------------------------------
(* The inductive invariant of the programs.                                  *)

\* The phases in which the shared registers are used.
Shared == {"reorganise", "f", "shift"}

Busy == {v \in Workers : pc[v] \in Ciphering \cup {"xor"}}
Writing == {v \in Workers : pc[v] \in {"write"}}

\* A sequence, of whatever elements.
IsSeq(s) == s \in Seq({s[k] : k \in 1 .. Len(s)})

ShapeInv ==
  /\ DOMAIN payload = Workers /\ DOMAIN origin = Workers /\ DOMAIN run = Workers
  /\ DOMAIN w = Workers /\ DOMAIN z = Workers
  /\ \A v \in Workers : IsSeq(z[v])
  /\ DOMAIN last.answer = WordIndex /\ DOMAIN last.request = WordIndex

\* The length of the keystream in each phase.
KeystreamOf(v) ==
  /\ pc[v] \in {"idle", "init"} => z[v] = <<>>
  /\ pc[v] \in Shared => count[v] <= INIT_ROUNDS + L
  /\ pc[v] \in {"reorganise", "f"} =>
       Len(z[v]) = IF count[v] <= INIT_ROUNDS THEN 0 ELSE count[v] - INIT_ROUNDS - 1
  /\ pc[v] = "shift" =>
       Len(z[v]) = IF count[v] <= INIT_ROUNDS THEN 0 ELSE count[v] - INIT_ROUNDS
  /\ pc[v] \in {"xor", "write"} => Len(z[v]) = L

KeystreamInv == \A v \in Workers : KeystreamOf(v)

\* What F_R1 and F_R2 hold before round n of a run.
FBefore(r, n) == IF n = 0 THEN Zero ELSE Token(r, n)

\* A worker alone in the cipher finds in the shared registers what it left there.
AloneOf(v) ==
  /\ pc[v] \in Shared => /\ \A x \in Workers \ {v} : pc[x] \notin Shared
                         /\ lfsr = Token(run[v], count[v])
  /\ pc[v] \in {"reorganise", "f"} => fr = FBefore(run[v], count[v])
  /\ pc[v] = "f" => brc = Token(run[v], count[v])
  /\ pc[v] = "shift" => /\ w[v] = Token(run[v], count[v])
                        /\ fr = Token(run[v], count[v] + 1)
  /\ \A k \in 1 .. Len(z[v]) : z[v][k] = Key(run[v], INIT_ROUNDS + k)

AloneInv == \A v \in Workers : solo[v] => AloneOf(v)

\* Blocks and packets are accounted for.
AccountInv ==
  /\ IsFiniteSet(Busy) /\ IsFiniteSet(Writing)
  /\ prog = pspin_zuc => heap = HEAP
  /\ HeapConserved
  /\ Cardinality(Busy) + Cardinality(Writing) + answered <= pkts

ZucInv ==
  TypeOK /\ ShapeInv /\ KeystreamInv /\ AloneInv /\ AccountInv

USE ZucAssumption

\* The keystream has at least one word and fewer than the packet.
LEMMA LengthBound == L \in Nat /\ 1 <= L /\ L <= WORDS - 1
  <1>1. PICK n \in Nat : WORDS = n + 1 /\ n >= 1
    BY WORDS - 1 \in Nat
  <1>2. L = (4 * n + 31) \div 32
    BY <1>1 DEF L, LENGTH
  <1>3. (4 * n + 31) \div 32 \in Nat /\ 1 <= (4 * n + 31) \div 32
        /\ (4 * n + 31) \div 32 <= n
    BY <1>1
  <1>4. QED
    BY <1>1, <1>2, <1>3

\* The keystream starts as a sequence.
LEMMA EmptySeq == IsSeq(<<>>) /\ Len(<<>>) = 0
  BY DEF IsSeq

\* Appending a word to the keystream.
LEMMA AppendSeq ==
  ASSUME NEW s, IsSeq(s), NEW e
  PROVE  /\ IsSeq(Append(s, e))
         /\ Len(s) \in Nat /\ Len(Append(s, e)) = Len(s) + 1
         /\ Append(s, e)[Len(s) + 1] = e
         /\ \A k \in 1 .. Len(s) : Append(s, e)[k] = s[k]
  <1> DEFINE S == {s[k] : k \in 1 .. Len(s)}
             T == S \cup {e}
             t == Append(s, e)
  <1>1. s \in Seq(T) /\ e \in T
    BY DEF IsSeq
  <1> HIDE DEF T
  <1>2. /\ t \in Seq(T) /\ Len(s) \in Nat /\ Len(t) = Len(s) + 1
        /\ t[Len(s) + 1] = e /\ \A k \in 1 .. Len(s) : t[k] = s[k]
    BY <1>1
  <1> HIDE DEF t
  <1>3. t \in Seq({t[k] : k \in 1 .. Len(t)})
    BY <1>2
  <1>4. QED
    BY <1>2, <1>3 DEF IsSeq, t

\* Initially no worker is in the cipher and the heap is full.
LEMMA ZucInit == Init => ZucInv
  <1> SUFFICES ASSUME Init PROVE ZucInv
    OBVIOUS
  <1> USE DEF Init
  <1>1. TypeOK
    <2>1. /\ DOMAIN lfsr \subseteq {"run", "rounds"}
          /\ DOMAIN brc \subseteq {"run", "rounds"}
          /\ \A v \in Workers : DOMAIN run[v] = {"key", "garbage"}
      BY DEF NoToken, Token, NoRun
    <2>2. \A v \in Workers : DOMAIN payload[v] = WordIndex
      BY DEF NoPayload
    <2>3. /\ count \in [Workers -> 0 .. INIT_ROUNDS + 1 + L]
          /\ \A v \in Workers : Len(z[v]) <= L
      BY LengthBound
    <2>4. pc \in [Workers -> PCs] /\ solo \in [Workers -> BOOLEAN] /\ crashed \in BOOLEAN
      BY DEF PCs
    <2>5. prog \in Programs /\ heap \in 0 .. HEAP /\ pkts \in 0 .. MaxPkt
          /\ answered \in 0 .. MaxPkt
      OBVIOUS
    <2>6. QED
      BY <2>1, <2>2, <2>3, <2>4, <2>5, Zenon DEF TypeOK
  <1>2. ShapeInv
    BY EmptySeq DEF ShapeInv, NoAnswer, NoPayload
  <1>3. KeystreamInv /\ AloneInv
    BY DEF KeystreamInv, KeystreamOf, AloneInv, AloneOf, Shared
  <1>4. Busy = {} /\ Writing = {}
    BY DEF Busy, Writing, Ciphering
  <1>5. AccountInv
    <2>1. /\ IsFiniteSet(Busy) /\ Cardinality(Busy) = 0
          /\ IsFiniteSet(Writing) /\ Cardinality(Writing) = 0
      BY <1>4, FS_EmptySet
    <2>2. HeapConserved
      BY <2>1 DEF HeapConserved, Holding, Busy, Writing
    <2>3. QED
      BY <2>1, <2>2 DEF AccountInv
  <1>6. QED
    BY <1>1, <1>2, <1>3, <1>5 DEF ZucInv

\* A step of one worker leaves the locals of the others alone.
OwnLocals(v) ==
  /\ prog' = prog
  /\ DOMAIN pc' = Workers /\ DOMAIN payload' = Workers /\ DOMAIN origin' = Workers
  /\ DOMAIN run' = Workers /\ DOMAIN count' = Workers /\ DOMAIN w' = Workers
  /\ DOMAIN z' = Workers /\ DOMAIN solo' = Workers
  /\ \A x \in Workers \ {v} :
       /\ pc'[x] = pc[x] /\ payload'[x] = payload[x] /\ run'[x] = run[x]
       /\ count'[x] = count[x] /\ w'[x] = w[x] /\ z'[x] = z[x]

\* A worker changes nothing of the locals of another.
LEMMA OwnStep ==
  ASSUME ZucInv, NEW v \in Workers, Handle(v)
  PROVE  OwnLocals(v)
  <1>t. /\ DOMAIN pc = Workers /\ DOMAIN payload = Workers /\ DOMAIN origin = Workers
        /\ DOMAIN run = Workers /\ DOMAIN count = Workers /\ DOMAIN w = Workers
        /\ DOMAIN z = Workers /\ DOMAIN solo = Workers
    BY DEF ZucInv, ShapeInv, TypeOK
  <1> USE DEF Goto, OwnLocals
  <1>1. CASE rte_malloc(v)
    BY <1>t, <1>1 DEF rte_malloc, Receive
  <1>2. CASE zuc_ph(v)
    BY <1>t, <1>2 DEF zuc_ph, Receive
  <1>3. CASE Initialization(v)
    BY <1>t, <1>3 DEF Initialization, Enter
  <1>4. CASE BitReorganization(v)
    BY <1>t, <1>4 DEF BitReorganization, locals
  <1>5. CASE F(v)
    BY <1>t, <1>5 DEF F
  <1>6. CASE LFSRWithInitialisationMode(v) \/ LFSRWithWorkMode(v)
    BY <1>t, <1>6 DEF LFSRWithInitialisationMode, LFSRWithWorkMode, Shifted
  <1>7. CASE EEA3(v) \/ pspin_EEA3(v)
    BY <1>t, <1>7 DEF EEA3, pspin_EEA3, locals
  <1>8. CASE lcore_main(v) \/ spin_memcpy(v)
    <2>1. PICK a : Reply(v, a) /\ UNCHANGED prog
      BY <1>8 DEF lcore_main, spin_memcpy, Reply
    <2>2. QED
      BY <1>t, <2>1 DEF Reply
  <1>9. QED
    BY <1>1, <1>2, <1>3, <1>4, <1>5, <1>6, <1>7, <1>8 DEF Handle

\* The keystream and the round counter of the worker that moves.
LEMMA KeystreamStep ==
  ASSUME ZucInv, NEW v \in Workers, Handle(v)
  PROVE  KeystreamInv' /\ \A x \in Workers : IsSeq(z'[x])
  <1>1. OwnLocals(v)
    BY OwnStep
  <1>2. SUFFICES KeystreamOf(v)' /\ IsSeq(z'[v])
    <2>1. \A x \in Workers \ {v} : KeystreamOf(x)' /\ IsSeq(z'[x])
      BY <1>1 DEF OwnLocals, ZucInv, KeystreamInv, KeystreamOf, ShapeInv
    <2>2. QED
      BY <1>2, <2>1 DEF KeystreamInv
  <1>t. /\ pc \in [Workers -> PCs] /\ DOMAIN count = Workers /\ DOMAIN z = Workers
        /\ count[v] \in Nat /\ IsSeq(z[v]) /\ KeystreamOf(v) /\ L \in Nat /\ 1 <= L
    BY LengthBound DEF ZucInv, ShapeInv, TypeOK, KeystreamInv
  <1>l. Len(z[v]) \in Nat
    BY <1>t, AppendSeq
  <1> USE DEF Goto, At, Shared
  <1>3. CASE rte_malloc(v)
    BY <1>t, <1>3 DEF rte_malloc, KeystreamOf
  <1>4. CASE zuc_ph(v)
    BY <1>t, <1>4 DEF zuc_ph, KeystreamOf
  <1>5. CASE Initialization(v)
    <2>1. z' = z /\ z[v] = <<>> /\ count'[v] = 0 /\ pc'[v] = "reorganise"
      BY <1>t, <1>5 DEF Initialization, KeystreamOf
    <2>2. QED
      BY <1>t, <2>1, EmptySeq DEF KeystreamOf
  <1>6. CASE BitReorganization(v)
    BY <1>t, <1>6 DEF BitReorganization, locals, KeystreamOf
  <1>7. CASE F(v)
    <2>1. pc[v] = "f" /\ pc'[v] = "shift" /\ count' = count
      BY <1>t, <1>7 DEF F
    <2>2. CASE count[v] <= INIT_ROUNDS
      <3>1. z' = z
        BY <1>7, <2>2 DEF F
      <3>2. QED
        BY <1>t, <2>1, <2>2, <3>1 DEF KeystreamOf
    <2>3. CASE count[v] > INIT_ROUNDS
      <3> DEFINE e == IF Fits(brc, fr) THEN Key(brc.run, brc.rounds) ELSE Unknown
      <3>1. z'[v] = Append(z[v], e)
        BY <1>t, <1>7, <2>3 DEF F
      <3> HIDE DEF e
      <3>2. /\ IsSeq(z'[v]) /\ Len(z'[v]) = Len(z[v]) + 1
            /\ z'[v][Len(z[v]) + 1] = e
            /\ \A k \in 1 .. Len(z[v]) : z'[v][k] = z[v][k]
        BY <1>t, <3>1, AppendSeq
      <3>3. /\ count[v] <= INIT_ROUNDS + L
            /\ Len(z'[v]) = count[v] - INIT_ROUNDS
        BY <1>t, <1>l, <2>1, <2>3, <3>2 DEF KeystreamOf
      <3>4. QED
        BY <1>t, <2>1, <2>3, <3>2, <3>3 DEF KeystreamOf
    <2>4. QED
      BY <1>t, <2>2, <2>3
  <1>8. CASE LFSRWithInitialisationMode(v) \/ LFSRWithWorkMode(v)
    <2>1. /\ pc[v] = "shift" /\ count'[v] = count[v] + 1 /\ z' = z
          /\ pc'[v] = IF count[v] = INIT_ROUNDS + L THEN "xor" ELSE "reorganise"
      BY <1>t, <1>8 DEF LFSRWithInitialisationMode, LFSRWithWorkMode, Shifted
    <2>2. /\ count[v] <= INIT_ROUNDS + L
          /\ Len(z[v]) = IF count[v] <= INIT_ROUNDS THEN 0 ELSE count[v] - INIT_ROUNDS
      BY <1>t, <2>1 DEF KeystreamOf
    <2>3. CASE count[v] = INIT_ROUNDS + L
      BY <1>t, <2>1, <2>2, <2>3 DEF KeystreamOf
    <2>4. CASE count[v] # INIT_ROUNDS + L
      <3>1. pc'[v] = "reorganise" /\ count'[v] <= INIT_ROUNDS + L
        BY <1>t, <2>1, <2>2, <2>4
      <3>2. Len(z[v]) = IF count'[v] <= INIT_ROUNDS THEN 0 ELSE count'[v] - INIT_ROUNDS - 1
        BY <1>t, <2>1, <2>2
      <3>3. QED
        BY <1>t, <2>1, <2>2, <3>1, <3>2 DEF KeystreamOf
    <2>5. QED
      BY <2>3, <2>4
  <1>9. CASE EEA3(v) \/ pspin_EEA3(v)
    BY <1>t, <1>9 DEF EEA3, pspin_EEA3, locals, KeystreamOf
  <1>10. CASE lcore_main(v) \/ spin_memcpy(v)
    <2>1. pc'[v] = "idle" /\ z'[v] = <<>>
      BY <1>t, <1>10 DEF lcore_main, spin_memcpy, Reply
    <2>2. IsSeq(z'[v])
      BY <2>1, EmptySeq
    <2>3. pc'[v] \notin Shared /\ pc'[v] \notin {"reorganise", "f"} /\ pc'[v] # "shift"
          /\ pc'[v] \notin {"xor", "write"}
      BY <2>1
    <2>4. KeystreamOf(v)'
      BY <2>1, <2>3 DEF KeystreamOf
    <2>5. QED
      BY <2>2, <2>4
  <1>11. QED
    BY <1>3, <1>4, <1>5, <1>6, <1>7, <1>8, <1>9, <1>10 DEF Handle

\* A worker that is alone stays alone, or loses the title.
LEMMA AloneStep ==
  ASSUME ZucInv, NEW v \in Workers, Handle(v)
  PROVE  AloneInv'
  <1>1. OwnLocals(v)
    BY OwnStep
  <1>t. /\ pc \in [Workers -> PCs] /\ DOMAIN count = Workers /\ DOMAIN z = Workers
        /\ DOMAIN w = Workers /\ DOMAIN run = Workers /\ DOMAIN solo = Workers
        /\ \A x \in Workers : count[x] \in Nat /\ IsSeq(z[x]) /\ KeystreamOf(x)
        /\ AloneInv
    BY LengthBound DEF ZucInv, ShapeInv, TypeOK, KeystreamInv
  <1>s. /\ Initialization(v) => Enter(v)
        /\ lcore_main(v) \/ spin_memcpy(v) => solo' = [solo EXCEPT ![v] = FALSE]
        /\ ~(Initialization(v) \/ lcore_main(v) \/ spin_memcpy(v)) => solo' = solo
    BY DEF Handle, rte_malloc, zuc_ph, Initialization, BitReorganization, F,
           LFSRWithInitialisationMode, LFSRWithWorkMode, Shifted, EEA3, pspin_EEA3,
           lcore_main, spin_memcpy, Reply
  <1>2. ASSUME NEW x \in Workers, x # v, solo'[x] PROVE AloneOf(x)'
    <2>1. /\ pc'[x] = pc[x] /\ run'[x] = run[x] /\ count'[x] = count[x]
          /\ w'[x] = w[x] /\ z'[x] = z[x]
      BY <1>1, <1>2 DEF OwnLocals
    <2>2. solo[x] /\ (Initialization(v) => pc[x] \notin Shared)
      BY <1>2, <1>s, <1>t DEF Enter, Shared
    <2>3. AloneOf(x)
      BY <1>t, <2>2 DEF AloneInv
    <2>4. CASE pc[x] \notin Shared
      BY <2>1, <2>3, <2>4 DEF AloneOf, Shared
    <2>5. CASE pc[x] \in Shared
      <3>1. pc[v] \notin Shared /\ \A y \in Workers \ {x} : pc[y] \notin Shared
        BY <1>2, <2>3, <2>5 DEF AloneOf
      <3>2. UNCHANGED registers /\ pc'[v] \notin Shared
        <4>1. ~(Initialization(v) \/ BitReorganization(v) \/ F(v)
                \/ LFSRWithInitialisationMode(v) \/ LFSRWithWorkMode(v))
          BY <2>2, <2>5, <3>1 DEF BitReorganization, F, LFSRWithInitialisationMode,
                                  LFSRWithWorkMode, At, Shared
        <4>2. CASE rte_malloc(v) \/ zuc_ph(v)
          BY <1>t, <3>1, <4>2 DEF rte_malloc, zuc_ph, Goto, Shared
        <4>3. CASE EEA3(v) \/ pspin_EEA3(v) \/ lcore_main(v) \/ spin_memcpy(v)
          BY <1>t, <4>3 DEF EEA3, pspin_EEA3, lcore_main, spin_memcpy, Reply, Goto, Shared
        <4>4. QED
          BY <4>1, <4>2, <4>3 DEF Handle
      <3>3. \A y \in Workers \ {x} : pc'[y] \notin Shared
        BY <1>1, <3>1, <3>2 DEF OwnLocals
      <3>4. QED
        BY <2>1, <2>3, <3>2, <3>3 DEF AloneOf, registers
    <2>6. QED
      BY <2>4, <2>5
  <1>3. ASSUME solo'[v] PROVE AloneOf(v)'
    <2> USE DEF Goto, At
    <2>o. \A x \in Workers \ {v} : pc'[x] = pc[x]
      BY <1>1 DEF OwnLocals
    <2>e. \A k \in 1 .. Len(<<>>) : FALSE
      BY EmptySeq
    <2>1. CASE rte_malloc(v) \/ zuc_ph(v)
      <3>1. /\ pc[v] = "idle" /\ pc'[v] \in {"idle", "init"} /\ z' = z
            /\ z[v] = <<>>
        BY <1>t, <2>1 DEF rte_malloc, zuc_ph, KeystreamOf
      <3>2. QED
        BY <2>e, <3>1 DEF AloneOf, Shared
    <2>2. CASE Initialization(v)
      <3>1. /\ pc[v] = "init" /\ pc'[v] = "reorganise" /\ z' = z /\ z[v] = <<>>
            /\ lfsr' = Token(run'[v], 0) /\ fr' = Zero /\ count'[v] = 0
        BY <1>t, <2>2 DEF Initialization, KeystreamOf
      <3>2. \A x \in Workers \ {v} : pc[x] \notin Shared
        BY <1>3, <1>s, <2>2 DEF Enter, Shared
      <3>3. QED
        BY <2>e, <2>o, <3>1, <3>2 DEF AloneOf, FBefore
    <2>3. CASE BitReorganization(v)
      <3>1. /\ solo[v] /\ pc[v] = "reorganise" /\ pc'[v] = "f" /\ brc' = lfsr
            /\ UNCHANGED <<lfsr, fr, run, count, w, z>>
        BY <1>3, <1>s, <1>t, <2>3 DEF BitReorganization, locals, Initialization,
                                 lcore_main, spin_memcpy
      <3>2. AloneOf(v)
        BY <1>t, <3>1 DEF AloneInv
      <3>3. QED
        BY <2>o, <3>1, <3>2 DEF AloneOf, Shared
    <2>4. CASE F(v)
      <3> DEFINE c == count[v]
                 r == run[v]
                 tok == Token(r, c)
      <3>1. /\ solo[v] /\ pc[v] = "f" /\ pc'[v] = "shift"
            /\ UNCHANGED <<lfsr, brc, run, count>>
            /\ fr' = IF Fits(brc, fr) THEN NextRound(brc) ELSE JunkToken
            /\ w'[v] = IF Fits(brc, fr) THEN brc ELSE JunkToken
            /\ z' = IF c <= INIT_ROUNDS THEN z
                    ELSE [z EXCEPT ![v] = Append(@, IF Fits(brc, fr)
                                                      THEN Key(brc.run, brc.rounds) ELSE Unknown)]
        BY <1>3, <1>s, <1>t, <2>4 DEF F, Initialization, lcore_main, spin_memcpy
      <3>2. AloneOf(v)
        BY <1>t, <3>1 DEF AloneInv
      <3>3. lfsr = tok /\ brc = tok /\ fr = FBefore(r, c) /\ c \in Nat
        BY <1>t, <3>1, <3>2 DEF AloneOf, Shared
      <3>4. tok # JunkToken /\ tok.rounds = c /\ tok.run = r
        BY <3>3 DEF Token, JunkToken
      <3>5. Fits(brc, fr)
        BY <3>3, <3>4 DEF Fits, FBefore
      <3>6. fr' = Token(r, c + 1) /\ w'[v] = tok
        BY <3>1, <3>3, <3>5 DEF NextRound, Token
      <3>7. \A k \in 1 .. Len(z'[v]) : z'[v][k] = Key(r, INIT_ROUNDS + k)
        <4>1. \A k \in 1 .. Len(z[v]) : z[v][k] = Key(r, INIT_ROUNDS + k)
          BY <3>2 DEF AloneOf
        <4>2. CASE c <= INIT_ROUNDS
          BY <3>1, <4>1, <4>2
        <4>3. CASE c > INIT_ROUNDS
          <5>1. z'[v] = Append(z[v], Key(r, c))
            BY <1>t, <3>1, <3>3, <3>4, <3>5, <4>3
          <5>2. Len(z[v]) = c - INIT_ROUNDS - 1
            BY <1>t, <3>1, <3>3, <4>3 DEF KeystreamOf
          <5>3. /\ Len(z'[v]) = Len(z[v]) + 1 /\ Len(z[v]) \in Nat
                /\ z'[v][Len(z[v]) + 1] = Key(r, c)
                /\ \A k \in 1 .. Len(z[v]) : z'[v][k] = z[v][k]
            BY <1>t, <5>1, AppendSeq
          <5>4. INIT_ROUNDS + (Len(z[v]) + 1) = c
            BY <3>3, <5>2, <5>3
          <5>5. ASSUME NEW k \in 1 .. Len(z'[v])
                PROVE  z'[v][k] = Key(r, INIT_ROUNDS + k)
            <6>1. CASE k \in 1 .. Len(z[v])
              BY <4>1, <5>3, <6>1
            <6>2. CASE k = Len(z[v]) + 1
              BY <5>3, <5>4, <6>2
            <6>3. QED
              BY <5>3, <6>1, <6>2
          <5>6. QED
            BY <5>5
        <4>4. QED
          BY <3>3, <4>2, <4>3
      <3>8. QED
        BY <2>o, <3>1, <3>2, <3>3, <3>6, <3>7 DEF AloneOf, Shared
    <2>5. CASE LFSRWithInitialisationMode(v) \/ LFSRWithWorkMode(v)
      <3> DEFINE c == count[v]
                 r == run[v]
                 tok == Token(r, c)
      <3>1. /\ solo[v] /\ pc[v] = "shift" /\ pc'[v] \in {"xor", "reorganise"}
            /\ UNCHANGED <<fr, brc, run, z>> /\ count'[v] = c + 1
            /\ \/ lfsr' = IF lfsr # JunkToken /\ w[v] = lfsr
                              /\ lfsr.run.garbage = run[v].garbage
                            THEN NextRound(lfsr) ELSE JunkToken
               \/ lfsr' = IF lfsr # JunkToken THEN NextRound(lfsr) ELSE JunkToken
        BY <1>3, <1>s, <1>t, <2>5 DEF LFSRWithInitialisationMode, LFSRWithWorkMode,
                                 Shifted, Initialization, lcore_main, spin_memcpy
      <3>2. AloneOf(v)
        BY <1>t, <3>1 DEF AloneInv
      <3>3. lfsr = tok /\ w[v] = tok /\ fr = Token(r, c + 1) /\ c \in Nat
        BY <1>t, <3>1, <3>2 DEF AloneOf, Shared
      <3>4. tok # JunkToken /\ tok.run = r
        BY <3>3 DEF Token, JunkToken
      <3>5. lfsr' = NextRound(lfsr)
        BY <3>1, <3>3, <3>4
      <3>6. lfsr' = Token(r, c + 1)
        BY <3>3, <3>5 DEF NextRound, Token
      <3>7. c + 1 # 0
        BY <3>3
      <3>8. QED
        BY <2>o, <3>1, <3>2, <3>3, <3>6, <3>7 DEF AloneOf, Shared, FBefore
    <2>6. CASE EEA3(v) \/ pspin_EEA3(v)
      <3>1. solo[v] /\ pc'[v] = "write" /\ UNCHANGED <<run, z>>
        BY <1>3, <1>s, <1>t, <2>6 DEF EEA3, pspin_EEA3, locals, Initialization,
                                 lcore_main, spin_memcpy
      <3>2. AloneOf(v)
        BY <1>t, <3>1 DEF AloneInv
      <3>3. QED
        BY <3>1, <3>2 DEF AloneOf, Shared
    <2>7. CASE lcore_main(v) \/ spin_memcpy(v)
      BY <1>3, <1>s, <1>t, <2>7
    <2>8. QED
      BY <2>1, <2>2, <2>3, <2>4, <2>5, <2>6, <2>7 DEF Handle
  <1>4. QED
    BY <1>2, <1>3 DEF AloneInv

\* A worker that goes from one phase to another, and the sets of workers.
LEMMA Moves ==
  ASSUME NEW v \in Workers, DOMAIN pc = Workers, NEW to, pc' = [pc EXCEPT ![v] = to],
         IsFiniteSet(Busy), IsFiniteSet(Writing)
  PROVE  /\ IsFiniteSet(Busy') /\ IsFiniteSet(Writing')
         /\ (v \in Busy <=> v \in Busy') => Cardinality(Busy') = Cardinality(Busy)
         /\ v \notin Busy /\ v \in Busy' => Cardinality(Busy') = Cardinality(Busy) + 1
         /\ v \in Busy /\ v \notin Busy' => Cardinality(Busy') = Cardinality(Busy) - 1
         /\ (v \in Writing <=> v \in Writing') => Cardinality(Writing') = Cardinality(Writing)
         /\ v \notin Writing /\ v \in Writing' => Cardinality(Writing') = Cardinality(Writing) + 1
         /\ v \in Writing /\ v \notin Writing' => Cardinality(Writing') = Cardinality(Writing) - 1
  <1>1. ASSUME NEW S, NEW T, IsFiniteSet(S), \A x : x # v => (x \in S <=> x \in T)
        PROVE  /\ IsFiniteSet(T)
               /\ (v \in S <=> v \in T) => Cardinality(T) = Cardinality(S)
               /\ v \notin S /\ v \in T => Cardinality(T) = Cardinality(S) + 1
               /\ v \in S /\ v \notin T => Cardinality(T) = Cardinality(S) - 1
    <2>1. CASE v \in S <=> v \in T
      <3>1. S = T
        BY <1>1, <2>1
      <3>2. QED
        BY <1>1, <2>1, <3>1
    <2>2. CASE v \notin S /\ v \in T
      <3>1. T = S \cup {v}
        BY <1>1, <2>2
      <3>2. IsFiniteSet(T) /\ Cardinality(T) = Cardinality(S) + 1
        BY <1>1, <2>2, <3>1, FS_AddElement
      <3>3. QED
        BY <2>2, <3>2
    <2>3. CASE v \in S /\ v \notin T
      <3>1. T = S \ {v}
        BY <1>1, <2>3
      <3>2. IsFiniteSet(T) /\ Cardinality(T) = Cardinality(S) - 1
        BY <1>1, <2>3, <3>1, FS_RemoveElement
      <3>3. QED
        BY <2>3, <3>2
    <2>4. QED
      BY <2>1, <2>2, <2>3
  <1>2. \A x : x # v => (x \in Busy <=> x \in Busy')
    BY DEF Busy
  <1>3. \A x : x # v => (x \in Writing <=> x \in Writing')
    BY DEF Writing
  <1>4. QED
    BY <1>1, <1>2, <1>3

\* Every step of a worker keeps the account of blocks and packets.
LEMMA AccountStep ==
  ASSUME ZucInv, NEW v \in Workers, Handle(v)
  PROVE  AccountInv' /\ heap' \in 0 .. HEAP /\ answered' \in Nat /\ pkts' \in 0 .. MaxPkt
  <1> DEFINE A == Cardinality(Busy)
             B == Cardinality(Writing)
  <1>t. /\ pc \in [Workers -> PCs] /\ heap \in Nat /\ answered \in Nat
        /\ heap \in 0 .. HEAP /\ pkts \in 0 .. MaxPkt /\ prog \in {dpdk_zuc, pspin_zuc}
        /\ IsFiniteSet(Busy) /\ IsFiniteSet(Writing)
        /\ prog = pspin_zuc => heap = HEAP
        /\ A + B + answered <= pkts
    BY DEF ZucInv, TypeOK, AccountInv
  <1>h. /\ prog = dpdk_zuc => heap + 2 * answered + 3 * A + 2 * B = HEAP
        /\ HeapConserved' <=>
             (prog' = dpdk_zuc => heap' + 2 * answered' + 3 * A' + 2 * B' = HEAP)
    BY DEF ZucInv, AccountInv, HeapConserved, Holding, Busy, Writing
  <1>n. A \in Nat /\ B \in Nat
    BY <1>t, FS_CardinalityType
  <1>p. prog' = prog
    BY OwnStep DEF OwnLocals
  <1>q. SUFFICES /\ IsFiniteSet(Busy') /\ IsFiniteSet(Writing')
                 /\ prog = pspin_zuc => heap' = HEAP
                 /\ prog = dpdk_zuc => heap' + 2 * answered' + 3 * A' + 2 * B' = HEAP
                 /\ A' + B' + answered' <= pkts'
                 /\ heap' \in 0 .. HEAP /\ answered' \in Nat /\ pkts' \in 0 .. MaxPkt
    BY <1>h, <1>p DEF AccountInv
  <1>m. ASSUME NEW to, pc' = [pc EXCEPT ![v] = to]
        PROVE  /\ IsFiniteSet(Busy') /\ IsFiniteSet(Writing')
               /\ (v \in Busy <=> v \in Busy') => A' = A
               /\ v \notin Busy /\ v \in Busy' => A' = A + 1
               /\ v \in Busy /\ v \notin Busy' => A' = A - 1
               /\ (v \in Writing <=> v \in Writing') => B' = B
               /\ v \notin Writing /\ v \in Writing' => B' = B + 1
               /\ v \in Writing /\ v \notin Writing' => B' = B - 1
    BY <1>m, <1>t, Moves
  <1>b. /\ v \in Busy <=> pc[v] \in Ciphering \cup {"xor"}
        /\ v \in Busy' <=> pc'[v] \in Ciphering \cup {"xor"}
        /\ v \in Writing <=> pc[v] = "write"
        /\ v \in Writing' <=> pc'[v] = "write"
    BY DEF Busy, Writing
  <1> HIDE DEF A, B
  <1> USE DEF Goto, At, dpdk_zuc, pspin_zuc
  <1>1. CASE rte_malloc(v) \/ zuc_ph(v)
    <2>1. CASE pc' = pc
      <3>1. UNCHANGED <<heap, answered, Busy, Writing>> /\ pkts < MaxPkt /\ pkts' = pkts + 1
        <4>1. pc'[v] # "init"
          BY <1>1, <2>1 DEF rte_malloc, zuc_ph
        <4>2. QED
          BY <1>1, <1>t, <2>1, <4>1 DEF rte_malloc, zuc_ph, history, Busy, Writing
      <3>2. A' = A /\ B' = B
        BY <3>1 DEF A, B
      <3>3. QED
        BY <1>h, <1>n, <1>t, <3>1, <3>2
    <2>2. CASE pc' # pc
      <3>1. /\ pc[v] = "idle" /\ pc' = [pc EXCEPT ![v] = "init"] /\ pkts < MaxPkt
            /\ pkts' = pkts + 1 /\ answered' = answered
            /\ \/ prog = dpdk_zuc /\ heap >= 3 /\ heap' = heap - 3
               \/ prog = pspin_zuc /\ heap' = heap
        BY <1>1, <2>2 DEF rte_malloc, zuc_ph, history
      <3>2. pc'[v] = "init"
        BY <1>t, <3>1
      <3>3. v \notin Busy /\ v \in Busy' /\ v \notin Writing /\ v \notin Writing'
        BY <1>b, <3>1, <3>2 DEF Ciphering
      <3>4. A' = A + 1 /\ B' = B /\ IsFiniteSet(Busy') /\ IsFiniteSet(Writing')
        BY <1>m, <1>n, <3>1, <3>3
      <3>5. QED
        BY <1>h, <1>n, <1>t, <3>1, <3>4
    <2>3. QED
      BY <2>1, <2>2
  <1>2. CASE \/ Initialization(v) \/ BitReorganization(v) \/ F(v)
             \/ LFSRWithInitialisationMode(v) \/ LFSRWithWorkMode(v)
    <2>1. /\ pc[v] \in Ciphering /\ UNCHANGED <<heap, answered, pkts>>
          /\ \E to \in {"reorganise", "f", "shift", "xor"} : pc' = [pc EXCEPT ![v] = to]
      BY <1>2 DEF Initialization, BitReorganization, F, LFSRWithInitialisationMode,
                  LFSRWithWorkMode, Shifted, history, Ciphering
    <2>2. PICK to \in {"reorganise", "f", "shift", "xor"} : pc' = [pc EXCEPT ![v] = to]
      BY <2>1
    <2>3. pc'[v] = to
      BY <1>t, <2>2
    <2>4. v \in Busy /\ v \in Busy' /\ v \notin Writing /\ v \notin Writing'
      BY <1>b, <2>1, <2>3 DEF Ciphering
    <2>5. A' = A /\ B' = B /\ IsFiniteSet(Busy') /\ IsFiniteSet(Writing')
      BY <1>m, <1>n, <2>2, <2>4
    <2>6. QED
      BY <1>h, <1>n, <1>t, <2>1, <2>5
  <1>3. CASE EEA3(v) \/ pspin_EEA3(v)
    <2>1. /\ pc[v] = "xor" /\ pc' = [pc EXCEPT ![v] = "write"]
          /\ UNCHANGED <<answered, pkts>>
          /\ prog = dpdk_zuc => heap' = heap + 1
          /\ prog = pspin_zuc => heap' = heap
      BY <1>3 DEF EEA3, pspin_EEA3, history
    <2>2. pc'[v] = "write"
      BY <1>t, <2>1
    <2>3. v \in Busy /\ v \notin Busy' /\ v \notin Writing /\ v \in Writing'
      BY <1>b, <2>1, <2>2 DEF Ciphering
    <2>4. A' = A - 1 /\ B' = B + 1 /\ IsFiniteSet(Busy') /\ IsFiniteSet(Writing')
      BY <1>m, <1>n, <2>1, <2>3
    <2>5. A' \in Nat
      BY <2>4, FS_CardinalityType DEF A
    <2>6. QED
      BY <1>h, <1>n, <1>t, <2>1, <2>4, <2>5
  <1>4. CASE lcore_main(v) \/ spin_memcpy(v)
    <2>1. /\ pc[v] = "write" /\ pc' = [pc EXCEPT ![v] = "idle"]
          /\ answered' = answered + 1 /\ UNCHANGED <<heap, pkts>>
      BY <1>4 DEF lcore_main, spin_memcpy, Reply
    <2>2. pc'[v] = "idle"
      BY <1>t, <2>1
    <2>3. v \notin Busy /\ v \notin Busy' /\ v \in Writing /\ v \notin Writing'
      BY <1>b, <2>1, <2>2 DEF Ciphering
    <2>4. A' = A /\ B' = B - 1 /\ IsFiniteSet(Busy') /\ IsFiniteSet(Writing')
      BY <1>m, <1>n, <2>1, <2>3
    <2>5. QED
      BY <1>h, <1>n, <1>t, <2>1, <2>4
  <1>5. QED
    BY <1>1, <1>2, <1>3, <1>4 DEF Handle

\* What the messages and records look like after a step.
LEMMA TypeStep ==
  ASSUME ZucInv, NEW v \in Workers, Handle(v)
  PROVE  TypeOK'
  <1>t. /\ pc \in [Workers -> PCs] /\ count \in [Workers -> 0 .. INIT_ROUNDS + 1 + L]
        /\ \A x \in Workers : DOMAIN payload[x] = WordIndex
        /\ \A x \in Workers : DOMAIN run[x] = {"key", "garbage"}
        /\ DOMAIN lfsr \subseteq {"run", "rounds"} /\ DOMAIN brc \subseteq {"run", "rounds"}
        /\ crashed \in BOOLEAN /\ solo \in [Workers -> BOOLEAN]
        /\ DOMAIN payload = Workers /\ DOMAIN run = Workers
        /\ DOMAIN last.answer = WordIndex /\ L \in Nat
    BY LengthBound DEF ZucInv, TypeOK, ShapeInv
  <1>o. OwnLocals(v) /\ KeystreamInv' /\ \A x \in Workers : IsSeq(z'[x])
    BY OwnStep, KeystreamStep
  <1>a. /\ heap' \in 0 .. HEAP /\ pkts' \in 0 .. MaxPkt /\ prog' \in Programs
        /\ answered' \in 0 .. MaxPkt
    <2>1. /\ heap' \in 0 .. HEAP /\ pkts' \in 0 .. MaxPkt /\ answered' \in Nat
          /\ IsFiniteSet(Busy)' /\ IsFiniteSet(Writing)'
          /\ (Cardinality(Busy) + Cardinality(Writing) + answered <= pkts)'
      BY AccountStep DEF AccountInv
    <2>2. Cardinality(Busy)' \in Nat /\ Cardinality(Writing)' \in Nat
      BY <2>1, FS_CardinalityType
    <2>3. prog' \in Programs
      BY <1>o DEF OwnLocals, ZucInv, TypeOK
    <2>4. QED
      BY <2>1, <2>2, <2>3
  <1> DEFINE Moved ==
        /\ pc'[v] \in PCs /\ count'[v] \in 0 .. INIT_ROUNDS + 1 + L
        /\ DOMAIN payload'[v] = WordIndex /\ DOMAIN run'[v] = {"key", "garbage"}
        /\ DOMAIN lfsr' \subseteq {"run", "rounds"} /\ DOMAIN brc' \subseteq {"run", "rounds"}
  <1>m. Moved
    <2> USE DEF Goto, At, PCs
    <2>1. CASE rte_malloc(v) \/ zuc_ph(v)
      <3>1. DOMAIN payload'[v] = WordIndex
        <4>1. CASE UNCHANGED payload
          BY <1>t, <4>1
        <4>2. CASE Receive(v)
          BY <1>t, <4>2 DEF Receive
        <4>3. QED
          BY <2>1, <4>1, <4>2 DEF rte_malloc, zuc_ph
      <3>2. QED
        BY <1>t, <2>1, <3>1 DEF rte_malloc, zuc_ph, registers
    <2>2. CASE Initialization(v)
      <3>1. PICK g \in Garbage :
              LET r == [key |-> [k \in 1 .. KEY_WORDS |-> payload[v][k - 1]],
                        garbage |-> g] IN
              run' = [run EXCEPT ![v] = r] /\ lfsr' = Token(r, 0)
        BY <2>2 DEF Initialization
      <3>2. DOMAIN run'[v] = {"key", "garbage"} /\ DOMAIN lfsr' = {"run", "rounds"}
        BY <1>t, <3>1 DEF Token
      <3>3. /\ count'[v] = 0 /\ pc'[v] = "reorganise" /\ UNCHANGED <<payload, brc>>
        BY <1>t, <2>2 DEF Initialization
      <3>4. QED
        BY <1>t, <3>2, <3>3
    <2>3. CASE BitReorganization(v)
      BY <1>t, <2>3 DEF BitReorganization, locals
    <2>4. CASE F(v)
      BY <1>t, <2>4 DEF F
    <2>5. CASE LFSRWithInitialisationMode(v) \/ LFSRWithWorkMode(v)
      <3>1. count[v] <= INIT_ROUNDS + L
        BY <2>5 DEF LFSRWithInitialisationMode, LFSRWithWorkMode, ZucInv,
                    KeystreamInv, KeystreamOf, Shared
      <3>2. DOMAIN lfsr' \subseteq {"run", "rounds"}
        <4>1. DOMAIN JunkToken = {"run", "rounds"} /\ DOMAIN NextRound(lfsr) = DOMAIN lfsr
          BY DEF JunkToken, Token, NextRound
        <4>2. lfsr' = JunkToken \/ lfsr' = NextRound(lfsr)
          BY <2>5 DEF LFSRWithInitialisationMode, LFSRWithWorkMode
        <4>3. QED
          BY <1>t, <4>1, <4>2
      <3>3. count'[v] = count[v] + 1 /\ count[v] \in Nat
        BY <1>t, <2>5 DEF LFSRWithInitialisationMode, LFSRWithWorkMode, Shifted
      <3>4. QED
        BY <1>t, <2>5, <3>1, <3>2, <3>3
           DEF LFSRWithInitialisationMode, LFSRWithWorkMode, Shifted
    <2>6. CASE EEA3(v) \/ pspin_EEA3(v)
      BY <1>t, <2>6 DEF EEA3, pspin_EEA3, locals, registers
    <2>7. CASE lcore_main(v) \/ spin_memcpy(v)
      <3>1. DOMAIN NoPayload = WordIndex /\ DOMAIN NoRun = {"key", "garbage"}
        BY DEF NoPayload, NoRun
      <3>2. QED
        BY <1>t, <2>7, <3>1 DEF lcore_main, spin_memcpy, Reply, registers
    <2>8. QED
      BY <2>1, <2>2, <2>3, <2>4, <2>5, <2>6, <2>7 DEF Handle
  <1>pc. pc' \in [Workers -> PCs]
    <2>1. PICK at : pc' = [pc EXCEPT ![v] = at] \/ pc' = pc
      BY DEF Handle, rte_malloc, zuc_ph, Initialization, BitReorganization, F,
             LFSRWithInitialisationMode, LFSRWithWorkMode, Shifted, EEA3, pspin_EEA3,
             lcore_main, spin_memcpy, Reply, Goto
    <2>2. QED
      BY <1>t, <1>m, <2>1
  <1>ct. count' \in [Workers -> 0 .. INIT_ROUNDS + 1 + L]
    <2>1. PICK n : count' = [count EXCEPT ![v] = n] \/ count' = count
      BY DEF Handle, rte_malloc, zuc_ph, Initialization, BitReorganization, F, locals,
             LFSRWithInitialisationMode, LFSRWithWorkMode, Shifted, EEA3, pspin_EEA3,
             lcore_main, spin_memcpy, Reply
    <2>2. QED
      BY <1>t, <1>m, <2>1
  <1>z. \A x \in Workers : Len(z'[x]) <= L
    <2> SUFFICES ASSUME NEW x \in Workers PROVE Len(z'[x]) <= L
      OBVIOUS
    <2>1. KeystreamOf(x)' /\ pc'[x] \in PCs /\ count'[x] \in Nat
      BY <1>o, <1>pc, <1>ct DEF KeystreamInv
    <2>2. CASE pc'[x] \in {"idle", "init"}
      <3>1. z'[x] = <<>>
        BY <2>1, <2>2 DEF KeystreamOf
      <3>2. QED
        BY <1>t, <3>1, EmptySeq
    <2>3. CASE pc'[x] \in {"reorganise", "f"}
      <3>1. /\ count'[x] <= INIT_ROUNDS + L
            /\ Len(z'[x]) = IF count'[x] <= INIT_ROUNDS THEN 0 ELSE count'[x] - INIT_ROUNDS - 1
        BY <2>1, <2>3 DEF KeystreamOf, Shared
      <3>2. QED
        BY <1>t, <2>1, <3>1
    <2>4. CASE pc'[x] = "shift"
      <3>1. /\ count'[x] <= INIT_ROUNDS + L
            /\ Len(z'[x]) = IF count'[x] <= INIT_ROUNDS THEN 0 ELSE count'[x] - INIT_ROUNDS
        BY <2>1, <2>4 DEF KeystreamOf, Shared
      <3>2. QED
        BY <1>t, <2>1, <3>1
    <2>5. CASE pc'[x] \in {"xor", "write"}
      <3>1. Len(z'[x]) = L
        BY <2>1, <2>5 DEF KeystreamOf
      <3>2. QED
        BY <1>t, <3>1
    <2>6. QED
      BY <2>1, <2>2, <2>3, <2>4, <2>5 DEF PCs
  <1>b. crashed' \in BOOLEAN /\ solo' \in [Workers -> BOOLEAN]
    <2>1. crashed' = TRUE \/ crashed' = crashed
      BY DEF Handle, rte_malloc, zuc_ph, Initialization, BitReorganization, F,
             LFSRWithInitialisationMode, LFSRWithWorkMode, Shifted, EEA3, pspin_EEA3,
             lcore_main, spin_memcpy, Reply
    <2>2. Enter(v) \/ solo' = [solo EXCEPT ![v] = FALSE] \/ solo' = solo
      BY DEF Handle, rte_malloc, zuc_ph, Initialization, BitReorganization, F,
             LFSRWithInitialisationMode, LFSRWithWorkMode, Shifted, EEA3, pspin_EEA3,
             lcore_main, spin_memcpy, Reply
    <2>3. Enter(v) => solo' \in [Workers -> BOOLEAN]
      BY DEF Enter
    <2>4. QED
      BY <1>t, <2>1, <2>2, <2>3
  <1>d. /\ \A x \in Workers : DOMAIN payload'[x] = WordIndex
        /\ \A x \in Workers : DOMAIN run'[x] = {"key", "garbage"}
    BY <1>t, <1>m, <1>o DEF OwnLocals
  <1>q. QED
    BY <1>a, <1>m, <1>pc, <1>ct, <1>z, <1>b, <1>d, Zenon DEF TypeOK

\* Every step keeps the invariant.
LEMMA ZucStep == ZucInv /\ [Next]_vars => ZucInv'
  <1> SUFFICES ASSUME ZucInv, [Next]_vars PROVE ZucInv'
    OBVIOUS
  <1>1. CASE UNCHANGED vars \/ Ended
    <2>1. UNCHANGED vars
      BY <1>1 DEF Ended
    <2>2. QED
      BY <2>1 DEF vars, registers, locals, history, ZucInv, TypeOK, ShapeInv,
                  KeystreamInv, KeystreamOf, AloneInv, AloneOf, AccountInv,
                  HeapConserved, Holding, Busy, Writing
  <1>2. ASSUME NEW v \in Workers, Handle(v) PROVE ZucInv'
    <2>1. OwnLocals(v)
      BY <1>2, OwnStep
    <2>2. KeystreamInv' /\ AloneInv' /\ AccountInv'
      BY <1>2, KeystreamStep, AloneStep, AccountStep
    <2>3. TypeOK'
      BY <1>2, TypeStep
    <2>t. TypeOK /\ ShapeInv
      BY DEF ZucInv
    <2> DEFINE Sent == /\ DOMAIN last'.answer = WordIndex
                       /\ DOMAIN last'.request = WordIndex
    <2>4. ASSUME lcore_main(v) \/ spin_memcpy(v) PROVE Sent
      <3>1. PICK a : DOMAIN a = WordIndex /\ Reply(v, a)
        BY <2>4 DEF lcore_main, spin_memcpy
      <3>2. last'.request = payload[v] /\ last'.answer = a
        BY <3>1 DEF Reply
      <3>3. QED
        BY <2>t, <3>1, <3>2 DEF TypeOK
    <2>5. ASSUME ~(lcore_main(v) \/ spin_memcpy(v)) PROVE Sent
      <3>1. last' = last
        BY <1>2, <2>5 DEF Handle, rte_malloc, zuc_ph, Initialization, BitReorganization, F,
             LFSRWithInitialisationMode, LFSRWithWorkMode, Shifted, EEA3, pspin_EEA3, history
      <3>2. QED
        BY <2>t, <3>1 DEF ShapeInv
    <2>6. ShapeInv'
      BY <1>2, <2>1, <2>4, <2>5, KeystreamStep DEF ShapeInv, OwnLocals
    <2>7. QED
      BY <2>2, <2>3, <2>6 DEF ZucInv
  <1>3. QED
    BY <1>1, <1>2 DEF Next

--------------------------------------------------------------------------------
\* The inductive invariant holds in every reachable state.
THEOREM ZucInvariance == Spec => []ZucInv
  BY ZucInit, ZucStep, PTL DEF Spec

\* The registers, the locals of the workers, the heap and the counters keep
\* their types; in particular count and the keystream stay within L.
THEOREM ZucTypeCorrect == Spec => []TypeOK
  <1>1. ZucInv => TypeOK
    BY DEF ZucInv
  <1>2. QED
    BY <1>1, ZucInvariance, PTL

(***************************************************************************)
(* A worker nobody has joined in the cipher since its Initialization has    *)
(* the keystream of its own key, whatever was left in LFSR_S0 .. LFSR_S15,  *)
(* F_R1, F_R2 and BRC_X0 .. BRC_X3 by others.                               *)
(***************************************************************************)
THEOREM AloneIsRight == Spec => []SoloKeystream
  <1>1. ZucInv => SoloKeystream
    <2> SUFFICES ASSUME ZucInv, NEW v \in Workers, solo[v], pc[v] \in {"xor", "write"}
                 PROVE  z[v] = [k \in 1 .. L |-> Key(run[v], INIT_ROUNDS + k)]
      BY DEF SoloKeystream
    <2>1. Len(z[v]) = L /\ IsSeq(z[v])
      BY DEF ZucInv, KeystreamInv, KeystreamOf, ShapeInv
    <2>2. \A k \in 1 .. L : z[v][k] = Key(run[v], INIT_ROUNDS + k)
      BY <2>1 DEF ZucInv, AloneInv, AloneOf
    <2>3. z[v] \in [1 .. L -> {z[v][k] : k \in 1 .. L}]
      BY <2>1 DEF IsSeq
    <2>4. QED
      BY <2>2, <2>3
  <1>2. QED
    BY <1>1, ZucInvariance, PTL

(***************************************************************************)
(* The DPDK program loses the two blocks M and C with every answer and no   *)
(* other block.                                                             *)
(***************************************************************************)
THEOREM HeapAccounted == Spec => []HeapConserved
  <1>1. ZucInv => HeapConserved
    BY DEF ZucInv, AccountInv
  <1>2. QED
    BY <1>1, ZucInvariance, PTL
================================================================================
