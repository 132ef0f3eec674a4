--------------------------- MODULE XdpCountedProofs ---------------------------
(***************************************************************************)
(* Proofs about XdpCounted, for any set of CPUs, any packets, any sizes of  *)
(* the maps and words of any width.  XdpInv is inductive; CountConserved    *)
(* and HostExact are shown relative to it.                                  *)
(***************************************************************************)
EXTENDS XdpCounted, SumTheorems

USE XdpAssumption

-------------------------------------------------------------------------------
(* The inductive invariant.                                                  *)

\* A CPU without a packet starts the next one at word 0, aggregate sums up a packet
\* in one step, and baseline works on no map.
CpuOK(c) ==
  /\ pc[c] = "idle" => word[c] = 0
  /\ prog.kernel = "aggregate" => word[c] = 0
  /\ prog.kernel = "baseline" => pc[c] = "idle"

CpuInv ==
  /\ pc \in [Cpus -> PCs]
  /\ pkt \in [Cpus -> PacketType]
  /\ word \in [Cpus -> WordIndex]
  /\ worked \in [Cpus -> Nat]
  /\ seen \in [SeenPayloads -> Nat]
  /\ \A c \in Cpus : CpuOK(c)

\* The number of CPUs that are at one of the given places.
Num(S) == Cardinality({c \in Cpus : pc[c] \in S})

\* The packets counted and the ones about to be are packets received.  Nothing is
\* answered ahead of the counter, and a CPU that has yet to read the counter has
\* not answered at its present value.
CountInv ==
  /\ rx \in 0 .. MaxRx
  /\ total \in 0 .. MaxRx
  /\ answers \in [0 .. MaxRx -> Nat]
  /\ total + Num({"work", "count"}) <= rx
  /\ \A n \in 0 .. MaxRx : n > total => answers[n] = 0
  /\ answers[total] + Num({"check"}) <= Cardinality(Cpus)
  /\ AnswersBounded

MapInv ==
  /\ host \in [Cells -> T]
  /\ hm \in SUBSET U16
  /\ nr_pkt \in T
  /\ filled \in 0 .. HASH_ENTRIES

\* What baseline passes up unstamped is too short to be taken for two times.
SockInv ==
  /\ LoaderTypeOK
  /\ prog.kernel = "baseline" => sock["raw"] = 0 /\ lines["raw"] = 0

\* The inductive invariant of the counting programs.
XdpInv == prog \in Programs /\ CpuInv /\ CountInv /\ MapInv /\ SockInv

-------------------------------------------------------------------------------
(* The operators of the model.                                               *)

\* The fields of a packet: reading the key and the words, and putting in others.
LEMMA PacketRecord ==
  ASSUME NEW B, NEW N, NEW P, NEW b \in B, NEW n \in N, NEW q \in P,
         NEW p \in [udp : B, dgram_len : N, room : N, to_port : B, key : N,
                    payload : P]
  PROVE  /\ p.payload \in P /\ p.dgram_len \in N /\ p.room \in N
         /\ [p EXCEPT !.payload = q] \in [udp : B, dgram_len : N, room : N, to_port : B,
                                          key : N, payload : P]
         /\ [p EXCEPT !.payload = q].payload = q
         /\ [udp |-> b, dgram_len |-> n, room |-> n, to_port |-> b, key |-> n,
             payload |-> q] \in [udp : B, dgram_len : N, room : N, to_port : B,
                                 key : N, payload : P]
  OBVIOUS

\* The values the locals start with have their types.
LEMMA ZeroType ==
  /\ 0 \in T /\ 1 \in T /\ 0 \in WordIndex
  /\ [k \in WordIndex |-> 0] \in Payloads
  BY DEF T, WordIndex, Payloads

\* The words of a packet are a payload, and a packet keeps its type when its words
\* are replaced.
LEMMA PacketTypes ==
  /\ \A p \in PacketType : p.payload \in Payloads /\ p.dgram_len \in U16 /\ p.room \in U16
  /\ \A p \in PacketType : \A q \in Payloads :
       /\ [p EXCEPT !.payload = q] \in PacketType
       /\ [p EXCEPT !.payload = q].payload = q
  /\ NoPacket \in PacketType
  <1> DEFINE B == BOOLEAN
             N == U16
             f == FALSE
             z == [k \in WordIndex |-> 0]
  <1>1. PacketType = [udp : B, dgram_len : N, room : N, to_port : B, key : N,
                      payload : Payloads]
    BY DEF PacketType
  <1>2. f \in B
    OBVIOUS
  <1>3. 0 \in N
    BY DEF U16
  <1>4. z \in Payloads
    BY ZeroType
  <1>5. NoPacket = [udp |-> f, dgram_len |-> 0, room |-> 0, to_port |-> f, key |-> 0,
                    payload |-> z]
    BY DEF NoPacket
  <1>6. N = U16
    OBVIOUS
  <1> HIDE DEF B, N, f, z
  <1>7. QED
    BY <1>6, <1>1, <1>2, <1>3, <1>4, <1>5, PacketRecord

\* The numbers below a bound, and what a remainder is.
LEMMA Below ==
  \A n \in Nat : /\ \A x : x \in 0 .. n <=> x \in Nat /\ x < n + 1
                 /\ n # 0 => \A x \in Int : x % n \in Nat /\ x % n < n
  OBVIOUS

\* The values of 16 bits.
LEMMA U16Range ==
  /\ \A x : x \in U16 <=> x \in Nat /\ x < 65536
  /\ \A x \in Int : x % 65536 \in U16
  <1> DEFINE n == 65535
             m == 65536
  <1>1. n \in Nat /\ m \in Nat /\ m # 0 /\ n + 1 = m
    OBVIOUS
  <1>2. U16 = 0 .. n
    BY DEF U16
  <1> SUFFICES /\ \A x : x \in U16 <=> x \in Nat /\ x < m
               /\ \A x \in Int : x % m \in U16
    OBVIOUS
  <1> HIDE DEF n, m
  <1>3. \A x : x \in U16 <=> x \in Nat /\ x < m
    BY <1>1, <1>2, Below
  <1>4. \A x \in Int : x % m \in Nat /\ x % m < m
    BY <1>1, Below
  <1>5. QED
    BY <1>3, <1>4

\* Two's complement arithmetic gives a value of the type T.
LEMMA WrapType == \A x \in Int : wrap(x) \in T
  BY DEF wrap, T

\* A value that wraps around before an addition might as well not.
LEMMA WrapAdd ==
  ASSUME NEW x \in Int, NEW y \in Int
  PROVE  wrap(wrap(x) + y) = wrap(x + y)
  <1> DEFINE M == 2 * INT_HALF
             a == x + INT_HALF
  <1>1. M \in Nat \ {0} /\ a \in Int /\ a % M \in Int
    OBVIOUS
  <1>2. ((a % M) + y) % M = (a + y) % M
    <2> HIDE DEF M, a
    <2> QED
      BY <1>1, ModAdd
  <1>3. (wrap(x) + y) + INT_HALF = (a % M) + y
    <2> HIDE DEF M
    <2> QED
      BY <1>1 DEF wrap, M
  <1>4. (x + y) + INT_HALF = a + y
    OBVIOUS
  <1>5. QED
    BY <1>2, <1>3, <1>4 DEF wrap

\* Values that wrap around to the same one do so after an addition, too.
LEMMA WrapSame ==
  ASSUME NEW x \in Int, NEW y \in Int, NEW z \in Int, wrap(x) = wrap(y)
  PROVE  wrap(x + z) = wrap(y + z)
  <1>1. wrap(wrap(x) + z) = wrap(x + z)
    BY WrapAdd
  <1>2. wrap(wrap(y) + z) = wrap(y + z)
    BY WrapAdd
  <1>3. QED
    BY <1>1, <1>2

\* A value of type T does not wrap around.
LEMMA WrapId == \A x \in T : wrap(x) = x
  BY DEF wrap, T

\* The hash of an address fits the key, and every index of the word loop is the
\* hash of an address: the one whose first byte is the index.
LEMMA HashWord ==
  /\ \A n \in 0 .. HASH_ENTRIES - 1 : hashmult(n) \in HashKeys
  /\ \A n \in Nat : hashmult(n) \in U16
  /\ \A w \in WordIndex : w \in HashKeys /\ w \in U16
  <1>1. \A n \in Nat : hashmult(n) \in U16
    <2> SUFFICES ASSUME NEW n \in Nat PROVE hashmult(n) \in U16
      OBVIOUS
    <2> DEFINE x == (n % BYTE) * 31 + n \div BYTE
    <2>1. n % BYTE \in Int /\ n \div BYTE \in Int
      OBVIOUS
    <2>2. x \in Int
      BY <2>1
    <2> HIDE DEF x
    <2>3. x % 65536 \in U16
      BY <2>2, U16Range
    <2>4. QED
      BY <2>3 DEF hashmult, x
  <1>2. ASSUME NEW w \in WordIndex PROVE w \in HashKeys /\ w \in U16
    <2> DEFINE n == w * BYTE
    <2>1. w \in Nat /\ w < BYTE /\ w < 65536
      BY DEF WordIndex
    <2>2. n \in Nat /\ n % BYTE = 0 /\ n \div BYTE = w
      BY <2>1
    <2>3. n < BYTE * BYTE
      BY <2>1
    <2>4. n \in 0 .. HASH_ENTRIES - 1
      BY <2>2, <2>3 DEF HASH_ENTRIES
    <2>5. hashmult(n) = w
      <3> HIDE DEF n
      <3>1. hashmult(n) = (0 * 31 + w) % 65536
        BY <2>2 DEF hashmult
      <3>2. QED
        BY <2>1, <3>1
    <2>6. w \in HashKeys
      BY <2>4, <2>5 DEF HashKeys
    <2>7. w \in U16
      BY <1>1, <2>2, <2>5
    <2>8. QED
      BY <2>6, <2>7
  <1>3. QED
    BY <1>1, <1>2 DEF HashKeys

\* The sets the counts and sums range over are finite.
LEMMA FiniteSums ==
  /\ IsFiniteSet(WordIndex)
  /\ IsFiniteSet(SeenPayloads)
  /\ SeenPayloads \subseteq Payloads
  /\ \A k : Before(k) \subseteq Cpus /\ IsFiniteSet(Before(k))
  /\ \A p \in Packets : p.payload \in SeenPayloads
  <1>1. IsFiniteSet(WordIndex)
    BY FS_Interval DEF WordIndex
  <1>2. IsFiniteSet(SeenPayloads)
    <2> DEFINE f == [p \in Packets |-> p.payload]
    <2>1. f \in Surjection(Packets, SeenPayloads)
      BY DEF Surjection, SeenPayloads
    <2> HIDE DEF f
    <2>2. QED
      BY <2>1, FS_Surjection
  <1>3. SeenPayloads \subseteq Payloads
    BY PacketTypes DEF SeenPayloads
  <1>4. \A k : Before(k) \subseteq Cpus /\ IsFiniteSet(Before(k))
    <2>1. \A k : Before(k) \in SUBSET Cpus
      BY DEF Before
    <2>2. QED
      BY <2>1, FS_Subset
  <1>5. QED
    BY <1>1, <1>2, <1>3, <1>4 DEF SeenPayloads

\* No more CPUs are at any place than there are.
LEMMA NumType == \A S : Num(S) \in Nat /\ Num(S) <= Cardinality(Cpus)
  <1> SUFFICES ASSUME NEW S PROVE Num(S) \in Nat /\ Num(S) <= Cardinality(Cpus)
    OBVIOUS
  <1> DEFINE U == {c \in Cpus : pc[c] \in S}
  <1>1. U \subseteq Cpus
    OBVIOUS
  <1> HIDE DEF U
  <1>2. IsFiniteSet(U) /\ Cardinality(U) <= Cardinality(Cpus) /\ Cardinality(U) \in Nat
    BY <1>1, FS_Subset, FS_CardinalityType
  <1>3. QED
    BY <1>2 DEF Num, U

\* When one CPU moves, the CPUs at a place change by that CPU.
LEMMA NumStep ==
  ASSUME pc \in [Cpus -> PCs], NEW c \in Cpus, NEW v, pc' = [pc EXCEPT ![c] = v], NEW S
  PROVE  /\ Num(S) \in Nat /\ Num(S)' \in Nat /\ Num(S)' <= Cardinality(Cpus)
         /\ Num(S)' = (IF pc[c] \in S THEN Num(S) - 1 ELSE Num(S))
                        + (IF v \in S THEN 1 ELSE 0)
  <1> DEFINE U == {d \in Cpus : pc[d] \in S}
             V == {d \in Cpus : pc'[d] \in S}
             R == U \ {c}
  <1>1. V = IF v \in S THEN R \cup {c} ELSE R
    OBVIOUS
  <1>2. c \in U <=> pc[c] \in S
    OBVIOUS
  <1>3. Num(S) = Cardinality(U) /\ Num(S)' = Cardinality(V)
    BY DEF Num
  <1>4. U \subseteq Cpus /\ V \subseteq Cpus
    OBVIOUS
  <1>5. c \notin R
    OBVIOUS
  <1> HIDE DEF U, V
  <1>6. IsFiniteSet(U)
    BY <1>4, FS_Subset
  <1>7. IsFiniteSet(R) /\ Cardinality(R) = IF c \in U THEN Cardinality(U) - 1
                                                      ELSE Cardinality(U)
    BY <1>6, FS_RemoveElement
  <1> HIDE DEF R
  <1>8. Cardinality(R \cup {c}) = Cardinality(R) + 1
    BY <1>5, <1>7, FS_AddElement
  <1>9. Cardinality(U) \in Nat /\ Cardinality(R) \in Nat /\ Cardinality(V) \in Nat
    BY <1>4, <1>6, <1>7, FS_Subset, FS_CardinalityType
  <1>10. Cardinality(V) <= Cardinality(Cpus)
    BY <1>4, FS_Subset
  <1>11. QED
    BY <1>1, <1>2, <1>3, <1>7, <1>8, <1>9, <1>10

\* The CPU that moves goes elsewhere.
LEMMA NumLeave ==
  ASSUME pc \in [Cpus -> PCs], NEW c \in Cpus, NEW v, pc' = [pc EXCEPT ![c] = v], NEW S,
         v \notin S
  PROVE  /\ Num(S) \in Nat /\ Num(S)' \in Nat
         /\ pc[c] \in S => Num(S)' = Num(S) - 1
         /\ pc[c] \notin S => Num(S)' = Num(S)
  <1>1. /\ Num(S) \in Nat /\ Num(S)' \in Nat
        /\ Num(S)' = (IF pc[c] \in S THEN Num(S) - 1 ELSE Num(S))
                       + (IF v \in S THEN 1 ELSE 0)
    BY NumStep
  <1>2. QED
    BY <1>1

-------------------------------------------------------------------------------
(* The parts of the invariant.                                               *)

\* The parts contain the types of all variables.
LEMMA XdpTypes == XdpInv => TypeOK
  BY DEF XdpInv, CpuInv, CountInv, MapInv, SockInv, TypeOK

\* Before anything is attached nothing is counted, answered or waiting.
LEMMA XdpInitial == Init => XdpInv
  <1> SUFFICES ASSUME Init PROVE XdpInv
    OBVIOUS
  <1> USE DEF Init
  <1>0. prog \in Programs
    OBVIOUS
  <1>1. CpuInv
    <2>1. pkt \in [Cpus -> PacketType]
      BY PacketTypes
    <2>2. QED
      BY <2>1, ZeroType DEF CpuInv, PCs, CpuOK
  <1>2. CountInv
    <2>1. {c \in Cpus : pc[c] \in {"work", "count"}} = {}
          /\ {c \in Cpus : pc[c] \in {"check"}} = {}
      OBVIOUS
    <2>2. Num({"work", "count"}) = 0 /\ Num({"check"}) = 0
      BY <2>1, FS_EmptySet DEF Num
    <2>3. Cardinality(Cpus) \in Nat
      BY FS_CardinalityType
    <2>4. QED
      BY <2>2, <2>3 DEF CountInv, AnswersBounded
  <1>3. MapInv
    BY ZeroType DEF MapInv, HASH_ENTRIES
  <1>4. SockInv
    BY DEF SockInv, LoaderInit, LoaderTypeOK, LoaderStates, NoDatagrams, Kinds
  <1>5. QED
    BY <1>0, <1>1, <1>2, <1>3, <1>4 DEF XdpInv

\* Steps that leave the CPUs and the histories alone; a packet may arrive.
LEMMA CpusSame ==
  ASSUME XdpInv, prog' = prog, UNCHANGED <<cpuVars, histVars>>,
         \/ rx' = rx
         \/ rx' = rx + 1 /\ rx < MaxRx
  PROVE  prog' \in Programs /\ CpuInv' /\ CountInv'
  <1> USE DEF cpuVars, histVars, XdpInv
  <1>1. CpuInv'
    BY DEF CpuInv, CpuOK
  <1>2. \A S : Num(S)' = Num(S)
    BY DEF Num
  <1>3. CountInv'
    BY <1>2, NumType, SMTT(30) DEF CountInv, AnswersBounded
  <1>4. QED
    BY <1>1, <1>3

\* Steps that leave the maps alone.
LEMMA MapsSame ==
  ASSUME XdpInv, UNCHANGED <<mapVars, filled>>
  PROVE  MapInv'
  BY DEF XdpInv, MapInv, mapVars

\* Steps that leave the loader and its socket alone.
LEMMA SockSame ==
  ASSUME XdpInv, prog' = prog, UNCHANGED loaderVars
  PROVE  SockInv'
  BY DEF XdpInv, SockInv, loaderVars, LoaderTypeOK

\* One CPU moves on; no packet is counted by that, and the packets about to be
\* counted become more only when one is received.
LEMMA CountMove ==
  ASSUME XdpInv, NEW c \in Cpus, NEW v \in PCs, pc' = [pc EXCEPT ![c] = v],
         UNCHANGED <<total, answers>>, v # "check",
         \/ rx' = rx + 1 /\ rx < MaxRx
         \/ rx' = rx /\ (v = "count" => pc[c] = "work") /\ v # "work"
  PROVE  CountInv'
  <1>0. pc \in [Cpus -> PCs] /\ CountInv
    BY DEF XdpInv, CpuInv
  <1> DEFINE S == {"work", "count"}
             C == {"check"}
  <1> HIDE DEF S, C
  <1>1. /\ Num(S) \in Nat /\ Num(S)' \in Nat
        /\ Num(S)' = (IF pc[c] \in S THEN Num(S) - 1 ELSE Num(S))
                       + (IF v \in S THEN 1 ELSE 0)
    BY <1>0, NumStep
  <1>2. /\ Num(C) \in Nat /\ Num(C)' \in Nat
        /\ Num(C)' = (IF pc[c] \in C THEN Num(C) - 1 ELSE Num(C))
                       + (IF v \in C THEN 1 ELSE 0)
    BY <1>0, NumStep
  <1>3. rx' \in 0 .. MaxRx /\ total + Num(S)' <= rx'
    <2>1. total + Num(S) <= rx
      BY <1>0 DEF CountInv, S
    <2>2. v \in S => rx' = rx + 1 \/ pc[c] \in S
      BY DEF S
    <2>3. rx \in 0 .. MaxRx /\ total \in 0 .. MaxRx
      BY <1>0 DEF CountInv
    <2>4. QED
      BY <1>1, <2>1, <2>2, <2>3
  <1>4. answers[total] + Num(C)' <= Cardinality(Cpus)
    <2>1. Cardinality(Cpus) \in Nat
      BY FS_CardinalityType
    <2>2. answers[total] + Num(C) <= Cardinality(Cpus) /\ answers[total] \in Nat
      BY <1>0 DEF CountInv, C
    <2>3. v \notin C
      BY DEF C
    <2>4. QED
      BY <1>2, <2>1, <2>2, <2>3
  <1>5. QED
    BY <1>0, <1>3, <1>4 DEF CountInv, AnswersBounded, S, C

-------------------------------------------------------------------------------
(* The loader.                                                               *)

\* Attaching, binding, listening, reading and ending: the maps and the programs that
\* are running are not touched, and nothing raw is read with baseline.
LEMMA LoaderSteps ==
  ASSUME XdpInv, UNCHANGED <<kernelVars, mapVars, filled>>,
         \/ main_attach \/ poll_stats_bind \/ poll_stats_listen \/ int_exit
         \/ \E k \in Kinds : recvfrom(k)
  PROVE  XdpInv'
  <1> USE DEF kernelVars
  <1>1. prog' \in Programs /\ CpuInv' /\ CountInv' /\ MapInv'
    BY CpusSame, MapsSame
  <1>2. SockInv /\ prog' = prog
    BY DEF XdpInv
  <1>3. CASE main_attach \/ poll_stats_bind \/ poll_stats_listen
    BY <1>1, <1>2, <1>3
       DEF XdpInv, SockInv, LoaderTypeOK, LoaderStates, main_attach, poll_stats_bind,
           poll_stats_listen
  <1>4. CASE int_exit
    BY <1>1, <1>2, <1>4
       DEF XdpInv, SockInv, LoaderTypeOK, LoaderStates, int_exit, NoDatagrams, Kinds
  <1>5. ASSUME NEW k \in Kinds, recvfrom(k) PROVE SockInv'
    <2>1. /\ sock \in [Kinds -> Nat] /\ lines \in [Kinds -> Nat] /\ sock[k] > 0
          /\ sock' = [sock EXCEPT ![k] = @ - 1]
          /\ lines' = IF k = "short" THEN lines ELSE [lines EXCEPT ![k] = @ + 1]
          /\ UNCHANGED <<attached, loader>>
      BY <1>2, <1>5 DEF recvfrom, SockInv, LoaderTypeOK
    <2>2. sock' \in [Kinds -> Nat] /\ lines' \in [Kinds -> Nat]
      BY <2>1
    <2>3. LoaderTypeOK'
      BY <1>2, <2>1, <2>2 DEF LoaderTypeOK, SockInv
    <2>4. ASSUME prog.kernel = "baseline"
          PROVE  sock'["raw"] = 0 /\ lines'["raw"] = 0
      <3>1. sock["raw"] = 0 /\ lines["raw"] = 0 /\ "raw" \in Kinds
        BY <1>2, <2>4 DEF SockInv, Kinds
      <3>2. k # "raw"
        BY <2>1, <3>1
      <3>3. QED
        BY <2>1, <3>1, <3>2
    <2>5. QED
      BY <1>2, <2>3, <2>4 DEF SockInv
  <1>6. QED
    BY <1>1, <1>3, <1>4, <1>5 DEF XdpInv

\* filter's table gets an address's hash; copy_from_host's first word becomes 1.
LEMMA PrepareStep ==
  ASSUME XdpInv, fill_htable \/ init_map
  PROVE  XdpInv'
  <1>1. prog' \in Programs /\ CpuInv' /\ CountInv' /\ SockInv'
    BY CpusSame, SockSame DEF fill_htable, init_map, kernelVars
  <1>2. MapInv
    BY DEF XdpInv
  <1>3. CASE fill_htable
    <2>1. filled \in 0 .. HASH_ENTRIES - 1 /\ filled \in Nat /\ HASH_ENTRIES \in Nat
      <3>1. HASH_ENTRIES \in Nat
        BY DEF HASH_ENTRIES
      <3>2. QED
        BY <1>2, <1>3, <3>1 DEF MapInv, fill_htable
    <2>2. hashmult(filled) \in HashKeys /\ hashmult(filled) \in U16
      BY <2>1, HashWord
    <2>3. filled' \in 0 .. HASH_ENTRIES
      BY <1>3, <2>1 DEF fill_htable
    <2>4. QED
      BY <1>1, <1>2, <1>3, <2>2, <2>3 DEF XdpInv, MapInv, fill_htable
  <1>4. CASE init_map
    <2>1. host' \in [Cells -> T]
      BY <1>2, <1>4, ZeroType DEF MapInv, init_map
    <2>2. filled' \in 0 .. HASH_ENTRIES
      <3>1. BYTE * BYTE >= 1
        OBVIOUS
      <3>2. QED
        BY <1>4, <3>1 DEF HASH_ENTRIES, init_map
    <2>3. QED
      BY <1>1, <1>2, <1>4, <2>1, <2>2 DEF XdpInv, MapInv, init_map
  <1>5. QED
    BY <1>3, <1>4

-------------------------------------------------------------------------------
(* Receiving a packet.                                                       *)

\* A datagram handed to the socket.
LEMMA Delivered ==
  ASSUME XdpInv, prog' = prog, NEW p, NEW kind \in Kinds, PassAs(p, kind),
         prog.kernel = "baseline" =>
           kind # "raw" \/ ~(p.udp /\ fits(p) /\ p.dgram_len >= 8 /\ p.dgram_len - 8 >= 16)
  PROVE  SockInv'
  <1>0. SockInv /\ "short" \in Kinds /\ "raw" \in Kinds
    BY DEF XdpInv, Kinds
  <1>1. CASE UNCHANGED loaderVars
    BY <1>1, SockSame
  <1>2. ASSUME NEW k \in Kinds, deliver(k), prog.kernel = "baseline" => k # "raw"
        PROVE  SockInv'
    <2>1. /\ UNCHANGED <<attached, loader, lines>>
          /\ sock' = [sock EXCEPT ![k] = @ + 1] \/ sock' = sock
      BY <1>2 DEF deliver
    <2>2. sock \in [Kinds -> Nat]
      BY <1>0 DEF SockInv, LoaderTypeOK
    <2>3. sock' \in [Kinds -> Nat]
      BY <2>1, <2>2
    <2>4. k # "raw" => sock'["raw"] = sock["raw"]
      BY <1>0, <2>1, <2>2
    <2>5. QED
      BY <1>0, <1>2, <2>1, <2>3, <2>4 DEF SockInv, LoaderTypeOK
  <1>3. QED
    BY <1>0, <1>1, <1>2 DEF PassAs

\* A packet that is passed up unchanged, or only stamped, changes no map.  What
\* baseline does not stamp is too short to hold two times.
LEMMA PassStep ==
  ASSUME XdpInv, NEW c \in Cpus, pass_packet(c) \/ stamp_packet(c)
  PROVE  XdpInv'
  <1>1. prog' \in Programs /\ CpuInv' /\ CountInv' /\ MapInv' /\ prog' = prog
    BY CpusSame, MapsSame DEF pass_packet, stamp_packet
  <1>2. CASE pass_packet(c)
    <2>1. PICK p \in Packets : ~Gate(p) /\ PassAs(p, "raw")
      BY <1>2 DEF pass_packet, PassUp
    <2>2. prog.kernel = "baseline" =>
            ~(p.udp /\ fits(p) /\ p.dgram_len >= 8 /\ p.dgram_len - 8 >= 16)
      <3> SUFFICES ASSUME prog.kernel = "baseline", p.udp, fits(p), p.dgram_len - 8 >= 16
                   PROVE  FALSE
        OBVIOUS
      <3>1. ~(p.room >= 16)
        BY <2>1 DEF Gate
      <3>2. p.dgram_len \in Nat /\ p.dgram_len < 65536 /\ p.room \in Nat
        BY PacketTypes, U16Range
      <3>3. payload_size(p) = p.dgram_len - 8
        BY <3>2 DEF payload_size
      <3>4. QED
        BY <3>1, <3>2, <3>3 DEF fits
    <2>3. SockInv'
      BY <1>1, <2>1, <2>2, Delivered DEF Kinds
    <2>4. QED
      BY <1>1, <2>3 DEF XdpInv
  <1>3. CASE stamp_packet(c)
    <2>1. PICK p \in Packets : PassAs(p, "stamped")
      BY <1>3 DEF stamp_packet
    <2>2. SockInv'
      BY <1>1, <2>1, Delivered DEF Kinds
    <2>3. QED
      BY <1>1, <2>2 DEF XdpInv
  <1>4. QED
    BY <1>2, <1>3

-------------------------------------------------------------------------------
(* A packet on its way through the program.                                  *)

\* A step of CPU c leaves the other CPUs alone.
OthersSame(c) == \A d \in Cpus \ {c} : pc'[d] = pc[d] /\ word'[d] = word[d]

\* The invariant of the CPUs has to be shown only for the one that moves.
LEMMA OneCpu ==
  ASSUME XdpInv, prog' = prog, NEW c \in Cpus, OthersSame(c), CpuOK(c)',
         pc' \in [Cpus -> PCs], word' \in [Cpus -> WordIndex],
         pkt' \in [Cpus -> PacketType], worked' \in [Cpus -> Nat],
         seen' \in [SeenPayloads -> Nat]
  PROVE  CpuInv'
  <1>1. ASSUME NEW d \in Cpus, d # c PROVE CpuOK(d)'
    BY <1>1 DEF OthersSame, CpuOK, XdpInv, CpuInv
  <1>2. QED
    BY <1>1 DEF CpuInv

\* The types of the CPUs' variables.
LEMMA CpuTypes ==
  XdpInv => /\ prog \in Programs
            /\ pc \in [Cpus -> PCs] /\ word \in [Cpus -> WordIndex]
            /\ pkt \in [Cpus -> PacketType] /\ worked \in [Cpus -> Nat]
            /\ seen \in [SeenPayloads -> Nat]
            /\ \A c \in Cpus : CpuOK(c)
  BY DEF XdpInv, CpuInv

\* A packet passes the gate.
LEMMA BeginStep ==
  ASSUME XdpInv, NEW c \in Cpus, begin_packet(c)
  PROVE  XdpInv'
  <1>0. PICK p \in Packets :
          LET miss == prog.kernel = "filter" /\ p.key \notin hm IN
          /\ pkt' = [pkt EXCEPT ![c] = p]
          /\ pc' = [pc EXCEPT ![c] = IF miss THEN "count" ELSE "work"]
          /\ worked' = [worked EXCEPT ![c] = IF miss THEN @ + 1 ELSE @]
          /\ seen' = [seen EXCEPT ![p.payload] = IF miss THEN @ ELSE @ + 1]
    BY DEF begin_packet, Goto
  <1>1. /\ MapInv' /\ SockInv' /\ prog' = prog /\ word' = word
        /\ pc[c] = "idle" /\ prog.kernel # "baseline" /\ UNCHANGED <<total, answers>>
        /\ rx' = rx + 1 /\ rx < MaxRx
    BY MapsSame, SockSame DEF begin_packet, At
  <1>2. PICK v \in {"count", "work"} : pc' = [pc EXCEPT ![c] = v]
    BY <1>0
  <1>3. p \in PacketType /\ p.payload \in SeenPayloads
    BY FiniteSums
  <1>4. pkt' \in [Cpus -> PacketType] /\ worked' \in [Cpus -> Nat]
    BY <1>0, <1>3, CpuTypes
  <1>5. seen' \in [SeenPayloads -> Nat]
    <2>1. seen \in [SeenPayloads -> Nat]
      BY CpuTypes
    <2>2. QED
      BY <1>0, <1>3, <2>1
  <1>6. CpuOK(c)' /\ OthersSame(c) /\ pc' \in [Cpus -> PCs]
    BY <1>1, <1>2, CpuTypes DEF CpuOK, OthersSame, PCs
  <1>7. CpuInv'
    BY <1>1, <1>4, <1>5, <1>6, CpuTypes, OneCpu
  <1>8. CountInv'
    BY <1>1, <1>2, CountMove DEF PCs
  <1>9. QED
    BY <1>1, <1>7, <1>8, CpuTypes DEF XdpInv

\* The work on the packet is done: the packet is about to be counted.
LEMMA DoneStep ==
  ASSUME XdpInv, NEW c \in Cpus, pc[c] = "work", WorkDone(c), prog' = prog,
         UNCHANGED <<rx, seen, total, answers>>, pkt' \in [Cpus -> PacketType],
         MapInv', SockInv'
  PROVE  XdpInv'
  <1>1. /\ pc' = [pc EXCEPT ![c] = "count"] /\ word' = word
        /\ worked' = [worked EXCEPT ![c] = @ + 1]
    BY DEF WorkDone, Goto
  <1>2. CpuOK(c)' /\ OthersSame(c) /\ pc' \in [Cpus -> PCs] /\ worked' \in [Cpus -> Nat]
    BY <1>1, CpuTypes DEF CpuOK, OthersSame, PCs
  <1>3. CpuInv'
    BY <1>1, <1>2, CpuTypes, OneCpu
  <1>4. CountInv'
    BY <1>1, CountMove DEF PCs
  <1>5. QED
    BY <1>3, <1>4, CpuTypes DEF XdpInv

\* The end of one iteration of a word loop.
LEMMA WordStep ==
  ASSUME XdpInv, NEW c \in Cpus, pc[c] = "work", EndWord(c),
         prog.kernel # "aggregate", pkt' \in [Cpus -> PacketType],
         host' \in [Cells -> T], hm' \in SUBSET U16
  PROVE  XdpInv'
  <1>1. MapInv' /\ SockInv' /\ prog' = prog
    BY SockSame DEF XdpInv, MapInv, EndWord
  <1>2. CASE word[c] = DATA_NR - 1
    BY <1>1, <1>2, DoneStep DEF EndWord
  <1>3. CASE word[c] # DATA_NR - 1
    <2>1. word' = [word EXCEPT ![c] = @ + 1] /\ UNCHANGED <<pc, worked, seen>>
      BY <1>3 DEF EndWord
    <2>2. word[c] + 1 \in WordIndex
      BY <1>3, CpuTypes DEF WordIndex
    <2>3. word' \in [Cpus -> WordIndex] /\ CpuOK(c)' /\ OthersSame(c)
      BY <1>1, <2>1, <2>2, CpuTypes DEF CpuOK, OthersSame
    <2>4. CpuInv'
      BY <1>1, <2>1, <2>3, CpuTypes, OneCpu
    <2>5. CountInv'
      <3>1. \A S : Num(S)' = Num(S)
        BY <2>1 DEF Num
      <3>2. QED
        BY <1>3, <3>1 DEF CountInv, AnswersBounded, XdpInv, EndWord
    <2>6. QED
      BY <1>1, <2>4, <2>5, CpuTypes DEF XdpInv
  <1>4. QED
    BY <1>2, <1>3

\* The program returns: the CPU is free for the next packet.
LEMMA ReturnCpu ==
  ASSUME XdpInv, NEW c \in Cpus, prog' = prog, Return(c), UNCHANGED <<worked, seen>>
  PROVE  CpuInv' /\ pc' = [pc EXCEPT ![c] = "idle"] /\ "idle" \in PCs
  <1>1. /\ pc' = [pc EXCEPT ![c] = "idle"] /\ word' = [word EXCEPT ![c] = 0]
        /\ pkt' = [pkt EXCEPT ![c] = NoPacket]
    BY DEF Return, Goto
  <1>2. /\ pc' \in [Cpus -> PCs] /\ word' \in [Cpus -> WordIndex] /\ OthersSame(c)
        /\ pc'[c] = "idle" /\ word'[c] = 0
    BY <1>1, CpuTypes, ZeroType DEF OthersSame, PCs
  <1>3. pkt' \in [Cpus -> PacketType]
    BY <1>1, CpuTypes, PacketTypes
  <1>4. CpuOK(c)'
    BY <1>2 DEF CpuOK
  <1>5. QED
    BY <1>1, <1>2, <1>3, <1>4, CpuTypes, OneCpu DEF PCs

\* Each program writes values of type T into cells that exist, and filter only keys
\* that are hashes.
LEMMA WorkStep ==
  ASSUME XdpInv, NEW c \in Cpus, Work(c)
  PROVE  XdpInv'
  <1>0. /\ pkt[c].payload \in Payloads /\ word[c] \in WordIndex /\ Word(c) \in T
        /\ word[c] \in Cells /\ host \in [Cells -> T] /\ MapInv
        /\ 0 \in Cells
    <2>1. pkt[c].payload \in Payloads /\ word[c] \in WordIndex
      BY CpuTypes, PacketTypes
    <2>2. Word(c) \in T
      BY <2>1 DEF Word, Payloads
    <2>3. word[c] \in Cells /\ 0 \in Cells
      BY <2>1 DEF Cells, WordIndex
    <2>4. QED
      BY <2>1, <2>2, <2>3 DEF XdpInv, MapInv
  <1>1. /\ pc[c] = "work" /\ pkt \in [Cpus -> PacketType]
        /\ hm \in SUBSET U16
    BY <1>0, CpuTypes
       DEF MapInv, Work, aggregate_packet, reduce_word, histogram_word,
           histogram_pass, copy_to_host_word, filter_word, copy_from_host_word, InLoop, At
  <1>2. CASE aggregate_packet(c)
    <2>1. WordSum(pkt[c].payload) \in Int
      <3> DEFINE p == pkt[c].payload
      <3>1. \A k \in WordIndex : p[k] \in Int
        BY <1>0 DEF Payloads, T
      <3> HIDE DEF p
      <3>2. WordSum(p) \in Int
        BY <3>1, FiniteSums, SumType DEF WordSum
      <3>3. QED
        BY <3>2 DEF p
    <2>2. host' \in [Cells -> T]
      <3>1. host[0] + WordSum(pkt[c].payload) \in Int
        BY <1>0, <2>1 DEF T
      <3>2. wrap(host[0] + WordSum(pkt[c].payload)) \in T
        BY <3>1, WrapType
      <3>3. QED
        BY <1>0, <1>2, <3>2 DEF aggregate_packet
    <2>3. MapInv' /\ SockInv'
      BY <1>0, <1>2, <2>2, SockSame DEF aggregate_packet, MapInv
    <2>4. QED
      BY <1>1, <1>2, <2>3, DoneStep DEF aggregate_packet
  <1>3. CASE reduce_word(c)
    <2>1. host' \in [Cells -> T]
      <3>1. host[word[c]] + Word(c) \in Int
        BY <1>0 DEF T
      <3>2. wrap(host[word[c]] + Word(c)) \in T
        BY <3>1, WrapType
      <3>3. QED
        BY <1>0, <1>3, <3>2 DEF reduce_word
    <2>2. QED
      BY <1>1, <1>3, <2>1, WordStep DEF reduce_word, InLoop
  <1>4. CASE histogram_word(c)
    <2>1. host' \in [Cells -> T]
      <3>1. CASE Word(c) < HISTOG_NR
        <4>1. Word(c) \in Cells
          BY <1>0, <1>4, <3>1 DEF histogram_word, WrongKey, Cells, T
        <4>2. host[Word(c)] + 1 \in Int
          BY <1>0, <4>1 DEF T
        <4>3. wrap(host[Word(c)] + 1) \in T
          BY <4>2, WrapType
        <4>4. QED
          BY <1>0, <1>4, <3>1, <4>3 DEF histogram_word
      <3>2. CASE ~(Word(c) < HISTOG_NR)
        BY <1>0, <1>4, <3>2 DEF histogram_word
      <3>3. QED
        BY <3>1, <3>2
    <2>2. QED
      BY <1>1, <1>4, <2>1, WordStep DEF histogram_word, InLoop
  <1>5. CASE histogram_pass(c)
    <2>1. /\ prog.kernel = "histogram" /\ prog' = prog /\ PassAs(pkt[c], "raw")
          /\ MapInv' /\ UNCHANGED <<rx, worked, seen, total, answers>> /\ Return(c)
      BY <1>5, MapsSame DEF histogram_pass, InLoop, PassUp, histVars
    <2>2. SockInv'
      BY <2>1, Delivered DEF Kinds
    <2>3. CpuInv' /\ CountInv'
      BY <2>1, ReturnCpu, CountMove
    <2>4. QED
      BY <2>1, <2>2, <2>3, CpuTypes DEF XdpInv
  <1>6. CASE copy_to_host_word(c)
    <2>1. host' \in [Cells -> T]
      BY <1>0, <1>6 DEF copy_to_host_word
    <2>2. QED
      BY <1>1, <1>6, <2>1, WordStep DEF copy_to_host_word, InLoop
  <1>7. CASE filter_word(c)
    <2>1. hm' \in SUBSET U16
      BY <1>0, <1>1, <1>7, HashWord DEF filter_word
    <2>2. QED
      BY <1>0, <1>1, <1>7, <2>1, WordStep DEF filter_word, InLoop
  <1>8. CASE copy_from_host_word(c)
    <2> DEFINE q == [pkt[c].payload EXCEPT ![word[c]] = host[word[c]]]
    <2>1. q \in Payloads
      BY <1>0 DEF Payloads
    <2>2. pkt' = [pkt EXCEPT ![c] = [pkt[c] EXCEPT !.payload = q]]
      BY <1>1, <1>8 DEF copy_from_host_word
    <2> HIDE DEF q
    <2>3. [pkt[c] EXCEPT !.payload = q] \in PacketType
      BY <1>1, <2>1, PacketTypes
    <2>4. pkt' \in [Cpus -> PacketType]
      BY <1>1, <2>2, <2>3
    <2>5. QED
      BY <1>0, <1>1, <1>8, <2>4, WordStep DEF copy_from_host_word, InLoop
  <1>9. QED
    BY <1>2, <1>3, <1>4, <1>5, <1>6, <1>7, <1>8 DEF Work

\* The packet is counted: it was received, and the counter's new value has not been
\* answered yet.
LEMMA CountStep ==
  ASSUME XdpInv, NEW c \in Cpus, count_packet(c)
  PROVE  XdpInv'
  <1>0. /\ pc[c] = "count" /\ pc' = [pc EXCEPT ![c] = "check"] /\ total' = total + 1
        /\ nr_pkt' = wrap(nr_pkt + 1)
        /\ UNCHANGED <<prog, pkt, word, host, hm, filled, rx, worked, seen, answers>>
    BY DEF count_packet, At, Goto
  <1>1. SockInv'
    BY SockSame DEF count_packet
  <1>2. MapInv'
    <2>1. nr_pkt + 1 \in Int
      BY DEF XdpInv, MapInv, T
    <2>2. wrap(nr_pkt + 1) \in T
      BY <2>1, WrapType
    <2>3. QED
      BY <1>0, <2>2 DEF XdpInv, MapInv
  <1>3. CpuInv'
    <2>1. CpuOK(c)' /\ OthersSame(c) /\ pc' \in [Cpus -> PCs]
      BY <1>0, CpuTypes DEF CpuOK, OthersSame, PCs
    <2>2. QED
      BY <1>0, <2>1, CpuTypes, OneCpu
  <1>4. CountInv'
    <2> DEFINE S == {"work", "count"}
               C == {"check"}
    <2>0. CountInv /\ pc \in [Cpus -> PCs]
      BY DEF XdpInv, CpuInv
    <2>1. "check" \notin S /\ "check" \in C /\ pc[c] \in S /\ pc[c] \notin C
      BY <1>0
    <2>2. total + Num(S) <= rx /\ rx \in 0 .. MaxRx /\ total \in 0 .. MaxRx
      BY <2>0 DEF CountInv
    <2> HIDE DEF S, C
    <2>3. Num(S) \in Nat /\ Num(S)' \in Nat /\ Num(S)' = Num(S) - 1
      BY <1>0, <2>0, <2>1, NumLeave
    <2>4. Num(C)' \in Nat /\ Num(C)' <= Cardinality(Cpus)
      BY <1>0, <2>0, NumStep
    <2>5. total' + Num(S)' <= rx /\ total' \in 0 .. MaxRx
      BY <1>0, <2>2, <2>3
    <2>6. answers[total'] = 0 /\ \A n \in 0 .. MaxRx : n > total' => answers[n] = 0
      BY <1>0, <2>0, <2>5 DEF CountInv
    <2>7. answers[total'] + Num(C)' <= Cardinality(Cpus)
      BY <2>4, <2>6
    <2>8. QED
      BY <1>0, <2>0, <2>5, <2>6, <2>7 DEF CountInv, AnswersBounded, S, C
  <1>5. QED
    BY <1>0, <1>1, <1>2, <1>3, <1>4, CpuTypes DEF XdpInv

\* The counter is at a multiple: the packet is sent back.
LEMMA AnswerStep ==
  ASSUME XdpInv, NEW c \in Cpus, answer(c)
  PROVE  XdpInv'
  <1>0. /\ pc[c] = "check" /\ answers' = [answers EXCEPT ![total] = @ + 1] /\ Return(c)
        /\ UNCHANGED <<prog, rx, worked, seen, total>>
    BY DEF answer, At
  <1>1. SockInv' /\ MapInv'
    BY SockSame, MapsSame DEF answer
  <1>2. CpuInv' /\ pc' = [pc EXCEPT ![c] = "idle"]
    BY <1>0, ReturnCpu
  <1>3. CountInv'
    <2> DEFINE S == {"work", "count"}
               C == {"check"}
    <2>0. CountInv /\ pc \in [Cpus -> PCs]
      BY DEF XdpInv, CpuInv
    <2>1. "idle" \notin S /\ "idle" \notin C /\ pc[c] \notin S /\ pc[c] \in C
      BY <1>0
    <2>2. /\ total + Num(S) <= rx /\ answers[total] + Num(C) <= Cardinality(Cpus)
          /\ total \in 0 .. MaxRx /\ answers \in [0 .. MaxRx -> Nat]
      BY <2>0 DEF CountInv
    <2> HIDE DEF S, C
    <2>3. Num(S)' = Num(S)
      BY <1>2, <2>0, <2>1, NumLeave
    <2>4. Num(C) \in Nat /\ Num(C)' \in Nat /\ Num(C)' = Num(C) - 1
      BY <1>2, <2>0, <2>1, NumLeave
    <2>5. Cardinality(Cpus) \in Nat
      BY FS_CardinalityType
    <2>6. answers' \in [0 .. MaxRx -> Nat] /\ answers'[total] = answers[total] + 1
      BY <1>0, <2>2
    <2>7. answers'[total] + Num(C)' <= Cardinality(Cpus)
      BY <2>2, <2>4, <2>5, <2>6
    <2>8. \A n \in 0 .. MaxRx : n # total => answers'[n] = answers[n]
      BY <1>0, <2>2
    <2>9. AnswersBounded'
      <3>1. answers'[total] <= Cardinality(Cpus)
        BY <2>4, <2>5, <2>6, <2>7, <2>2, SMTT(30)
      <3>2. DOMAIN answers' = 0 .. MaxRx /\ DOMAIN answers = 0 .. MaxRx
        BY <2>2, <2>6
      <3>3. QED
        BY <2>0, <2>8, <3>1, <3>2 DEF AnswersBounded, CountInv
    <2>10. \A n \in 0 .. MaxRx : n > total => answers'[n] = 0
      BY <2>0, <2>2, <2>8 DEF CountInv
    <2>11. QED
      BY <1>0, <2>0, <2>2, <2>3, <2>6, <2>7, <2>9, <2>10 DEF CountInv, S, C
  <1>4. QED
    BY <1>0, <1>1, <1>2, <1>3, CpuTypes DEF XdpInv

\* The packet is passed up or dropped.
LEMMA NoAnswerStep ==
  ASSUME XdpInv, NEW c \in Cpus, no_answer(c)
  PROVE  XdpInv'
  <1>0. /\ pc[c] = "check" /\ Return(c) /\ UNCHANGED <<prog, rx, worked, seen, total, answers>>
        /\ MapInv'
    BY MapsSame DEF no_answer, At, histVars
  <1>1. CpuInv' /\ CountInv'
    BY <1>0, ReturnCpu, CountMove
  <1>2. prog.kernel # "baseline"
    BY <1>0, CpuTypes DEF CpuOK
  <1>3. SockInv'
    <2>1. \/ PassAs(pkt[c], "stamped") \/ PassAs(pkt[c], "raw") \/ UNCHANGED loaderVars
      BY DEF no_answer, PassUp
    <2>2. QED
      BY <1>0, <1>2, <2>1, Delivered, SockSame DEF Kinds
  <1>4. QED
    BY <1>0, <1>1, <1>3, CpuTypes DEF XdpInv

\* Every step of the loader and of a CPU keeps the invariant.
LEMMA XdpStep == XdpInv /\ [Next]_vars => XdpInv'
  <1> SUFFICES ASSUME XdpInv, [Next]_vars PROVE XdpInv'
    OBVIOUS
  <1>1. CASE UNCHANGED vars
    <2>1. prog' = prog /\ rx' = rx /\ UNCHANGED <<cpuVars, histVars, mapVars, filled, loaderVars>>
      BY <1>1 DEF vars
    <2>2. QED
      BY <2>1, CpusSame, MapsSame, SockSame DEF XdpInv
  <1>2. CASE Loader \/ LoaderExit
    BY <1>2, LoaderSteps, PrepareStep
       DEF Loader, LoaderExit, Attach, Bind, Listen, poll_stats
  <1>3. ASSUME NEW c \in Cpus, Receive(c) \/ Handle(c) PROVE XdpInv'
    BY <1>3, PassStep, BeginStep, WorkStep, CountStep, AnswerStep, NoAnswerStep
       DEF Receive, Handle
  <1>4. QED
    BY <1>1, <1>2, <1>3 DEF Next, Waiting

\* XdpInv holds in every reachable state.
THEOREM XdpInvariance == Spec => []XdpInv
  BY XdpInitial, XdpStep, PTL DEF Spec

\* Every variable keeps its type: no counter runs past its bound, no cell outside
\* the maps is written.
THEOREM XdpTypeCorrect == Spec => []TypeOK
  BY XdpInvariance, XdpTypes, PTL

\* A completed MiB is answered at most once per CPU, for any number of CPUs: the
\* counter moves on before a CPU that has answered can read it again.
THEOREM AnswersLimited == Spec => []AnswersBounded
  <1>1. XdpInv => AnswersBounded
    BY DEF XdpInv, CountInv
  <1>2. QED
    BY <1>1, XdpInvariance, PTL

\* With baseline and ktime_call every logged line is the difference of two times.
THEOREM StampsOnly == Spec => []OnlyStampsLogged
  <1>1. XdpInv => OnlyStampsLogged
    BY DEF XdpInv, SockInv, OnlyStampsLogged
  <1>2. QED
    BY <1>1, XdpInvariance, PTL

-------------------------------------------------------------------------------
(* The packet counter.                                                       *)

Counting == Num({"count"})

\* The counter, the packets worked on and the ones yet to be counted.
LEMMA CountIff == CountConserved <=> nr_pkt = wrap(SumFunction(worked) - Counting)
  <1>1. {c \in Cpus : pc[c] = "count"} = {c \in Cpus : pc[c] \in {"count"}}
    OBVIOUS
  <1>2. QED
    BY <1>1 DEF CountConserved, Counting, Num

\* The same after a step.
LEMMA CountIffNext ==
  CountConserved' <=> nr_pkt' = wrap(SumFunction(worked') - Counting')
  <1>1. {c \in Cpus : pc'[c] = "count"} = {c \in Cpus : pc'[c] \in {"count"}}
    OBVIOUS
  <1>2. QED
    BY <1>1 DEF CountConserved, Counting, Num

\* Initially no packet is worked on.
LEMMA CountInitial == Init => CountConserved
  <1> SUFFICES ASSUME Init PROVE CountConserved
    OBVIOUS
  <1> DEFINE z == [c \in Cpus |-> 0]
  <1>1. worked = z /\ nr_pkt = 0 /\ \A c \in Cpus : pc[c] = "idle"
    BY DEF Init
  <1>2. DOMAIN z = Cpus /\ \A c \in Cpus : z[c] = 0
    OBVIOUS
  <1> HIDE DEF z
  <1>3. SumFunction(z) = 0
    BY <1>2, SumZero DEF SumFunction
  <1>4. {c \in Cpus : pc[c] \in {"count"}} = {}
    BY <1>1
  <1>5. Counting = 0
    BY <1>4, FS_EmptySet DEF Counting, Num
  <1>6. SumFunction(worked) - Counting = 0
    BY <1>1, <1>3, <1>5
  <1>7. QED
    BY <1>1, <1>6, CountIff, WrapId, ZeroType

\* CPU c moves to v: the packet is neither finished nor counted, or finished, or
\* counted.
LEMMA CountMoves ==
  ASSUME XdpInv, XdpInv', CountConserved, NEW c \in Cpus, NEW v,
         pc' = [pc EXCEPT ![c] = v],
         \/ worked' = worked /\ nr_pkt' = nr_pkt /\ (v = "count" <=> pc[c] = "count")
         \/ /\ worked' = [worked EXCEPT ![c] = @ + 1] /\ nr_pkt' = nr_pkt
            /\ v = "count" /\ pc[c] # "count"
         \/ worked' = worked /\ nr_pkt' = wrap(nr_pkt + 1) /\ v # "count" /\ pc[c] = "count"
  PROVE  CountConserved'
  <1>0. worked \in [Cpus -> Int] /\ worked' \in [Cpus -> Int] /\ pc \in [Cpus -> PCs]
        /\ worked \in [Cpus -> Nat]
    BY DEF XdpInv, CpuInv
  <1> DEFINE S == {"count"}
             s == SumFunction(worked)
             t == SumFunction(worked')
             n == Num(S)
             m == Num(S)'
  <1>1. /\ s \in Int /\ t \in Int /\ t - worked'[c] = s - worked[c]
        /\ worked[c] \in Int /\ worked'[c] \in Int
    <2>1. \A d \in Cpus \ {c} : worked[d] = worked'[d]
      BY <1>0
    <2>2. QED
      BY <1>0, <2>1, SumFunctionStep
  <1>2. (v \in S <=> v = "count") /\ (pc[c] \in S <=> pc[c] = "count")
    OBVIOUS
  <1>3. nr_pkt = wrap(s - n)
    BY CountIff DEF Counting
  <1> HIDE DEF S
  <1>4. /\ n \in Nat /\ m \in Nat
        /\ m = (IF pc[c] \in S THEN n - 1 ELSE n) + (IF v \in S THEN 1 ELSE 0)
    BY <1>0, NumStep
  <1> SUFFICES nr_pkt' = wrap(t - m)
    BY CountIffNext DEF Counting, S
  <1> DEFINE a == worked[c]
             b == worked'[c]
  <1>5. s \in Int /\ t \in Int /\ t - b = s - a /\ a \in Int /\ b \in Int
    BY <1>1
  <1> HIDE DEF s, t, n, m
  <1>6. CASE worked' = worked /\ nr_pkt' = nr_pkt /\ (v = "count" <=> pc[c] = "count")
    <2>1. b = a /\ m = n
      BY <1>2, <1>4, <1>6
    <2> HIDE DEF a, b
    <2>2. t - m = s - n
      BY <1>4, <1>5, <2>1
    <2>3. QED
      BY <1>3, <1>6, <2>2
  <1>7. CASE /\ worked' = [worked EXCEPT ![c] = @ + 1] /\ nr_pkt' = nr_pkt
             /\ v = "count" /\ pc[c] # "count"
    <2>1. b = a + 1 /\ m = n + 1
      BY <1>0, <1>2, <1>4, <1>7
    <2> HIDE DEF a, b
    <2>2. t - m = s - n
      BY <1>4, <1>5, <2>1
    <2>3. QED
      BY <1>3, <1>7, <2>2
  <1>8. CASE worked' = worked /\ nr_pkt' = wrap(nr_pkt + 1) /\ v # "count" /\ pc[c] = "count"
    <2>1. b = a /\ m = n - 1
      BY <1>2, <1>4, <1>8
    <2> HIDE DEF a, b
    <2>2. t - m = (s - n) + 1 /\ s - n \in Int
      BY <1>4, <1>5, <2>1
    <2>3. wrap(wrap(s - n) + 1) = wrap((s - n) + 1)
      BY <2>2, WrapAdd
    <2>4. QED
      BY <1>3, <1>8, <2>2, <2>3
  <1>9. QED
    BY <1>6, <1>7, <1>8

\* Every step keeps the counter and the packets worked on in agreement.
LEMMA CountConserves ==
  XdpInv /\ XdpInv' /\ CountConserved /\ [Next]_vars => CountConserved'
  <1> SUFFICES ASSUME XdpInv, XdpInv', CountConserved, [Next]_vars
               PROVE  CountConserved'
    OBVIOUS
  <1>1. CASE UNCHANGED <<pc, worked, nr_pkt>>
    BY <1>1 DEF CountConserved
  <1>2. ASSUME NEW c \in Cpus, begin_packet(c) PROVE CountConserved'
    <2>1. pc[c] = "idle" /\ nr_pkt' = nr_pkt
      BY <1>2 DEF begin_packet, At, mapVars
    <2>2. CASE /\ pc' = [pc EXCEPT ![c] = "count"]
               /\ worked' = [worked EXCEPT ![c] = @ + 1]
      BY <2>1, <2>2, CountMoves
    <2>3. CASE pc' = [pc EXCEPT ![c] = "work"] /\ worked' = worked
      BY <2>1, <2>3, CountMoves
    <2>4. \/ /\ pc' = [pc EXCEPT ![c] = "count"]
             /\ worked' = [worked EXCEPT ![c] = @ + 1]
          \/ pc' = [pc EXCEPT ![c] = "work"] /\ worked' = [worked EXCEPT ![c] = @]
      BY <1>2 DEF begin_packet, Goto
    <2>5. [worked EXCEPT ![c] = @] = worked
      BY CpuTypes
    <2>6. QED
      BY <2>2, <2>3, <2>4, <2>5
  <1>3. ASSUME NEW c \in Cpus, Work(c) PROVE CountConserved'
    <2>1. CASE WorkDone(c) /\ pc[c] = "work" /\ nr_pkt' = nr_pkt
      BY <2>1, CountMoves DEF WorkDone, Goto
    <2>2. CASE UNCHANGED <<pc, worked>> /\ nr_pkt' = nr_pkt
      BY <1>1, <2>2
    <2>3. CASE histogram_pass(c)
      BY <2>3, CountMoves
         DEF histogram_pass, InLoop, At, Return, Goto, mapVars, histVars
    <2>4. CASE aggregate_packet(c)
      BY <2>1, <2>4 DEF aggregate_packet, InLoop, At
    <2>5. CASE EndWord(c) /\ pc[c] = "work"
      BY <2>1, <2>2, <2>5 DEF EndWord
    <2>6. QED
      BY <1>3, <2>3, <2>4, <2>5
         DEF Work, reduce_word, histogram_word, copy_to_host_word, filter_word,
             copy_from_host_word, InLoop, At
  <1>4. ASSUME NEW c \in Cpus, count_packet(c) PROVE CountConserved'
    BY <1>4, CountMoves DEF count_packet, At, Goto
  <1>5. ASSUME NEW c \in Cpus, answer(c) \/ no_answer(c) PROVE CountConserved'
    BY <1>5, CountMoves
       DEF answer, no_answer, At, Return, Goto, mapVars, histVars
  <1>6. QED
    BY <1>1, <1>2, <1>3, <1>4, <1>5
       DEF Next, vars, Loader, LoaderExit, Attach, Bind, Listen, fill_htable, init_map,
           poll_stats, Receive, Handle, pass_packet, stamp_packet, Waiting, kernelVars,
           cpuVars, mapVars, histVars

\* The counter holds every packet whose work was completed, once, however many CPUs
\* count and however often it wraps around.
THEOREM CounterCorrect == Spec => []CountConserved
  BY XdpInvariance, CountInitial, CountConserves, PTL DEF Spec

-------------------------------------------------------------------------------
(* The maps: HostExact and TableExact, kernel by kernel.                     *)

SumExact == \A k \in SumCells : wrap(host[k] + Owed(k)) = wrap(Due(k))

Copying == prog.kernel = "copy_to_host"

CopyExact ==
  Copying =>
    \A k \in WordIndex :
      IF Written(k) = {} THEN host[k] = 0
                         ELSE host[k] \in {p[k] : p \in Written(k)}

\* copy_from_host does not write the map; init_map has put a 1 into it.
ReadExact ==
  prog.kernel = "copy_from_host" =>
    \A k \in WordIndex : host[k] = IF k = 0 THEN filled ELSE 0

\* The hash table holds the loader's keys and the indices of the stored words.
FillExact == prog.kernel = "filter" => hm = LoaderKeys \cup Stored

\* The words of the packet CPU c works on.
Words(c) == pkt[c].payload

\* The CPUs in the middle of a packet work on payloads that were begun, and each
\* payload was begun at least as often as CPUs are in the middle of it.
Holders(p, k) == {c \in Before(k) : Words(c) = p}

Storing == prog.kernel \in {"copy_to_host", "filter"}

CopyInv ==
  Storing =>
    /\ \A c \in Working : Words(c) \in SeenPayloads
    /\ \A k \in WordIndex : \A p \in SeenPayloads :
         seen[p] >= Cardinality(Holders(p, k))

\* Inductive relative to XdpInv.
ExactInv == SumExact /\ CopyExact /\ ReadExact /\ FillExact /\ CopyInv

\* A payload was written to cell k if more CPUs have begun it than are still
\* before its word k.
LEMMA WrittenIff ==
  \A k, p : p \in Written(k) <=> /\ p \in SeenPayloads
                                 /\ seen[p] > Cardinality(Holders(p, k))
  BY DEF Written, Holders, Words

\* The same after a step.
LEMMA WrittenIffNext ==
  \A k, p : p \in Written(k)' <=> /\ p \in SeenPayloads
                                  /\ seen'[p] > Cardinality(Holders(p, k)')
  BY DEF Written, Holders, Words

\* The parts make up HostExact.
LEMMA ExactParts ==
  ASSUME prog \in Programs, SumExact, CopyExact, ReadExact
  PROVE  HostExact
  <1>1. prog.kernel \in Kernels
    OBVIOUS
  <1>2. CASE prog.kernel \in {"aggregate", "reduce", "histogram"}
    BY <1>2 DEF HostExact, SumExact
  <1>3. CASE prog.kernel = "copy_to_host"
    BY <1>3 DEF HostExact, CopyExact, Copying, Written
  <1>4. CASE prog.kernel \in {"copy_from_host", "filter", "baseline"}
    BY <1>4 DEF HostExact, ReadExact
  <1>5. QED
    BY <1>1, <1>2, <1>3, <1>4 DEF Kernels

\* The types that the sums depend on.
LEMMA SumTypes ==
  XdpInv => /\ prog \in Programs /\ host \in [Cells -> T]
            /\ \A c \in Cpus : Words(c) \in Payloads /\ word[c] \in WordIndex
            /\ Working = {c \in Cpus : pc[c] = "work"}
  <1> SUFFICES ASSUME XdpInv
               PROVE  /\ prog \in Programs /\ host \in [Cells -> T]
                      /\ \A c \in Cpus : Words(c) \in Payloads /\ word[c] \in WordIndex
                      /\ Working = {c \in Cpus : pc[c] = "work"}
    OBVIOUS
  <1>1. \A c \in Cpus : Words(c) \in Payloads /\ word[c] \in WordIndex
    BY CpuTypes, PacketTypes DEF Words
  <1>2. Working = {c \in Cpus : pc[c] = "work"}
    BY <1>1 DEF Working, Before, WordIndex
  <1>3. QED
    BY <1>1, <1>2 DEF XdpInv, MapInv

\* The same after a step.
LEMMA SumTypesNext ==
  XdpInv' => /\ host' \in [Cells -> T]
             /\ \A c \in Cpus : Words(c)' \in Payloads /\ word'[c] \in WordIndex
             /\ Working' = {c \in Cpus : pc'[c] = "work"}
  <1> SUFFICES ASSUME XdpInv'
               PROVE  /\ host' \in [Cells -> T]
                      /\ \A c \in Cpus : Words(c)' \in Payloads /\ word'[c] \in WordIndex
                      /\ Working' = {c \in Cpus : pc'[c] = "work"}
    OBVIOUS
  <1>0. pkt' \in [Cpus -> PacketType] /\ word' \in [Cpus -> WordIndex]
    BY DEF XdpInv, CpuInv
  <1>1. \A c \in Cpus : Words(c)' \in Payloads /\ word'[c] \in WordIndex
    BY <1>0, PacketTypes DEF Words
  <1>2. Working' = {c \in Cpus : pc'[c] = "work"}
    BY <1>1 DEF Working, Before, WordIndex
  <1>3. QED
    BY <1>1, <1>2 DEF XdpInv, MapInv

\* What a packet adds to a cell is a number.
LEMMA AddsType ==
  ASSUME prog \in Programs, NEW k \in SumCells, NEW p \in Payloads,
         NEW from \in WordIndex
  PROVE  Adds(p, from, k) \in Int /\ k \in Cells
  <1>0. \A d \in WordIndex : p[d] \in Int
    BY DEF Payloads, T
  <1>1. CASE prog.kernel = "aggregate"
    <2>1. WordSum(p) \in Int
      BY <1>0, FiniteSums, SumType DEF WordSum
    <2>2. k \in Cells
      BY <1>1 DEF SumCells, Cells
    <2>3. QED
      BY <1>1, <2>1, <2>2 DEF Adds
  <1>2. CASE prog.kernel = "reduce"
    <2>1. k \in WordIndex /\ k \in Cells
      BY <1>2 DEF SumCells, Cells, WordIndex
    <2>2. QED
      BY <1>0, <1>2, <2>1 DEF Adds
  <1>3. CASE prog.kernel = "histogram"
    <2>1. Binned(p, k, from) \in Nat
      <3> DEFINE K == {d \in from .. DATA_NR - 1 :
                         p[d] = k /\ \A j \in from .. d : ~WrongKey(p[j])}
      <3>1. K \subseteq WordIndex
        BY DEF WordIndex
      <3> HIDE DEF K
      <3>2. Cardinality(K) \in Nat
        BY <3>1, FiniteSums, FS_Subset, FS_CardinalityType
      <3>3. QED
        BY <3>2 DEF K, Binned
    <2>2. k \in Cells
      BY <1>3 DEF SumCells, Cells
    <2>3. QED
      BY <1>3, <2>1, <2>2 DEF Adds
  <1>4. QED
    BY <1>1, <1>2, <1>3 DEF SumCells, Kernels

\* What the sums see of the CPUs other than c.
DataAlone(c) ==
  \A d \in Cpus \ {c} :
    /\ pc'[d] = pc[d] /\ Words(d)' = Words(d)
    /\ word'[d] = word[d]

\* What CPU c owes to cell k.
Share(c, k) == IF pc[c] = "work" THEN Adds(Words(c), word[c], k) ELSE 0

\* When CPU c moves, only its own share of what is owed changes.
LEMMA OwedStep ==
  ASSUME NEW c \in Cpus, XdpInv, XdpInv', prog' = prog, DataAlone(c),
         NEW k, k \in SumCells
  PROVE  /\ Owed(k) \in Int /\ Owed(k)' \in Int
         /\ Share(c, k) \in Int /\ Share(c, k)' \in Int
         /\ Owed(k)' - Share(c, k)' = Owed(k) - Share(c, k)
  <1>0. prog \in Programs
    BY DEF XdpInv
  <1>1. /\ Working = {d \in Cpus : pc[d] = "work"}
        /\ Working' = {d \in Cpus : pc'[d] = "work"}
    BY SumTypes, SumTypesNext
  <1>2. /\ \A d \in Cpus : Words(d) \in Payloads /\ word[d] \in WordIndex
        /\ \A d \in Cpus : Words(d)' \in Payloads /\ word'[d] \in WordIndex
    BY SumTypes, SumTypesNext
  <1> DEFINE U == Working
             V == Working'
             e == [d \in U |-> Adds(Words(d), word[d], k)]
             f == [d \in V |-> Adds(Words(d)', word'[d], k)]
  <1>3. Owed(k) = SumFunction(e)
    BY DEF Owed, Words
  <1>4. Owed(k)' = SumFunction(f)
    BY DEF Owed, Adds, Words
  <1>5. e \in [U -> Int] /\ f \in [V -> Int]
    <2>1. \A d \in Cpus : /\ Adds(Words(d), word[d], k) \in Int
                          /\ Adds(Words(d)', word'[d], k) \in Int
      BY <1>0, <1>2, AddsType
    <2>2. U \subseteq Cpus /\ V \subseteq Cpus
      BY <1>1
    <2> HIDE DEF U, V
    <2>3. QED
      BY <2>1, <2>2
  <1>6. U \ {c} = V \ {c} /\ \A d \in U \ {c} : e[d] = f[d]
    <2>1. U \ {c} = V \ {c}
      BY <1>1 DEF DataAlone
    <2>2. \A d \in U \ {c} : Words(d)' = Words(d) /\ word'[d] = word[d]
      BY <1>1 DEF DataAlone
    <2> HIDE DEF U, V
    <2>3. QED
      BY <2>1, <2>2
  <1>7. /\ Share(c, k) = IF c \in U THEN e[c] ELSE 0
        /\ Share(c, k)' = IF c \in V THEN f[c] ELSE 0
    <2>1. Share(c, k) = IF c \in U THEN e[c] ELSE 0
      BY <1>1 DEF Share
    <2>2. Share(c, k)' = IF c \in V THEN f[c] ELSE 0
      <3>1. Share(c, k)' = IF pc'[c] = "work"
                             THEN Adds(Words(c)', word'[c], k) ELSE 0
        BY DEF Share, Adds
      <3>2. c \in V <=> pc'[c] = "work"
        BY <1>1
      <3> HIDE DEF V
      <3>3. QED
        BY <3>1, <3>2
    <2>3. QED
      BY <2>1, <2>2
  <1>8. IsFiniteSet(U)
    BY FiniteSums DEF Working
  <1> HIDE DEF U, V, e, f
  <1>9. /\ SumFunction(e) \in Int /\ SumFunction(f) \in Int
        /\ SumFunction(f) - (IF c \in V THEN f[c] ELSE 0)
             = SumFunction(e) - (IF c \in U THEN e[c] ELSE 0)
    BY <1>5, <1>6, <1>8, SumFunctionStep
  <1>10. Share(c, k) \in Int /\ Share(c, k)' \in Int
    BY <1>5, <1>7
  <1>11. QED
    BY <1>3, <1>4, <1>7, <1>9, <1>10

\* When nothing is begun, what is due does not change; when work on payload q is
\* begun, it grows by what q adds.
LEMMA DueStep ==
  ASSUME XdpInv, XdpInv', prog' = prog, NEW q \in SeenPayloads,
         \/ seen' = seen
         \/ seen' = [seen EXCEPT ![q] = @ + 1],
         NEW k, k \in SumCells
  PROVE  /\ Due(k) \in Int /\ Due(k)' \in Int /\ Adds(q, 0, k) \in Int
         /\ seen' = seen => Due(k)' = Due(k)
         /\ seen' = [seen EXCEPT ![q] = @ + 1] => Due(k)' = Due(k) + Adds(q, 0, k)
  <1>0. prog \in Programs
    BY DEF XdpInv
  <1> DEFINE A == [p \in SeenPayloads |-> Adds(p, 0, k)]
             e == [p \in SeenPayloads |-> seen[p] * A[p]]
             f == [p \in SeenPayloads |-> seen'[p] * A[p]]
  <1>1. A \in [SeenPayloads -> Int]
    BY <1>0, AddsType, FiniteSums, ZeroType
  <1>2. Due(k) = SumFunction(e)
    <2>1. e = [p \in SeenPayloads |-> seen[p] * Adds(p, 0, k)]
      OBVIOUS
    <2>2. QED
      BY <2>1 DEF Due
  <1>3. Due(k)' = SumFunction(f)
    <2>1. f = [p \in SeenPayloads |-> seen'[p] * Adds(p, 0, k)]
      OBVIOUS
    <2>2. Due(k)' = SumFunction([p \in SeenPayloads |-> seen'[p] * Adds(p, 0, k)])
      BY DEF Due, Adds
    <2>3. QED
      BY <2>1, <2>2
  <1>4. seen \in [SeenPayloads -> Nat] /\ seen' \in [SeenPayloads -> Nat]
    BY DEF XdpInv, CpuInv
  <1>5. A[q] = Adds(q, 0, k)
    OBVIOUS
  <1> HIDE DEF A
  <1>6. e \in [SeenPayloads -> Int] /\ f \in [SeenPayloads -> Int]
    BY <1>1, <1>4
  <1>7. \A p \in SeenPayloads \ {q} : e[p] = f[p]
    BY <1>4
  <1>8. /\ seen' = [seen EXCEPT ![q] = @ + 1] => f[q] = e[q] + A[q]
        /\ seen' = seen => f[q] = e[q]
    <2>1. seen[q] \in Nat /\ A[q] \in Int
      BY <1>1, <1>4
    <2>2. (seen[q] + 1) * A[q] = seen[q] * A[q] + A[q]
      BY <2>1
    <2>3. QED
      BY <1>4, <2>2
  <1> HIDE DEF e, f
  <1>9. /\ SumFunction(e) \in Int /\ SumFunction(f) \in Int
        /\ SumFunction(f) - f[q] = SumFunction(e) - e[q]
    BY <1>6, <1>7, FiniteSums, SumFunctionStep
  <1>10. e[q] \in Int /\ f[q] \in Int /\ A[q] \in Int
    BY <1>1, <1>6
  <1>11. /\ seen' = seen => SumFunction(f) = SumFunction(e)
         /\ seen' = [seen EXCEPT ![q] = @ + 1]
              => SumFunction(f) = SumFunction(e) + A[q]
    BY <1>8, <1>9, <1>10
  <1>12. QED
    BY <1>2, <1>3, <1>5, <1>9, <1>10, <1>11

\* Initially nothing is due, nothing owed, and the memory is cleared.
LEMMA ExactInitial == Init => ExactInv
  <1> SUFFICES ASSUME Init PROVE ExactInv
    OBVIOUS
  <1>0. /\ prog \in Programs /\ filled = 0
        /\ Working = {} /\ \A k : Before(k) = {}
        /\ host = [k \in Cells |-> 0] /\ seen = [p \in SeenPayloads |-> 0]
        /\ hm = {}
    BY DEF Init, Working, Before
  <1>1. SumExact
    <2> SUFFICES ASSUME NEW k \in SumCells
                 PROVE  wrap(host[k] + Owed(k)) = wrap(Due(k))
      BY DEF SumExact
    <2>1. Owed(k) = 0
      <3> DEFINE e == [c \in Working |-> Adds(Words(c), word[c], k)]
      <3>1. DOMAIN e = {}
        BY <1>0
      <3> HIDE DEF e
      <3>2. SumFunctionOnSet(e, {}) = 0
        BY FS_EmptySet, SumFold
      <3>3. QED
        BY <3>1, <3>2 DEF Owed, SumFunction, e, Words
    <2>2. Due(k) = 0
      <3> DEFINE A == [p \in SeenPayloads |-> Adds(p, 0, k)]
                 e == [p \in SeenPayloads |-> seen[p] * A[p]]
      <3>1. Due(k) = SumFunction(e)
        <4>1. e = [p \in SeenPayloads |-> seen[p] * Adds(p, 0, k)]
          OBVIOUS
        <4>2. QED
          BY <4>1 DEF Due
      <3>2. A \in [SeenPayloads -> Int]
        BY <1>0, AddsType, FiniteSums, ZeroType
      <3> HIDE DEF A
      <3>3. DOMAIN e = SeenPayloads /\ \A p \in SeenPayloads : e[p] = 0
        BY <1>0, <3>2
      <3> HIDE DEF e
      <3>4. QED
        BY <3>1, <3>3, FiniteSums, SumZero DEF SumFunction
    <2>3. host[k] = 0
      BY <1>0, AddsType, FiniteSums, ZeroType DEF Payloads
    <2>4. QED
      BY <2>1, <2>2, <2>3
  <1>2. CopyExact /\ ReadExact /\ FillExact
    <2>1. \A k \in WordIndex : host[k] = 0
      BY <1>0 DEF WordIndex, Cells
    <2>2. \A k \in WordIndex : Written(k) = {}
      <3>1. \A k, p : Holders(p, k) = {}
        BY <1>0 DEF Holders
      <3>2. \A k : \A p \in SeenPayloads : ~(seen[p] > Cardinality(Holders(p, k)))
        <4>1. \A p \in SeenPayloads : seen[p] = 0
          BY <1>0
        <4>2. \A k, p : Cardinality(Holders(p, k)) = 0
          BY <3>1, FS_EmptySet
        <4>3. QED
          BY <4>1, <4>2
      <3>3. QED
        BY <3>2, WrittenIff
    <2>3. CopyExact /\ ReadExact
      BY <1>0, <2>1, <2>2 DEF CopyExact, ReadExact
    <2>4. LoaderKeys = {} /\ Stored = {}
      BY <1>0, <2>2 DEF LoaderKeys, Stored
    <2>5. QED
      BY <1>0, <2>3, <2>4 DEF FillExact
  <1>3. CopyInv
    <2>1. \A k, p : Holders(p, k) = {}
      BY <1>0 DEF Holders
    <2>2. \A k, p : Cardinality(Holders(p, k)) = 0
      BY <2>1, FS_EmptySet
    <2>3. \A p \in SeenPayloads : seen[p] = 0
      BY <1>0
    <2>4. QED
      BY <1>0, <2>2, <2>3 DEF CopyInv
  <1>4. QED
    BY <1>1, <1>2, <1>3 DEF ExactInv

\* One more insertion of fill_htable.
LEMMA LoaderFill ==
  ASSUME filled \in Nat, filled' = filled + 1
  PROVE  LoaderKeys' = LoaderKeys \cup {hashmult(filled)}
  <1>1. 0 .. filled' - 1 = (0 .. filled - 1) \cup {filled}
    OBVIOUS
  <1>2. \A n : hashmult(n)' = hashmult(n)
    BY DEF hashmult
  <1>3. QED
    BY <1>1, <1>2 DEF LoaderKeys

\* Steps outside the word loops disturb nothing that HostExact speaks of, and of the
\* hash table only what fill_htable adds.
LEMMA ExactIdle ==
  ASSUME ExactInv, XdpInv, XdpInv', UNCHANGED <<prog, host, seen>>,
         \/ UNCHANGED <<filled, hm>>
         \/ /\ prog.kernel = "filter"
            /\ hm' = hm \cup {hashmult(filled)} /\ filled' = filled + 1,
         \A d \in Cpus :
           /\ pc'[d] = "work" <=> pc[d] = "work"
           /\ pc[d] = "work" => Words(d)' = Words(d) /\ word'[d] = word[d]
  PROVE  ExactInv'
  <1>1. \A k : Before(k)' = Before(k)
    BY DEF Before
  <1>2. Working' = Working /\ SumCells' = SumCells
    BY <1>1 DEF Working, SumCells
  <1>3. \A d \in Working : Words(d)' = Words(d) /\ word'[d] = word[d]
    BY SumTypes
  <1>4. SumExact'
    <2> SUFFICES ASSUME NEW k, k \in SumCells
                 PROVE  Owed(k)' = Owed(k) /\ Due(k)' = Due(k)
      BY <1>2 DEF ExactInv, SumExact
    <2>1. Due(k)' = Due(k)
      BY DEF Due, Adds
    <2>2. Owed(k)' = Owed(k)
      <3> DEFINE e == [d \in Working |-> Adds(Words(d), word[d], k)]
                 f == [d \in Working |-> Adds(Words(d)', word'[d], k)]
      <3>1. Owed(k)' = SumFunction(f)
        BY <1>2 DEF Owed, Adds, Words
      <3>2. f = e
        BY <1>3
      <3>3. QED
        BY <3>1, <3>2 DEF Owed, Words
    <2>3. QED
      BY <2>1, <2>2
  <1>5. \A k, p : Holders(p, k)' = Holders(p, k)
    BY <1>1 DEF Holders, Before
  <1>6. ASSUME NEW k PROVE Written(k)' = Written(k)
    <2>1. \A p : p \in Written(k)' <=> p \in Written(k)
      BY <1>5, WrittenIff, WrittenIffNext
    <2>2. QED
      BY <2>1
  <1>7. CopyExact' /\ ReadExact'
    BY <1>6 DEF ExactInv, CopyExact, ReadExact, Copying
  <1>8. FillExact'
    <2> SUFFICES ASSUME prog.kernel = "filter"
                 PROVE  hm' = LoaderKeys' \cup Stored'
      BY DEF FillExact
    <2>1. Stored' = Stored /\ hm = LoaderKeys \cup Stored
      BY <1>6 DEF Stored, ExactInv, FillExact
    <2>2. CASE UNCHANGED <<filled, hm>>
      <3>1. LoaderKeys' = LoaderKeys
        BY <2>2 DEF LoaderKeys, hashmult
      <3>2. QED
        BY <2>1, <2>2, <3>1
    <2>3. CASE hm' = hm \cup {hashmult(filled)} /\ filled' = filled + 1
      <3>1. filled \in Nat
        BY DEF XdpInv, MapInv, HASH_ENTRIES
      <3>2. LoaderKeys' = LoaderKeys \cup {hashmult(filled)}
        BY <2>3, <3>1, LoaderFill
      <3>3. QED
        BY <2>1, <2>3, <3>2
    <2>4. QED
      BY <2>2, <2>3
  <1>9. CopyInv'
    BY <1>2, <1>3, <1>5 DEF ExactInv, CopyInv, Storing
  <1>10. QED
    BY <1>4, <1>7, <1>8, <1>9 DEF ExactInv

\* Work on a packet begins: what its words add is due and owed.
LEMMA ExactBegin ==
  ASSUME NEW c \in Cpus, XdpInv, XdpInv', ExactInv, begin_packet(c)
  PROVE  ExactInv'
  <1>0. PICK m \in Packets :
          LET miss == prog.kernel = "filter" /\ m.key \notin hm IN
          /\ pkt' = [pkt EXCEPT ![c] = m]
          /\ pc' = [pc EXCEPT ![c] = IF miss THEN "count" ELSE "work"]
          /\ seen' = [seen EXCEPT ![m.payload] = IF miss THEN @ ELSE @ + 1]
    BY DEF begin_packet, Goto
  <1> DEFINE q == m.payload
             miss == prog.kernel = "filter" /\ m.key \notin hm
  <1>1. q \in SeenPayloads /\ q \in Payloads
    BY FiniteSums DEF SeenPayloads
  <1>2. /\ pc \in [Cpus -> PCs] /\ pkt \in [Cpus -> PacketType]
        /\ word \in [Cpus -> WordIndex] /\ CpuOK(c)
        /\ seen \in [SeenPayloads -> Nat] /\ host \in [Cells -> T]
        /\ prog \in Programs
    BY CpuTypes, SumTypes
  <1>3. /\ pkt' = [pkt EXCEPT ![c] = m] /\ Words(c)' = q
        /\ pc[c] = "idle" /\ word' = word /\ word[c] = 0
        /\ UNCHANGED <<prog, host, hm, filled>>
        /\ DataAlone(c)
    <2>1. /\ pkt' = [pkt EXCEPT ![c] = m] /\ pc[c] = "idle" /\ word' = word
          /\ UNCHANGED <<prog, host, hm, filled>>
      BY <1>0 DEF begin_packet, At, mapVars
    <2>2. Words(c)' = q /\ \A d \in Cpus \ {c} : Words(d)' = Words(d)
      BY <1>2, <2>1 DEF Words
    <2>3. \A d \in Cpus \ {c} : pc'[d] = pc[d]
      BY <1>0, <1>2
    <2>4. QED
      BY <1>2, <2>1, <2>2, <2>3 DEF DataAlone, CpuOK
  <1>a. CASE miss
    <2>1. seen' = seen
      BY <1>0, <1>1, <1>2, <1>a
    <2>2. pc'[c] = "count" /\ pc[c] = "idle"
      BY <1>0, <1>2, <1>3, <1>a
    <2>3. \A d \in Cpus :
            /\ pc'[d] = "work" <=> pc[d] = "work"
            /\ pc[d] = "work" => Words(d)' = Words(d) /\ word'[d] = word[d]
      BY <1>3, <2>2 DEF DataAlone
    <2>4. QED
      BY <1>3, <2>1, <2>3, ExactIdle
  <1> SUFFICES ASSUME ~miss PROVE ExactInv'
    BY <1>a
  <1>4. /\ pc'[c] = "work" /\ word'[c] = 0 /\ seen' = [seen EXCEPT ![q] = @ + 1]
    BY <1>0, <1>2, <1>3
  <1> HIDE DEF q, miss
  <1>5. SumExact'
    <2> SUFFICES ASSUME NEW k, k \in SumCells
                 PROVE  wrap(host[k] + Owed(k)') = wrap(Due(k)')
      BY <1>3 DEF SumExact, SumCells
    <2> DEFINE A == Adds(q, 0, k)
    <2>1. /\ Owed(k) \in Int /\ Owed(k)' \in Int
          /\ Owed(k)' - Share(c, k)' = Owed(k) - Share(c, k)
      BY <1>3, OwedStep
    <2>2. Share(c, k) = 0 /\ Share(c, k)' = A
      <3>1. Share(c, k) = 0
        BY <1>3 DEF Share
      <3>2. Share(c, k)' = IF pc'[c] = "work"
                             THEN Adds(Words(c)', word'[c], k) ELSE 0
        BY <1>3 DEF Share, Adds
      <3>3. QED
        BY <1>3, <1>4, <3>1, <3>2
    <2>3. Due(k) \in Int /\ A \in Int /\ Due(k)' = Due(k) + A
      BY <1>1, <1>3, <1>4, DueStep
    <2>4. host[k] \in Int
      <3>1. k \in Cells
        BY <1>1, <1>2, AddsType, ZeroType
      <3>2. QED
        BY <1>2, <3>1 DEF T
    <2> HIDE DEF A
    <2>5. host[k] + Owed(k)' = (host[k] + Owed(k)) + A
      BY <2>1, <2>2, <2>3, <2>4
    <2>6. wrap(host[k] + Owed(k)) = wrap(Due(k))
      BY DEF ExactInv, SumExact
    <2> DEFINE x == host[k] + Owed(k)
               y == Due(k)
    <2>7. wrap(x + A) = wrap(y + A)
      <3>1. x \in Int /\ y \in Int /\ A \in Int /\ wrap(x) = wrap(y)
        BY <2>1, <2>3, <2>4, <2>6
      <3> HIDE DEF x, y
      <3>2. QED
        BY <3>1, WrapSame
    <2>8. QED
      BY <2>3, <2>5, <2>7
  <1>6. ASSUME NEW k \in WordIndex
        PROVE  /\ Holders(q, k)' = Holders(q, k) \cup {c} /\ c \notin Holders(q, k)
               /\ \A p : p # q => Holders(p, k)' = Holders(p, k)
    <2>1. c \notin Before(k) /\ Before(k)' = Before(k) \cup {c}
      <3>1. 0 <= k
        BY DEF WordIndex
      <3>2. QED
        BY <1>3, <1>4, <3>1 DEF Before, DataAlone
    <2>2. \A d \in Before(k) : Words(d)' = Words(d)
      BY <1>3, <2>1 DEF Before, DataAlone
    <2>3. QED
      BY <1>3, <2>1, <2>2 DEF Holders
  <1>7. ASSUME NEW k \in WordIndex, NEW p \in SeenPayloads
        PROVE  /\ Cardinality(Holders(p, k)) \in Nat
               /\ Cardinality(Holders(p, k)') \in Nat
               /\ seen[p] \in Nat /\ seen'[p] \in Nat
               /\ seen'[p] - Cardinality(Holders(p, k)')
                    = seen[p] - Cardinality(Holders(p, k))
    <2>1. IsFiniteSet(Holders(p, k))
      BY FiniteSums, FS_Subset DEF Holders
    <2>2. Cardinality(Holders(p, k)) \in Nat
      BY <2>1, FS_CardinalityType
    <2>3. seen[p] \in Nat /\ seen'[p] = IF p = q THEN seen[p] + 1 ELSE seen[p]
      BY <1>1, <1>2, <1>4
    <2>4. Cardinality(Holders(p, k)')
            = IF p = q THEN Cardinality(Holders(p, k)) + 1
                       ELSE Cardinality(Holders(p, k))
      BY <1>6, <2>1, FS_AddElement
    <2>5. QED
      BY <2>2, <2>3, <2>4
  <1>8. \A k \in WordIndex : Written(k)' = Written(k)
    <2>1. \A k \in WordIndex : \A p \in SeenPayloads :
            seen'[p] > Cardinality(Holders(p, k)') <=> seen[p] > Cardinality(Holders(p, k))
      <3> SUFFICES ASSUME NEW k \in WordIndex, NEW p \in SeenPayloads
                   PROVE  seen'[p] > Cardinality(Holders(p, k)')
                            <=> seen[p] > Cardinality(Holders(p, k))
        OBVIOUS
      <3>1. QED
        BY <1>7
    <2>2. ASSUME NEW k \in WordIndex PROVE Written(k)' = Written(k)
      <3>1. \A p : p \in Written(k)' <=> p \in Written(k)
        BY <2>1, WrittenIff, WrittenIffNext
      <3>2. QED
        BY <3>1
    <2>3. QED
      BY <2>2
  <1>9. CopyExact' /\ ReadExact' /\ FillExact'
    <2>1. CopyExact' /\ ReadExact'
      BY <1>3, <1>8 DEF ExactInv, CopyExact, ReadExact, Copying
    <2>2. Stored' = Stored /\ LoaderKeys' = LoaderKeys
      BY <1>3, <1>8 DEF Stored, LoaderKeys, hashmult
    <2>3. QED
      BY <1>3, <2>1, <2>2 DEF ExactInv, FillExact
  <1>10. /\ Working' = Working \cup {c}
         /\ \A d \in Working : d # c /\ Words(d)' = Words(d)
    BY <1>3, <1>4, SumTypes, SumTypesNext DEF DataAlone
  <1>11. CopyInv'
    <2> SUFFICES ASSUME Storing
                 PROVE  /\ \A d \in Working' : Words(d)' \in SeenPayloads
                        /\ \A k \in WordIndex : \A p \in SeenPayloads :
                             seen'[p] >= Cardinality(Holders(p, k)')
      BY <1>3 DEF CopyInv, Storing
    <2>1. \A d \in Working' : Words(d)' \in SeenPayloads
      BY <1>1, <1>3, <1>10 DEF ExactInv, CopyInv
    <2>2. ASSUME NEW k \in WordIndex, NEW p \in SeenPayloads
          PROVE  seen'[p] >= Cardinality(Holders(p, k)')
      <3>1. seen[p] >= Cardinality(Holders(p, k))
        BY DEF ExactInv, CopyInv
      <3>2. QED
        BY <1>7, <3>1
    <2>3. QED
      BY <2>1, <2>2
  <1>12. QED
    BY <1>5, <1>9, <1>11 DEF ExactInv

\* The end of one iteration of CPU c's word loop, and the last one.
LastWord(c) == word[c] = DATA_NR - 1

WordEffect(c) ==
  /\ pc[c] = "work"
  /\ UNCHANGED <<prog, seen>>
  /\ DataAlone(c)
  /\ LastWord(c) => pc'[c] = "count" /\ word'[c] = word[c]
  /\ ~LastWord(c) => pc'[c] = "work" /\ word'[c] = word[c] + 1

\* Every iteration of a word loop ends so.
LEMMA WordEnds ==
  ASSUME NEW c \in Cpus, NEW kernel, XdpInv, InLoop(c, kernel), EndWord(c),
         \A d \in Cpus \ {c} : Words(d)' = Words(d)
  PROVE  WordEffect(c)
  <1>1. pc \in [Cpus -> PCs] /\ word \in [Cpus -> WordIndex]
    BY CpuTypes
  <1>2. pc[c] = "work" /\ UNCHANGED <<prog, seen>>
    BY DEF InLoop, At, EndWord
  <1>3. CASE LastWord(c)
    <2>1. pc' = [pc EXCEPT ![c] = "count"] /\ word' = word
      BY <1>3 DEF EndWord, WorkDone, Goto, LastWord
    <2>2. QED
      BY <1>1, <1>2, <1>3, <2>1 DEF WordEffect, DataAlone
  <1>4. CASE ~LastWord(c)
    <2>1. pc' = pc /\ word' = [word EXCEPT ![c] = @ + 1]
      BY <1>4 DEF EndWord, LastWord
    <2>2. QED
      BY <1>1, <1>2, <1>4, <2>1 DEF WordEffect, DataAlone
  <1>5. QED
    BY <1>3, <1>4

\* A step that adds d to cell k, and by that owes d less, keeps the sum.
LEMMA CellStep ==
  ASSUME NEW c \in Cpus, XdpInv, XdpInv', SumExact, UNCHANGED <<prog, seen>>,
         DataAlone(c), NEW k, k \in SumCells, NEW d \in Int,
         Share(c, k)' = Share(c, k) - d, host'[k] = wrap(host[k] + d)
  PROVE  wrap(host'[k] + Owed(k)') = wrap(Due(k)')
  <1>1. prog' = prog /\ seen' = seen /\ DataAlone(c) /\ prog \in Programs
    BY SumTypes
  <1>2. /\ Owed(k) \in Int /\ Owed(k)' \in Int
        /\ Share(c, k) \in Int /\ Share(c, k)' \in Int
        /\ Owed(k)' - Share(c, k)' = Owed(k) - Share(c, k)
    BY <1>1, OwedStep
  <1>3. Due(k)' = Due(k)
    BY <1>1 DEF Due, Adds
  <1>4. host[k] \in Int
    <2>1. k \in Cells
      BY <1>1, AddsType, ZeroType
    <2>2. QED
      BY <2>1, SumTypes DEF T
  <1>5. wrap(host[k] + Owed(k)) = wrap(Due(k))
    BY DEF SumExact
  <1> DEFINE h == host[k]
             o == Owed(k)
             n == Owed(k)'
             s == Share(c, k)
             t == Share(c, k)'
  <1>6. /\ h \in Int /\ o \in Int /\ n \in Int /\ s \in Int /\ t \in Int
        /\ t = s - d /\ n - t = o - s
    BY <1>2, <1>4
  <1>7. (h + d) + n = h + o /\ h + d \in Int
    <2> HIDE DEF h, o, n, s, t
    <2> QED
      BY <1>6
  <1>8. wrap(wrap(h + d) + n) = wrap((h + d) + n)
    <2> HIDE DEF h, n
    <2> QED
      BY <1>6, <1>7, WrapAdd
  <1>9. QED
    BY <1>3, <1>5, <1>7, <1>8

\* What CPU c owes to cell k before and after the iteration.
LEMMA ShareOfWord ==
  ASSUME NEW c, WordEffect(c), NEW k
  PROVE  /\ Share(c, k) = Adds(Words(c), word[c], k)
         /\ LastWord(c) => Share(c, k)' = 0
         /\ ~LastWord(c) => Share(c, k)' = Adds(Words(c)', word[c] + 1, k)
  <1>1. Share(c, k) = Adds(Words(c), word[c], k)
    BY DEF Share, WordEffect
  <1>2. Share(c, k)' = IF pc'[c] = "work"
                         THEN Adds(Words(c)', word'[c], k) ELSE 0
    BY DEF Share, Adds, WordEffect
  <1>3. QED
    BY <1>1, <1>2 DEF WordEffect

\* A program that adds to the map only has its sums to keep.
LEMMA SummingOnly ==
  ASSUME prog' = prog, prog.kernel \in {"aggregate", "reduce", "histogram"}, SumExact'
  PROVE  ExactInv'
  BY DEF ExactInv, CopyExact, ReadExact, FillExact, CopyInv, Copying, Storing

\* reduce: word k of the packet goes to cell k.
LEMMA ExactReduce ==
  ASSUME NEW c \in Cpus, XdpInv, XdpInv', ExactInv, reduce_word(c)
  PROVE  ExactInv'
  <1>1. /\ prog.kernel = "reduce" /\ pkt' = pkt
        /\ InLoop(c, "reduce") /\ EndWord(c)
        /\ host' = [host EXCEPT ![word[c]] = wrap(@ + Words(c)[word[c]])]
        /\ \A d \in Cpus : Words(d)' = Words(d)
    BY DEF reduce_word, InLoop, Word, Words
  <1>2. WordEffect(c)
    BY <1>1, WordEnds
  <1>3. /\ host \in [Cells -> T] /\ Words(c) \in Payloads /\ word[c] \in WordIndex
        /\ SumCells = WordIndex
    BY <1>1, SumTypes DEF SumCells
  <1> DEFINE p == Words(c)
             w == word[c]
  <1>4. SumExact'
    <2> SUFFICES ASSUME NEW k, k \in SumCells
                 PROVE  wrap(host'[k] + Owed(k)') = wrap(Due(k)')
      BY <1>2 DEF SumExact, SumCells, WordEffect
    <2>1. p \in Payloads /\ w \in WordIndex /\ k \in WordIndex
      BY <1>3
    <2>2. p[k] \in Int
      BY <2>1 DEF Payloads, T
    <2> DEFINE d == IF k = w THEN p[k] ELSE 0
    <2>3. Share(c, k)' = Share(c, k) - d
      <3>1. \A from : Adds(p, from, k) = IF from <= k THEN p[k] ELSE 0
        BY <1>1 DEF Adds
      <3>2. /\ Share(c, k) = IF w <= k THEN p[k] ELSE 0
            /\ LastWord(c) => Share(c, k)' = 0
            /\ ~LastWord(c) => Share(c, k)' = IF w + 1 <= k THEN p[k] ELSE 0
        BY <1>1, <1>2, <3>1, ShareOfWord
      <3>3. k \in Int /\ w \in Int /\ (LastWord(c) => k <= w)
        BY <2>1 DEF WordIndex, LastWord
      <3> HIDE DEF p, w
      <3>4. QED
        BY <2>2, <3>2, <3>3
    <2>4. host'[k] = wrap(host[k] + d)
      <3>1. k \in Cells /\ host[k] \in T /\ host[k] \in Int
        BY <1>3, <2>1 DEF T, Cells, WordIndex
      <3>2. CASE k = w
        BY <1>1, <1>3, <3>1, <3>2
      <3>3. CASE k # w
        <4>1. host'[k] = host[k] /\ host[k] + d = host[k]
          BY <1>1, <1>3, <3>1, <3>3
        <4>2. QED
          BY <3>1, <4>1, WrapId
      <3>4. QED
        BY <3>2, <3>3
    <2>5. d \in Int
      BY <2>2
    <2> HIDE DEF d
    <2>6. QED
      BY <1>2, <2>3, <2>4, <2>5, CellStep DEF ExactInv, WordEffect
  <1>5. QED
    BY <1>1, <1>2, <1>4, SummingOnly DEF WordEffect

\* What a packet still puts into bin b, before and behind a word that is a valid
\* key, and at a wrong one.
LEMMA CountWords ==
  ASSUME NEW p \in Payloads, NEW w \in WordIndex, NEW b
  PROVE  /\ Binned(p, b, w) \in Nat
         /\ ~WrongKey(p[w]) =>
              Binned(p, b, w + 1) = Binned(p, b, w) - IF p[w] = b THEN 1 ELSE 0
         /\ WrongKey(p[w]) => Binned(p, b, w) = 0
         /\ w = DATA_NR - 1 => Binned(p, b, w + 1) = 0
  <1> DEFINE A == {k \in w .. DATA_NR - 1 :
                     p[k] = b /\ \A j \in w .. k : ~WrongKey(p[j])}
             B == {k \in w + 1 .. DATA_NR - 1 :
                     p[k] = b /\ \A j \in w + 1 .. k : ~WrongKey(p[j])}
  <1>0. w \in Int /\ 0 <= w /\ w < DATA_NR
    BY DEF WordIndex
  <1>1. ~WrongKey(p[w]) => B = A \ {w} /\ (w \in A <=> p[w] = b)
    <2> SUFFICES ASSUME ~WrongKey(p[w])
                 PROVE  B = A \ {w} /\ (w \in A <=> p[w] = b)
      OBVIOUS
    <2>1. ASSUME NEW k \in w + 1 .. DATA_NR - 1
          PROVE  (\A j \in w + 1 .. k : ~WrongKey(p[j])) <=> \A j \in w .. k : ~WrongKey(p[j])
      <3>1. \A j : j \in w .. k <=> j = w \/ j \in w + 1 .. k
        BY <1>0
      <3>2. QED
        BY <3>1
    <2>2. \A k : k \in w .. DATA_NR - 1 <=> k = w \/ k \in w + 1 .. DATA_NR - 1
      BY <1>0
    <2>3. w \notin w + 1 .. DATA_NR - 1
      BY <1>0
    <2>4. \A k : k \in B <=> k \in A \ {w}
      BY <2>1, <2>2, <2>3
    <2>5. w \in A <=> p[w] = b
      <3>1. \A j \in w .. w : j = w
        BY <1>0
      <3>2. QED
        BY <2>2, <3>1
    <2>6. QED
      BY <2>4, <2>5
  <1>2. WrongKey(p[w]) => A = {}
    BY <1>0
  <1>3. IsFiniteSet(A)
    <2>1. A \subseteq WordIndex
      BY DEF WordIndex
    <2> HIDE DEF A
    <2>2. QED
      BY <2>1, FiniteSums, FS_Subset
  <1>4. w = DATA_NR - 1 => B = {}
    BY <1>0
  <1>5. Binned(p, b, w) = Cardinality(A) /\ Binned(p, b, w + 1) = Cardinality(B)
    BY DEF Binned
  <1> HIDE DEF A, B
  <1>6. Cardinality(A) \in Nat
    BY <1>3, FS_CardinalityType
  <1>7. ~WrongKey(p[w]) =>
          Cardinality(B) = IF w \in A THEN Cardinality(A) - 1 ELSE Cardinality(A)
    BY <1>1, <1>3, FS_RemoveElement
  <1>8. Cardinality({}) = 0
    BY FS_EmptySet
  <1>9. ~WrongKey(p[w]) => Cardinality(B) = Cardinality(A) - IF p[w] = b THEN 1 ELSE 0
    BY <1>1, <1>6, <1>7
  <1>10. /\ WrongKey(p[w]) => Cardinality(A) = 0
         /\ w = DATA_NR - 1 => Cardinality(B) = 0
    BY <1>2, <1>4, <1>8
  <1>11. QED
    BY <1>5, <1>6, <1>9, <1>10

\* histogram: each word that is a valid key counts one in the bin it names, if there
\* is such a bin.
LEMMA ExactHistogram ==
  ASSUME NEW c \in Cpus, XdpInv, XdpInv', ExactInv, histogram_word(c)
  PROVE  ExactInv'
  <1> DEFINE p == Words(c)
             w == word[c]
  <1>1. /\ prog.kernel = "histogram" /\ pkt' = pkt
        /\ InLoop(c, "histogram") /\ EndWord(c)
        /\ ~WrongKey(p[w])
        /\ host' = IF p[w] < HISTOG_NR THEN [host EXCEPT ![p[w]] = wrap(@ + 1)] ELSE host
        /\ \A d \in Cpus : Words(d)' = Words(d)
    BY DEF histogram_word, InLoop, Word, Words
  <1>2. WordEffect(c)
    BY <1>1, WordEnds
  <1>3. /\ host \in [Cells -> T] /\ p \in Payloads /\ w \in WordIndex
        /\ SumCells = 0 .. HISTOG_NR - 1 /\ prog \in Programs
    BY <1>1, SumTypes DEF SumCells
  <1>4. SumExact'
    <2> SUFFICES ASSUME NEW k, k \in SumCells
                 PROVE  wrap(host'[k] + Owed(k)') = wrap(Due(k)')
      BY <1>2 DEF SumExact, SumCells, WordEffect
    <2>1. k \in Cells
      BY <1>3, AddsType
    <2> DEFINE d == IF p[w] = k THEN 1 ELSE 0
    <2>2. Share(c, k)' = Share(c, k) - d
      <3>1. \A from : Adds(p, from, k) = Binned(p, k, from)
        BY <1>1 DEF Adds
      <3>2. /\ Share(c, k) = Binned(p, k, w)
            /\ LastWord(c) => Share(c, k)' = 0
            /\ ~LastWord(c) => Share(c, k)' = Binned(p, k, w + 1)
        BY <1>1, <1>2, <3>1, ShareOfWord
      <3>3. /\ Binned(p, k, w + 1) = Binned(p, k, w) - d
            /\ w = DATA_NR - 1 => Binned(p, k, w + 1) = 0
        <4> HIDE DEF p, w
        <4> QED
          BY <1>1, <1>3, CountWords
      <3>4. LastWord(c) => w = DATA_NR - 1
        BY DEF LastWord
      <3>5. QED
        <4> HIDE DEF p, w, d
        <4> QED
          BY <3>2, <3>3, <3>4
    <2>3. host'[k] = wrap(host[k] + d)
      <3>1. host[k] \in T /\ host[k] \in Int
        BY <1>3, <2>1 DEF T
      <3>2. CASE k = p[w]
        <4>1. p[w] < HISTOG_NR
          BY <1>3, <3>2
        <4>2. QED
          BY <1>1, <1>3, <2>1, <3>1, <3>2, <4>1
      <3>3. CASE k # p[w]
        <4>1. host'[k] = host[k] /\ host[k] + d = host[k]
          BY <1>1, <1>3, <2>1, <3>1, <3>3
        <4>2. QED
          BY <3>1, <4>1, WrapId
      <3>4. QED
        BY <3>2, <3>3
    <2>4. d \in Int
      OBVIOUS
    <2> HIDE DEF d
    <2>5. QED
      BY <1>2, <2>2, <2>3, <2>4, CellStep DEF ExactInv, WordEffect
  <1>5. QED
    BY <1>1, <1>2, <1>4, SummingOnly DEF WordEffect

\* histogram: at a wrong key the packet is given up; it owed nothing any more.
LEMMA ExactGiveUp ==
  ASSUME NEW c \in Cpus, XdpInv, XdpInv', ExactInv, histogram_pass(c)
  PROVE  ExactInv'
  <1> DEFINE p == Words(c)
             w == word[c]
  <1>1. /\ prog.kernel = "histogram" /\ pc[c] = "work" /\ WrongKey(p[w])
        /\ UNCHANGED <<prog, seen, host>>
        /\ pc' = [pc EXCEPT ![c] = "idle"] /\ pkt' = [pkt EXCEPT ![c] = NoPacket]
        /\ word' = [word EXCEPT ![c] = 0]
    BY DEF histogram_pass, InLoop, At, Return, Goto, Word, Words, mapVars, histVars
  <1>2. pc'[c] = "idle" /\ DataAlone(c)
    <2>1. \A d \in Cpus \ {c} : Words(d)' = Words(d)
      BY <1>1, CpuTypes DEF Words
    <2>2. QED
      BY <1>1, <2>1, CpuTypes DEF DataAlone
  <1>3. /\ host \in [Cells -> T] /\ p \in Payloads /\ w \in WordIndex
        /\ prog \in Programs
    BY SumTypes
  <1>4. SumExact'
    <2> SUFFICES ASSUME NEW k, k \in SumCells
                 PROVE  wrap(host'[k] + Owed(k)') = wrap(Due(k)')
      BY <1>1 DEF SumExact, SumCells
    <2>1. Share(c, k) = 0
      <3>1. Share(c, k) = Binned(p, k, w)
        BY <1>1 DEF Share, Adds
      <3> HIDE DEF p, w
      <3>2. QED
        BY <1>1, <1>3, <3>1, CountWords
    <2>2. Share(c, k)' = 0
      BY <1>2 DEF Share
    <2> DEFINE d == 0
    <2>3. host'[k] = wrap(host[k] + d)
      <3>1. host[k] \in T /\ host[k] \in Int
        BY <1>3, AddsType DEF T
      <3>2. host[k] + d = host[k] /\ host'[k] = host[k]
        BY <1>1, <3>1
      <3>3. QED
        BY <3>1, <3>2, WrapId
    <2>4. d \in Int /\ Share(c, k)' = Share(c, k) - d
      BY <2>1, <2>2
    <2> HIDE DEF d
    <2>5. QED
      BY <1>1, <1>2, <2>3, <2>4, CellStep DEF ExactInv
  <1>5. QED
    BY <1>1, <1>4, SummingOnly

\* aggregate: the sum of the words goes to cell 0.
LEMMA ExactAggregate ==
  ASSUME NEW c \in Cpus, XdpInv, XdpInv', ExactInv, aggregate_packet(c)
  PROVE  ExactInv'
  <1> DEFINE p == Words(c)
             S == WordSum(p)
  <1>1. /\ prog.kernel = "aggregate" /\ pc[c] = "work"
        /\ UNCHANGED <<prog, seen, pkt, word>>
        /\ pc' = [pc EXCEPT ![c] = "count"]
        /\ host' = [host EXCEPT ![0] = wrap(@ + S)]
    BY DEF aggregate_packet, InLoop, At, WorkDone, Goto, Words
  <1>2. pc'[c] = "count" /\ DataAlone(c)
    BY <1>1, CpuTypes DEF DataAlone, Words
  <1>3. /\ host \in [Cells -> T] /\ p \in Payloads /\ prog \in Programs
        /\ SumCells = {0}
    BY <1>1, SumTypes DEF SumCells
  <1>4. S \in Int
    <2> HIDE DEF p
    <2>1. \A k \in WordIndex : p[k] \in Int
      BY <1>3 DEF Payloads, T
    <2>2. QED
      BY <2>1, FiniteSums, SumType DEF WordSum
  <1>5. SumExact'
    <2> SUFFICES ASSUME NEW k, k \in SumCells
                 PROVE  wrap(host'[k] + Owed(k)') = wrap(Due(k)')
      BY <1>1 DEF SumExact, SumCells
    <2>1. Share(c, k) = S /\ Share(c, k)' = 0
      <3>1. Share(c, k) = S
        BY <1>1 DEF Share, Adds
      <3>2. Share(c, k)' = 0
        BY <1>2 DEF Share
      <3>3. QED
        BY <3>1, <3>2
    <2>2. host'[k] = wrap(host[k] + S)
      <3>1. k = 0 /\ 0 \in Cells
        BY <1>3 DEF Cells
      <3> HIDE DEF S
      <3>2. QED
        BY <1>1, <1>3, <3>1
    <2> HIDE DEF S
    <2>3. Share(c, k)' = Share(c, k) - S
      BY <1>4, <2>1
    <2>4. QED
      BY <1>1, <1>2, <1>4, <2>2, <2>3, CellStep DEF ExactInv
  <1>6. QED
    BY <1>1, <1>5, SummingOnly

\* The programs that store the words one by one: with each iteration the words k of
\* the packet at hand have been written, and nothing else changes.
LEMMA WordStored ==
  ASSUME NEW c \in Cpus, XdpInv, XdpInv', ExactInv, Storing, WordEffect(c),
         \A d \in Cpus : Words(d)' = Words(d)
  PROVE  /\ \A k \in WordIndex : /\ k # word[c] => Written(k)' = Written(k)
                                 /\ k = word[c] => Words(c) \in Written(k)'
         /\ CopyInv'
  <1> DEFINE p == Words(c)
             w == word[c]
  <1>1. Storing /\ \A d \in Cpus : Words(d)' = Words(d)
    OBVIOUS
  <1>2. WordEffect(c)
    OBVIOUS
  <1>3. /\ w \in WordIndex /\ seen \in [SeenPayloads -> Nat]
        /\ prog' = prog /\ seen' = seen
    BY <1>2, SumTypes, CpuTypes DEF WordEffect
  <1>4. c \in Working /\ Working' \subseteq Working
    <2>1. \A d \in Cpus : pc'[d] = "work" => pc[d] = "work"
      BY <1>2 DEF WordEffect, DataAlone
    <2>2. QED
      BY <1>2, <2>1, SumTypes, SumTypesNext DEF WordEffect
  <1>5. p \in SeenPayloads
    BY <1>1, <1>4 DEF ExactInv, CopyInv
  <1>6. ASSUME NEW k \in WordIndex, NEW q
        PROVE  /\ k # w => Holders(q, k)' = Holders(q, k)
               /\ k = w => Holders(q, k)' = Holders(q, k) \ {c}
    <2>1. /\ k # w => Before(k)' = Before(k)
          /\ k = w => Before(k)' = Before(k) \ {c}
      <3>0. k \in Int /\ w \in Int /\ (LastWord(c) => k <= w)
        BY <1>3 DEF WordIndex, LastWord
      <3>1. \A d \in Cpus \ {c} : pc'[d] = pc[d] /\ word'[d] = word[d]
        BY <1>2 DEF WordEffect, DataAlone
      <3>2. /\ LastWord(c) => pc'[c] = "count"
            /\ ~LastWord(c) => pc'[c] = "work" /\ word'[c] = w + 1
            /\ pc[c] = "work"
        BY <1>2 DEF WordEffect
      <3>3. ASSUME k # w PROVE Before(k)' = Before(k)
        <4>1. (pc'[c] = "work" /\ word'[c] <= k) <=> (pc[c] = "work" /\ w <= k)
          BY <3>0, <3>2, <3>3
        <4>2. QED
          BY <3>1, <4>1 DEF Before
      <3>4. ASSUME k = w PROVE Before(k)' = Before(k) \ {c}
        <4>1. ~(pc'[c] = "work" /\ word'[c] <= k)
          BY <3>0, <3>2, <3>4
        <4>2. \A d : d \in Before(k)' <=> d \in Before(k) \ {c}
          BY <3>1, <4>1 DEF Before
        <4>3. QED
          BY <4>2
      <3>5. QED
        BY <3>3, <3>4
    <2>2. QED
      BY <1>1, <2>1 DEF Holders, Before
  <1>7. ASSUME NEW k \in WordIndex, NEW q
        PROVE  /\ Cardinality(Holders(q, k)) \in Nat /\ Cardinality(Holders(q, k)') \in Nat
               /\ Cardinality(Holders(q, k)') <= Cardinality(Holders(q, k))
               /\ k = w /\ q = p => Cardinality(Holders(q, k)') < Cardinality(Holders(q, k))
    <2>1. IsFiniteSet(Holders(q, k))
      BY FiniteSums, FS_Subset DEF Holders
    <2>2. Cardinality(Holders(q, k)) \in Nat
      BY <2>1, FS_CardinalityType
    <2>3. CASE k # w
      BY <1>6, <2>2, <2>3
    <2>4. CASE k = w
      <3>1. Holders(q, k)' = Holders(q, k) \ {c}
        BY <1>6, <2>4
      <3>2. Cardinality(Holders(q, k)') = IF c \in Holders(q, k)
              THEN Cardinality(Holders(q, k)) - 1 ELSE Cardinality(Holders(q, k))
        BY <2>1, <3>1, FS_RemoveElement
      <3>3. IsFiniteSet(Holders(q, k)')
        BY <2>1, <3>1, FS_RemoveElement
      <3>4. Cardinality(Holders(q, k)') \in Nat
        BY <3>3, FS_CardinalityType
      <3>5. q = p => c \in Holders(q, k)
        BY <1>2, <1>3, <2>4 DEF Holders, Before, WordEffect, WordIndex
      <3>6. QED
        BY <2>2, <3>2, <3>4, <3>5
    <2>5. QED
      BY <2>3, <2>4
  <1>8. ASSUME NEW k \in WordIndex, k # w PROVE Written(k)' = Written(k)
    <2>1. \A q : q \in Written(k)' <=> q \in Written(k)
      BY <1>3, <1>6, <1>8, WrittenIff, WrittenIffNext
    <2>2. QED
      BY <2>1
  <1>9. ASSUME NEW k \in WordIndex, k = w PROVE p \in Written(k)'
    <2> SUFFICES ASSUME NEW q \in SeenPayloads, q = p
                 PROVE  q \in Written(k)'
      BY <1>5
    <2>1. seen[q] \in Nat /\ seen[q] >= Cardinality(Holders(q, k))
      BY <1>1, <1>3 DEF ExactInv, CopyInv
    <2>2. seen[q] > Cardinality(Holders(q, k)')
      BY <1>7, <1>9, <2>1
    <2>3. QED
      BY <1>3, <2>2, WrittenIffNext
  <1>10. CopyInv'
    <2>1. \A d \in Working' : Words(d)' \in SeenPayloads
      BY <1>1, <1>4, SumTypesNext DEF ExactInv, CopyInv
    <2>2. ASSUME NEW k \in WordIndex, NEW q \in SeenPayloads
          PROVE  seen'[q] >= Cardinality(Holders(q, k)')
      <3>1. seen[q] \in Nat /\ seen[q] >= Cardinality(Holders(q, k))
        BY <1>1, <1>3 DEF ExactInv, CopyInv
      <3>2. QED
        BY <1>3, <1>7, <3>1
    <2>3. QED
      BY <2>1, <2>2 DEF CopyInv
  <1>11. QED
    BY <1>8, <1>9, <1>10

\* copy_to_host: word k of the packet is written to cell k.
LEMMA ExactCopy ==
  ASSUME NEW c \in Cpus, XdpInv, XdpInv', ExactInv, copy_to_host_word(c)
  PROVE  ExactInv'
  <1> DEFINE p == Words(c)
             w == word[c]
  <1>1. /\ Copying /\ Storing /\ EndWord(c) /\ InLoop(c, prog.kernel)
        /\ host' = [host EXCEPT ![w] = p[w]]
        /\ \A d \in Cpus : Words(d)' = Words(d)
    BY DEF copy_to_host_word, InLoop, Copying, Storing, Word, Words
  <1>2. WordEffect(c)
    BY <1>1, WordEnds
  <1>3. /\ host \in [Cells -> T] /\ w \in WordIndex /\ w \in Cells /\ prog' = prog
    BY <1>2, SumTypes DEF WordEffect, Cells, WordIndex
  <1>4. /\ \A k \in WordIndex : /\ k # w => Written(k)' = Written(k)
                                /\ k = w => p \in Written(k)'
        /\ CopyInv'
    BY <1>1, <1>2, WordStored
  <1>5. CopyExact'
    <2> SUFFICES ASSUME NEW k \in WordIndex
                 PROVE  IF Written(k)' = {} THEN host'[k] = 0
                          ELSE host'[k] \in {q[k] : q \in Written(k)'}
      BY DEF CopyExact
    <2>1. CASE k # w
      <3>1. Written(k)' = Written(k) /\ host'[k] = host[k]
        BY <1>1, <1>3, <1>4, <2>1
      <3>2. QED
        BY <1>1, <3>1 DEF ExactInv, CopyExact
    <2>2. CASE k = w
      <3>1. p \in Written(k)' /\ host'[k] = p[k]
        BY <1>1, <1>3, <1>4, <2>2
      <3>2. QED
        BY <3>1
    <2>3. QED
      BY <2>1, <2>2
  <1>6. SumExact' /\ ReadExact' /\ FillExact'
    BY <1>1, <1>3 DEF SumExact, SumCells, ReadExact, FillExact, Copying
  <1>7. QED
    BY <1>4, <1>5, <1>6 DEF ExactInv

\* filter: the index of the word goes into the hash table.
LEMMA ExactFilter ==
  ASSUME NEW c \in Cpus, XdpInv, XdpInv', ExactInv, filter_word(c)
  PROVE  ExactInv'
  <1> DEFINE w == word[c]
  <1>1. /\ prog.kernel = "filter" /\ Storing /\ EndWord(c) /\ InLoop(c, prog.kernel)
        /\ hm' = hm \cup {w} /\ filled' = filled
        /\ \A d \in Cpus : Words(d)' = Words(d)
    BY DEF filter_word, InLoop, EndWord, Storing, Words
  <1>2. WordEffect(c)
    BY <1>1, WordEnds
  <1>3. w \in WordIndex /\ prog' = prog
    BY <1>2, SumTypes DEF WordEffect
  <1>4. /\ \A k \in WordIndex : /\ k # w => Written(k)' = Written(k)
                                /\ k = w => Words(c) \in Written(k)'
        /\ CopyInv'
    BY <1>1, <1>2, WordStored
  <1>5. FillExact'
    <2>1. Stored' = Stored \cup {w}
      <3>1. ASSUME NEW k \in WordIndex
            PROVE  Written(k)' # {} <=> Written(k) # {} \/ k = w
        <4>1. CASE k = w
          BY <1>4, <4>1
        <4>2. CASE k # w
          BY <1>4, <4>2
        <4>3. QED
          BY <4>1, <4>2
      <3>2. QED
        BY <1>3, <3>1 DEF Stored
    <2>2. LoaderKeys' = LoaderKeys
      BY <1>1 DEF LoaderKeys, hashmult
    <2>3. hm = LoaderKeys \cup Stored
      BY <1>1 DEF ExactInv, FillExact
    <2>4. QED
      BY <1>1, <2>1, <2>2, <2>3 DEF FillExact
  <1>6. SumExact' /\ CopyExact' /\ ReadExact'
    BY <1>1, <1>3 DEF SumExact, SumCells, CopyExact, ReadExact, Copying
  <1>7. QED
    BY <1>4, <1>5, <1>6 DEF ExactInv

\* copy_from_host reads the map: host stays as it is.
LEMMA ExactRead ==
  ASSUME NEW c \in Cpus, ExactInv, copy_from_host_word(c)
  PROVE  ExactInv'
  <1>1. prog.kernel = "copy_from_host" /\ UNCHANGED <<prog, host, filled>>
    BY DEF copy_from_host_word, InLoop, EndWord
  <1>2. SumCells' = {}
    BY <1>1 DEF SumCells
  <1>3. QED
    BY <1>1, <1>2 DEF ExactInv, SumExact, CopyExact, ReadExact, FillExact, CopyInv, Copying,
                         Storing

\* copy_from_host's loader writes a 1 into the first cell.
LEMMA ExactInitMap ==
  ASSUME XdpInv, ExactInv, init_map
  PROVE  ExactInv'
  <1>1. /\ prog.kernel = "copy_from_host" /\ prog' = prog /\ filled' = 1
        /\ host' = [host EXCEPT ![0] = 1]
    BY DEF init_map, kernelVars
  <1>2. SumCells' = {}
    BY <1>1 DEF SumCells
  <1>3. \A k \in WordIndex : host'[k] = IF k = 0 THEN filled' ELSE 0
    <2>1. /\ host \in [Cells -> T] /\ 0 \in Cells /\ WordIndex \subseteq Cells
          /\ \A k \in WordIndex : host[k] = IF k = 0 THEN filled ELSE 0
      BY <1>1, SumTypes DEF Cells, WordIndex, ExactInv, ReadExact
    <2>2. QED
      BY <1>1, <2>1
  <1>4. QED
    BY <1>1, <1>2, <1>3 DEF ExactInv, SumExact, CopyExact, ReadExact, FillExact, CopyInv, Copying,
                         Storing

\* The loader's other steps, and the packets no map is touched for.
LEMMA OutsideSteps ==
  ASSUME XdpInv, XdpInv', ExactInv,
         \/ Attach \/ Bind \/ Listen \/ fill_htable \/ poll_stats \/ LoaderExit
         \/ \E c \in Cpus : pass_packet(c) \/ stamp_packet(c)
         \/ UNCHANGED vars
  PROVE  ExactInv'
  <1>1. /\ UNCHANGED <<prog, host, seen, pc, pkt, word>>
        /\ \/ UNCHANGED <<filled, hm>>
           \/ /\ prog.kernel = "filter"
              /\ hm' = hm \cup {hashmult(filled)} /\ filled' = filled + 1
    BY DEF Attach, Bind, Listen, fill_htable, poll_stats, LoaderExit, pass_packet,
           stamp_packet, kernelVars, mapVars, cpuVars, histVars, vars
  <1>2. \A d \in Cpus : Words(d)' = Words(d)
    BY <1>1 DEF Words
  <1>3. QED
    BY <1>1, <1>2, ExactIdle

\* Counting the packet and its verdict come after the word loop.
LEMMA VerdictSteps ==
  ASSUME XdpInv, XdpInv', ExactInv, NEW c \in Cpus,
         count_packet(c) \/ answer(c) \/ no_answer(c)
  PROVE  ExactInv'
  <1>1. /\ UNCHANGED <<prog, host, seen, hm, filled>> /\ pc[c] # "work"
        /\ pc' = [pc EXCEPT ![c] = "check"] \/ pc' = [pc EXCEPT ![c] = "idle"]
        /\ pkt' = pkt \/ pkt' = [pkt EXCEPT ![c] = NoPacket]
        /\ word' = word \/ word' = [word EXCEPT ![c] = 0]
    BY DEF count_packet, answer, no_answer, At, Goto, Return, mapVars, histVars
  <1>2. \A d \in Cpus \ {c} : Words(d)' = Words(d) /\ word'[d] = word[d]
    BY <1>1, CpuTypes DEF Words
  <1>3. \A d \in Cpus : pc'[d] = "work" <=> pc[d] = "work"
    BY <1>1, CpuTypes
  <1>4. QED
    BY <1>1, <1>2, <1>3, ExactIdle

\* Every step keeps the maps in agreement with the packets worked on.
LEMMA ExactStep == XdpInv /\ XdpInv' /\ ExactInv /\ [Next]_vars => ExactInv'
  <1> SUFFICES ASSUME XdpInv, XdpInv', ExactInv, [Next]_vars
               PROVE  ExactInv'
    OBVIOUS
  <1>1. CASE Loader
    BY <1>1, OutsideSteps, ExactInitMap DEF Loader
  <1>2. CASE LoaderExit \/ UNCHANGED vars
    BY <1>2, OutsideSteps
  <1>3. ASSUME NEW c \in Cpus, Receive(c) PROVE ExactInv'
    BY <1>3, OutsideSteps, ExactBegin DEF Receive
  <1>4. ASSUME NEW c \in Cpus, Handle(c) PROVE ExactInv'
    <2>1. CASE Work(c)
      BY <2>1, ExactAggregate, ExactReduce, ExactHistogram, ExactGiveUp, ExactCopy,
         ExactFilter, ExactRead DEF Work
    <2>2. QED
      BY <1>4, <2>1, VerdictSteps DEF Handle
  <1>5. QED
    BY <1>1, <1>2, <1>3, <1>4 DEF Next, Waiting

\* The addresses that match in filter are the ones the loader has inserted so far and
\* the indices under which words of matched packets were stored; once the table is
\* filled completely they are the loader's alone, as a payload has no more than 256
\* words.
THEOREM TableCorrect == Spec => []TableExact
  <1>1. XdpInv /\ ExactInv => TableExact
    <2> SUFFICES ASSUME XdpInv, ExactInv, prog.kernel = "filter"
                 PROVE  /\ hm = LoaderKeys \cup Stored
                        /\ filled = HASH_ENTRIES => hm = LoaderKeys
      BY DEF TableExact
    <2>1. hm = LoaderKeys \cup Stored
      BY DEF ExactInv, FillExact
    <2>2. filled = HASH_ENTRIES => Stored \subseteq LoaderKeys
      BY HashWord DEF Stored, LoaderKeys, HashKeys
    <2>3. QED
      BY <2>1, <2>2
  <1>2. QED
    BY <1>1, XdpInvariance, ExactInitial, ExactStep, PTL DEF Spec

\* However the CPUs' programs interleave, the maps hold what the packets worked on
\* so far add up to, no __sync_fetch_and_add lost and none made twice: for any
\* number of CPUs, any payloads, any sizes of the maps and any word size.
THEOREM HostCorrect == Spec => []HostExact
  <1>1. XdpInv /\ ExactInv => HostExact
    BY ExactParts DEF ExactInv, XdpInv
  <1>2. QED
    BY <1>1, XdpInvariance, ExactInitial, ExactStep, PTL DEF Spec
===============================================================================
