--------------------------- MODULE DpdkCountedProofs ---------------------------
(***************************************************************************)
(* Proofs about DpdkCounted, for any set of lcores, any number of ports,    *)
(* any burst size, any packets and words of any width.  CountedInv is       *)
(* inductive: the types, the log's invariant, the burst of each lcore, and  *)
(* the conservation of log lines.                                           *)
(***************************************************************************)
EXTENDS DpdkCounted, SumTheorems

-------------------------------------------------------------------------------
(* The latency log: its invariant is inductive for every action of calc_latency. *)

\* Before the first call nobody holds the lock and no FILE is open.
LEMMA LogInitial == LogInit => LogInv
  BY LcoreAssumption
     DEF LogInit, LogInv, LogTypeOK, LogHandleOwned, Stages

\* Steps that do not touch the log keep its invariant.
LEMMA LogUnchanged == LogInv /\ UNCHANGED logVars => LogInv'
  BY DEF logVars, LogInv, LogTypeOK, LogHandleOwned

\* Taking the lock: it was free, so nobody else is inside calc_latency.
LEMMA LogLock ==
  ASSUME NEW l \in Lcores, LogInv, write_lock(l)
  PROVE  LogInv'
  <1> USE LcoreAssumption DEF LogInv, LogTypeOK, Stages, write_lock
  <1>1. LogTypeOK'
    OBVIOUS
  <1>2. \A k \in Lcores : (stage[k] # "out" <=> rwl = k)'
    OBVIOUS
  <1>3. LogHandleOwned' /\ (opened # {} => \E k \in Lcores : stage[k] = "fprintf")'
    BY DEF LogHandleOwned
  <1>4. QED
    BY <1>1, <1>2, <1>3

\* Opening the file: wfptr is overwritten, but no other lcore is printing.
LEMMA LogOpen ==
  ASSUME NEW l \in Lcores, LogInv, open_log(l)
  PROVE  LogInv'
  <1> USE LcoreAssumption DEF LogInv, LogTypeOK, Stages, open_log
  <1>1. LogTypeOK'
    OBVIOUS
  <1>2. \A k \in Lcores : (stage[k] # "out" <=> rwl = k)'
    OBVIOUS
  <1>3. \A k \in Lcores : stage[k] # "fprintf"
    BY DEF LogHandleOwned
  <1>4. opened = {}
    BY <1>3
  <1>5. LogHandleOwned' /\ (opened # {} => \E k \in Lcores : stage[k] = "fprintf")'
    BY <1>3, <1>4 DEF LogHandleOwned
  <1>6. QED
    BY <1>1, <1>2, <1>5

\* Printing and closing: wfptr is the lcore's own FILE, the only open one.
LEMMA LogPrint ==
  ASSUME NEW l \in Lcores, NEW n \in Nat, LogInv, print_lines(l, n)
  PROVE  LogInv' /\ lines' = [lines EXCEPT ![l] = @ + n]
  <1> USE LcoreAssumption DEF LogInv, LogTypeOK, Stages, print_lines
  <1>1. wfptr = l /\ opened = {l}
    BY DEF LogHandleOwned
  <1>2. LogTypeOK'
    BY <1>1
  <1>3. \A k \in Lcores : (stage[k] # "out" <=> rwl = k)'
    OBVIOUS
  <1>4. opened' = {}
    BY <1>1
  <1>5. \A k \in Lcores : stage[k]' # "fprintf"
    BY <1>3
  <1>6. LogHandleOwned' /\ (opened # {} => \E k \in Lcores : stage[k] = "fprintf")'
    BY <1>4, <1>5 DEF LogHandleOwned
  <1>7. QED
    BY <1>1, <1>2, <1>3, <1>6

\* Releasing the lock: the holder leaves calc_latency.
LEMMA LogUnlock ==
  ASSUME NEW l \in Lcores, LogInv, write_unlock(l)
  PROVE  LogInv'
  <1> USE LcoreAssumption DEF LogInv, LogTypeOK, Stages, write_unlock
  <1>1. LogTypeOK'
    OBVIOUS
  <1>2. \A k \in Lcores : (stage[k] # "out" <=> rwl = k)'
    OBVIOUS
  <1>3. \A k \in Lcores : stage[k] # "fprintf"
    OBVIOUS
  <1>4. LogHandleOwned' /\ (opened # {} => \E k \in Lcores : stage[k] = "fprintf")'
    BY <1>3 DEF LogHandleOwned
  <1>5. QED
    BY <1>1, <1>2, <1>4

-------------------------------------------------------------------------------
(* The inductive invariant.                                                  *)

\* How the locals of lcore_main relate: the packets counted and the packets left
\* never exceed the burst, and only a timed program enters calc_latency.
LoopOK(l) ==
  /\ pc[l] \in {"gate", "work"} => nb_mng_rx[l] + left[l] <= BURST_SIZE
  /\ pc[l] = "work" => left[l] > 0
  /\ pc[l] # "latency" => stage[l] = "out"
  /\ pc[l] = "latency" => prog.timed

LoopInv == \A l \in Lcores : LoopOK(l)

\* The inductive invariant of the counting programs.
CountedInv == TypeOK /\ LogInv /\ LoopInv /\ LogConserved

\* The last field of a record of four.
LEMMA LastField ==
  ASSUME NEW B, NEW N, NEW P,
         NEW p \in [ipv4 : B, dgram_len : N, filtered : B, payload : P]
  PROVE  p.payload \in P
  OBVIOUS

\* The words of a packet are a payload.
LEMMA PacketPayload == \A p \in PacketType : p.payload \in Payloads
  <1> DEFINE B == BOOLEAN
             N == 0 .. 65535
  <1>1. PacketType = [ipv4 : B, dgram_len : N, filtered : B, payload : Payloads]
    BY DEF PacketType
  <1> HIDE DEF B, N
  <1>2. QED
    BY <1>1, LastField

USE CountedAssumption, LcoreAssumption

-------------------------------------------------------------------------------
(* The operators of the model.                                               *)

\* Two's complement arithmetic gives a value of the type T.
LEMMA WrapType == \A x \in Int : wrap(x) \in T
  BY DEF wrap, T

\* A value that wraps around before an addition might as well not.
LEMMA WrapAdd ==
  ASSUME NEW x \in Int, NEW y \in Int
  PROVE  wrap(wrap(x) + y) = wrap(x + y)
  <1> DEFINE M == 2 * INT_HALF
             a == x + INT_HALF
  <1>1. M \in Nat \ {0} /\ a \in Int /\ a % M \in Int
    OBVIOUS
  <1>2. ((a % M) + y) % M = (a + y) % M
    <2> HIDE DEF M, a
    <2> QED
      BY <1>1, ModAdd
  <1>3. (wrap(x) + y) + INT_HALF = (a % M) + y
    <2> HIDE DEF M
    <2> QED
      BY <1>1 DEF wrap, M
  <1>4. (x + y) + INT_HALF = a + y
    OBVIOUS
  <1>5. QED
    BY <1>2, <1>3, <1>4 DEF wrap

\* Values that wrap around to the same one do so after an addition, too.
LEMMA WrapSame ==
  ASSUME NEW x \in Int, NEW y \in Int, NEW z \in Int, wrap(x) = wrap(y)
  PROVE  wrap(x + z) = wrap(y + z)
  <1>1. wrap(wrap(x) + z) = wrap(x + z)
    BY WrapAdd
  <1>2. wrap(wrap(y) + z) = wrap(y + z)
    BY WrapAdd
  <1>3. QED
    BY <1>1, <1>2

\* A value of type T does not wrap around.
LEMMA WrapId == \A x \in T : wrap(x) = x
  BY DEF wrap, T

\* Every index of the word loop is a cell, and so is every key that passes
\* histogram's range check, except the one just behind the array.
LEMMA CellsOfHost ==
  /\ WordIndex \subseteq Cells
  /\ 0 .. HISTOG_NR - 1 \subseteq Cells
  /\ \A key \in T : ~WrongKey(key) => key \in 0 .. HISTOG_NR - 1 \/ key = HISTOG_NR
  BY DEF WordIndex, Cells, WrongKey, T

\* The locals' initial values have their types.
LEMMA ZeroType == 0 \in T /\ 0 \in WordIndex /\ NoPayload \in Payloads
  BY DEF T, WordIndex, NoPayload, Payloads

-------------------------------------------------------------------------------
(* A step of lcore l leaves the other lcores alone.                          *)

LineOK(l) == lines[l] = IF prog.timed THEN processed[l] - Unlogged(l) ELSE 0

\* The part of the types and of the invariants that the steps of the loops, as
\* opposed to the work on a packet, can disturb.
LoopTypes ==
  /\ pc \in [Lcores -> PCs]
  /\ port \in [Lcores -> 1 .. NbPorts]
  /\ left \in [Lcores -> 0 .. BURST_SIZE]
  /\ word \in [Lcores -> WordIndex]
  /\ nb_mng_rx \in [Lcores -> 0 .. BURST_SIZE]
  /\ processed \in [Lcores -> Nat]

DataTypes ==
  /\ payload \in [Lcores -> Payloads]
  /\ res \in [Lcores -> T]
  /\ host \in [Cells -> T]
  /\ pkt_rec \in T
  /\ rx \in 0 .. MaxRx
  /\ seen \in [SeenPayloads -> Nat]

\* The types are those of the loops, of the data and of the log.
LEMMA TypeParts ==
  TypeOK <=> /\ prog \in Programs /\ status \in Statuses \cup {"undefined"}
             /\ force_quit \in BOOLEAN
             /\ LoopTypes /\ DataTypes /\ LogTypeOK
  BY DEF TypeOK, LoopTypes, DataTypes

\* What the other lcores' invariants depend on.
OthersSame(l) ==
  \A k \in Lcores \ {l} :
    /\ pc'[k] = pc[k] /\ nb_mng_rx'[k] = nb_mng_rx[k] /\ left'[k] = left[k]
    /\ processed'[k] = processed[k] /\ stage'[k] = stage[k] /\ lines'[k] = lines[k]

\* The loop invariants have to be shown only for the lcore that takes the step.
LEMMA OneLcore ==
  ASSUME NEW l \in Lcores, CountedInv, prog' = prog, OthersSame(l),
         LoopOK(l)', LineOK(l)'
  PROVE  LoopInv' /\ LogConserved'
  <1>1. ASSUME NEW k \in Lcores, k # l PROVE LoopOK(k)' /\ LineOK(k)'
    <2>1. LoopOK(k) /\ LineOK(k)
      BY DEF CountedInv, LoopInv, LogConserved, LineOK
    <2>2. /\ pc'[k] = pc[k] /\ nb_mng_rx'[k] = nb_mng_rx[k] /\ left'[k] = left[k]
          /\ processed'[k] = processed[k] /\ stage'[k] = stage[k]
          /\ lines'[k] = lines[k]
      BY <1>1 DEF OthersSame
    <2>3. LoopOK(k)'
      BY <2>1, <2>2 DEF LoopOK
    <2>4. LineOK(k)'
      BY <2>1, <2>2 DEF LineOK, Unlogged
    <2>5. QED
      BY <2>3, <2>4
  <1>2. QED
    BY <1>1 DEF LoopInv, LogConserved, LineOK

\* Before the lcores are launched nothing is counted or logged.
LEMMA CountedInitial == Init => CountedInv
  <1> SUFFICES ASSUME Init PROVE CountedInv
    OBVIOUS
  <1> USE DEF Init, ProcessInit
  <1>1. LogInv
    BY LogInitial
  <1>2. LoopTypes
    BY ZeroType DEF LoopTypes, PCs
  <1>3. DataTypes
    BY ZeroType DEF DataTypes
  <1>4. TypeOK
    BY <1>1, <1>2, <1>3, TypeParts DEF LogInv, Statuses
  <1>5. LoopInv
    BY DEF LoopInv, LoopOK, LogInit
  <1>6. LogConserved
    BY DEF LogConserved, Unlogged, LogInit
  <1>7. QED
    BY <1>1, <1>4, <1>5, <1>6 DEF CountedInv

\* main, the signal handler and the errors that end the process change none of
\* the lcores' variables.
LEMMA ProcessSteps ==
  ASSUME CountedInv, UNCHANGED restVars, UNCHANGED pc,
         status' \in Statuses \cup {"undefined"}, force_quit' \in BOOLEAN
  PROVE  CountedInv'
  <1> USE DEF restVars, loopVars, hostVars, histVars
  <1>1. LogInv'
    BY LogUnchanged DEF CountedInv
  <1>2. LoopTypes' /\ DataTypes' /\ prog' \in Programs
    BY TypeParts DEF CountedInv, LoopTypes, DataTypes
  <1>3. TypeOK'
    BY <1>1, <1>2 DEF LogInv, TypeOK, LoopTypes, DataTypes
  <1>4. LoopInv'
    BY DEF CountedInv, LoopInv, LoopOK, logVars
  <1>5. LogConserved'
    BY DEF CountedInv, LogConserved, Unlogged, logVars
  <1>6. QED
    BY <1>1, <1>3, <1>4, <1>5 DEF CountedInv

\* From what a step does to its own lcore's variables to the invariant.
LEMMA LcoreStep ==
  ASSUME NEW l \in Lcores, CountedInv, UNCHANGED <<prog, status>>,
         force_quit' \in {force_quit, TRUE},
         LogInv', LoopTypes', DataTypes', OthersSame(l), LoopOK(l)', LineOK(l)'
  PROVE  CountedInv'
  <1>1. TypeOK'
    BY DEF TypeOK, LoopTypes, DataTypes, CountedInv, LogInv
  <1>2. QED
    BY <1>1, OneLcore DEF CountedInv

\* An lcore outside the burst has logged every packet it worked on.
LEMMA AllLogged ==
  ASSUME NEW l \in Lcores, CountedInv
  PROVE  /\ LoopOK(l) /\ LineOK(l)
         /\ processed[l] \in Nat /\ nb_mng_rx[l] \in 0 .. BURST_SIZE
         /\ left[l] \in 0 .. BURST_SIZE /\ pc[l] \in PCs
  BY DEF CountedInv, LoopInv, LogConserved, LineOK, TypeOK

-------------------------------------------------------------------------------
(* The steps of the loops.                                                   *)

\* The data that the steps of the loops leave alone.
LEMMA DataSame ==
  ASSUME CountedInv, UNCHANGED <<payload, res, hostVars, rx, seen>>
  PROVE  DataTypes'
  BY DEF CountedInv, TypeOK, DataTypes, hostVars

\* while (!force_quit): no packet is in the hands of the lcore.
LEMMA LoopStep ==
  ASSUME NEW l \in Lcores, CountedInv, Loop(l)
  PROVE  CountedInv'
  <1> USE DEF Loop, test_quit, At, Goto, restVars, loopVars, hostVars, histVars
  <1>1. LogInv' /\ DataTypes'
    BY LogUnchanged, DataSame DEF CountedInv
  <1>2. LoopTypes'
    BY DEF CountedInv, TypeOK, LoopTypes, PCs
  <1>3. OthersSame(l)
    BY DEF OthersSame, logVars, CountedInv, TypeOK
  <1>4. pc'[l] \in {"done", "rx"}
    BY DEF CountedInv, TypeOK
  <1>5. LoopOK(l)'
    BY <1>4, AllLogged DEF LoopOK, logVars
  <1>6. LineOK(l)'
    BY <1>4, AllLogged DEF LineOK, Unlogged, logVars
  <1>7. QED
    BY <1>1, <1>2, <1>3, <1>5, <1>6, LcoreStep

\* The end of a port's iteration, reached with every packet logged: the next
\* port is one that exists.
LEMMA PortStep ==
  ASSUME NEW l \in Lcores, CountedInv, pc[l] \in {"rx", "check"}, NextPort(l),
         UNCHANGED <<prog, status, force_quit, left, payload, word, res, hostVars,
                     rx, histVars, logVars>>
  PROVE  CountedInv'
  <1> USE DEF NextPort, Goto, histVars
  <1>1. LogInv' /\ DataTypes'
    BY LogUnchanged, DataSame DEF CountedInv
  <1>2. port' \in [Lcores -> 1 .. NbPorts]
    <2>1. port \in [Lcores -> 1 .. NbPorts]
      BY DEF CountedInv, TypeOK
    <2>2. CASE port[l] < NbPorts
      BY <2>1, <2>2
    <2>3. CASE ~(port[l] < NbPorts)
      BY <2>1, <2>3
    <2>4. QED
      BY <2>2, <2>3
  <1>3. LoopTypes'
    BY <1>2 DEF CountedInv, TypeOK, LoopTypes, PCs
  <1>4. OthersSame(l)
    BY DEF OthersSame, logVars, CountedInv, TypeOK
  <1>5. pc'[l] \in {"rx", "loop"}
    BY DEF CountedInv, TypeOK
  <1>6. LoopOK(l)'
    BY <1>5, AllLogged DEF LoopOK, logVars
  <1>7. LineOK(l)'
    BY <1>5, AllLogged DEF LineOK, Unlogged, logVars
  <1>8. QED
    BY <1>1, <1>3, <1>4, <1>6, <1>7, LcoreStep

\* rte_eth_rx_burst returns packets.
LEMMA BurstStep ==
  ASSUME NEW l \in Lcores, CountedInv, rx_burst(l)
  PROVE  CountedInv'
  <1> USE DEF rx_burst, At, Goto, histVars
  <1>0. PICK nb_rx \in 1 .. BURST_SIZE :
          rx + nb_rx <= MaxRx /\ rx' = rx + nb_rx
          /\ left' = [left EXCEPT ![l] = nb_rx]
    OBVIOUS
  <1>1. LogInv'
    BY LogUnchanged DEF CountedInv
  <1>2. DataTypes'
    BY <1>0 DEF CountedInv, TypeOK, DataTypes, hostVars
  <1>3. LoopTypes'
    BY <1>0 DEF CountedInv, TypeOK, LoopTypes, PCs
  <1>4. OthersSame(l)
    BY <1>0 DEF OthersSame, logVars, CountedInv, TypeOK
  <1>5. pc'[l] = "gate" /\ nb_mng_rx'[l] = 0 /\ left'[l] = nb_rx
    BY <1>0 DEF CountedInv, TypeOK
  <1>6. LoopOK(l)'
    BY <1>5, AllLogged DEF LoopOK, logVars
  <1>7. LineOK(l)'
    BY <1>5, AllLogged DEF LineOK, Unlogged, logVars
  <1>8. QED
    BY <1>1, <1>2, <1>3, <1>4, <1>6, <1>7, LcoreStep

\* A packet the gate skips is neither counted nor logged.
LEMMA SkipStep ==
  ASSUME NEW l \in Lcores, CountedInv, skip_packet(l)
  PROVE  CountedInv'
  <1> USE DEF skip_packet, At, histVars
  <1>1. LogInv' /\ DataTypes'
    BY LogUnchanged, DataSame DEF CountedInv
  <1>2. LoopTypes'
    BY DEF CountedInv, TypeOK, LoopTypes
  <1>3. OthersSame(l)
    BY DEF OthersSame, logVars, CountedInv, TypeOK
  <1>4. left'[l] = left[l] - 1
    BY DEF CountedInv, TypeOK
  <1>5. LoopOK(l)'
    BY <1>4, AllLogged DEF LoopOK, logVars
  <1>6. LineOK(l)'
    BY AllLogged DEF LineOK, Unlogged, logVars
  <1>7. QED
    BY <1>1, <1>2, <1>3, <1>5, <1>6, LcoreStep

\* A packet is counted: one more line is owed, and the burst has one packet less.
LEMMA CountedEffect ==
  ASSUME NEW l \in Lcores, CountedInv, Counted(l), pc[l] \in {"gate", "work"},
         left[l] > 0, UNCHANGED <<prog, logVars>>, pc' \in [Lcores -> PCs],
         pc'[l] = "gate", \A k \in Lcores \ {l} : pc'[k] = pc[k]
  PROVE  /\ left' \in [Lcores -> 0 .. BURST_SIZE]
         /\ nb_mng_rx' \in [Lcores -> 0 .. BURST_SIZE]
         /\ processed' \in [Lcores -> Nat]
         /\ OthersSame(l) /\ LoopOK(l)' /\ LineOK(l)'
  <1> USE DEF Counted
  <1>0. /\ left \in [Lcores -> 0 .. BURST_SIZE]
        /\ nb_mng_rx \in [Lcores -> 0 .. BURST_SIZE]
        /\ processed \in [Lcores -> Nat]
    BY DEF CountedInv, TypeOK
  <1>1. nb_mng_rx[l] + left[l] <= BURST_SIZE
    BY AllLogged DEF LoopOK
  <1>2. /\ left' \in [Lcores -> 0 .. BURST_SIZE]
        /\ nb_mng_rx' \in [Lcores -> 0 .. BURST_SIZE]
        /\ processed' \in [Lcores -> Nat]
    BY <1>0, <1>1
  <1>3. /\ left'[l] = left[l] - 1 /\ nb_mng_rx'[l] = nb_mng_rx[l] + 1
        /\ processed'[l] = processed[l] + 1
    BY <1>0
  <1>4. OthersSame(l)
    BY <1>0 DEF OthersSame, logVars
  <1>5. LoopOK(l)'
    BY <1>0, <1>1, <1>3, AllLogged DEF LoopOK, logVars
  <1>6. LineOK(l)'
    <2>1. LineOK(l) /\ Unlogged(l) = nb_mng_rx[l]
      BY AllLogged DEF Unlogged
    <2>2. Unlogged(l)' = nb_mng_rx[l] + 1
      BY <1>3 DEF Unlogged
    <2>3. lines'[l] = lines[l] /\ prog' = prog
      BY DEF logVars
    <2>4. QED
      BY <1>0, <1>3, <2>1, <2>2, <2>3 DEF LineOK
  <1>7. QED
    BY <1>2, <1>4, <1>5, <1>6

\* filter's lookup fails: the packet counts all the same.
LEMMA MissStep ==
  ASSUME NEW l \in Lcores, CountedInv, filter_miss(l)
  PROVE  CountedInv'
  <1> USE DEF filter_miss, At
  <1>1. LogInv' /\ DataTypes'
    BY LogUnchanged, DataSame DEF CountedInv
  <1>2. pc' \in [Lcores -> PCs]
    BY DEF CountedInv, TypeOK
  <1>3. /\ left' \in [Lcores -> 0 .. BURST_SIZE]
        /\ nb_mng_rx' \in [Lcores -> 0 .. BURST_SIZE]
        /\ processed' \in [Lcores -> Nat]
        /\ OthersSame(l) /\ LoopOK(l)' /\ LineOK(l)'
    BY <1>2, CountedEffect
  <1>4. LoopTypes'
    BY <1>2, <1>3 DEF LoopTypes, CountedInv, TypeOK
  <1>5. QED
    BY <1>1, <1>3, <1>4, LcoreStep

\* The word loop of a packet begins.
LEMMA BeginStep ==
  ASSUME NEW l \in Lcores, CountedInv, begin_packet(l)
  PROVE  CountedInv'
  <1> USE DEF begin_packet, At, Goto
  <1>0. PICK p \in Packets : /\ payload' = [payload EXCEPT ![l] = p.payload]
                             /\ seen' = [seen EXCEPT ![p.payload] = @ + 1]
    OBVIOUS
  <1>1. LogInv'
    BY LogUnchanged DEF CountedInv
  <1>2. DataTypes'
    <2>1. p.payload \in Payloads /\ p.payload \in SeenPayloads
      <3>1. p \in PacketType
        OBVIOUS
      <3>2. p.payload \in Payloads
        BY <3>1, PacketPayload
      <3>3. p.payload \in SeenPayloads
        BY DEF SeenPayloads
      <3>4. QED
        BY <3>2, <3>3
    <2>2. payload' \in [Lcores -> Payloads]
      BY <1>0, <2>1 DEF CountedInv, TypeOK
    <2>3. seen' \in [SeenPayloads -> Nat]
      <3>1. seen \in [SeenPayloads -> Nat]
        BY DEF CountedInv, TypeOK
      <3>2. QED
        BY <1>0, <2>1, <3>1
    <2>4. res' \in [Lcores -> T]
      BY ZeroType DEF CountedInv, TypeOK
    <2>5. QED
      BY <2>2, <2>3, <2>4 DEF DataTypes, CountedInv, TypeOK, hostVars
  <1>3. LoopTypes'
    BY ZeroType DEF CountedInv, TypeOK, LoopTypes, PCs
  <1>4. OthersSame(l)
    BY DEF OthersSame, logVars, CountedInv, TypeOK
  <1>5. pc'[l] = "work"
    BY DEF CountedInv, TypeOK
  <1>6. LoopOK(l)'
    BY <1>5, AllLogged DEF LoopOK, logVars
  <1>7. LineOK(l)'
    BY <1>5, AllLogged DEF LineOK, Unlogged, logVars
  <1>8. QED
    BY <1>1, <1>2, <1>3, <1>4, <1>6, <1>7, LcoreStep

-------------------------------------------------------------------------------
(* The word loops.                                                           *)

\* The end of an iteration keeps the invariant, whatever the iteration wrote, as
\* long as the data keep their types: after the last word the packet is counted.
LEMMA WordStep ==
  ASSUME NEW l \in Lcores, CountedInv, At(l, "work"), NextWord(l), DataTypes',
         force_quit' \in {force_quit, TRUE}
  PROVE  CountedInv'
  <1> USE DEF NextWord, At, Goto
  <1>1. LogInv'
    BY LogUnchanged DEF CountedInv
  <1>2. left[l] > 0 /\ word[l] \in WordIndex
    BY AllLogged DEF LoopOK, CountedInv, TypeOK
  <1>3. CASE LastWord(l)
    <2>1. Counted(l) /\ pc' = [pc EXCEPT ![l] = "gate"] /\ word' = word
      BY <1>3
    <2>2. /\ pc' \in [Lcores -> PCs] /\ pc'[l] = "gate"
          /\ \A k \in Lcores \ {l} : pc'[k] = pc[k]
      BY <2>1 DEF CountedInv, TypeOK, PCs
    <2>3. /\ left' \in [Lcores -> 0 .. BURST_SIZE]
          /\ nb_mng_rx' \in [Lcores -> 0 .. BURST_SIZE]
          /\ processed' \in [Lcores -> Nat]
          /\ OthersSame(l) /\ LoopOK(l)' /\ LineOK(l)'
      BY <1>2, <2>1, <2>2, CountedEffect
    <2>4. LoopTypes'
      BY <2>1, <2>2, <2>3 DEF LoopTypes, CountedInv, TypeOK
    <2>5. QED
      BY <1>1, <2>3, <2>4, LcoreStep
  <1>4. CASE ~LastWord(l)
    <2>1. /\ word' = [word EXCEPT ![l] = @ + 1]
          /\ UNCHANGED <<pc, nb_mng_rx, processed, left>>
      BY <1>4
    <2>2. word[l] + 1 \in WordIndex
      BY <1>2, <1>4 DEF LastWord, WordIndex
    <2>3. LoopTypes'
      BY <2>1, <2>2 DEF LoopTypes, CountedInv, TypeOK
    <2>4. OthersSame(l)
      BY <2>1 DEF OthersSame, logVars
    <2>5. LoopOK(l)'
      BY <2>1, AllLogged DEF LoopOK, logVars
    <2>6. LineOK(l)'
      BY <2>1, AllLogged DEF LineOK, Unlogged, logVars
    <2>7. QED
      BY <1>1, <2>3, <2>4, <2>5, <2>6, LcoreStep
  <1>5. QED
    BY <1>3, <1>4

\* Each kernel writes values of type T into cells that exist: an index of the
\* word loop, or a key below HISTOG_NR.  The key HISTOG_NR writes none of them.
LEMMA WorkStep ==
  ASSUME NEW l \in Lcores, CountedInv, Work(l)
  PROVE  CountedInv'
  <1>0. /\ payload[l] \in Payloads /\ word[l] \in WordIndex
        /\ payload[l][word[l]] \in T /\ res[l] \in T /\ word[l] \in Cells
        /\ host[word[l]] \in T
    <2>1. payload[l] \in Payloads /\ word[l] \in WordIndex /\ res[l] \in T
      BY DEF CountedInv, TypeOK
    <2>2. payload[l][word[l]] \in T
      BY <2>1 DEF Payloads
    <2>3. word[l] \in Cells
      BY <2>1, CellsOfHost
    <2>4. host[word[l]] \in T
      BY <2>3 DEF CountedInv, TypeOK
    <2>5. QED
      BY <2>1, <2>2, <2>3, <2>4
  <1>a. \A c \in Cells : \A v \in T : [host EXCEPT ![c] = v] \in [Cells -> T]
    BY DEF CountedInv, TypeOK
  <1>b. \A x, y \in T : x \in Int /\ wrap(x + y) \in T /\ wrap(x + 1) \in T
    <2>1. \A x \in T : x \in Int
      BY DEF T
    <2>2. QED
      BY <2>1, WrapType
  <1>c. 0 \in Cells
    BY CellsOfHost, ZeroType
  <1>d. /\ payload \in [Lcores -> Payloads] /\ res \in [Lcores -> T]
        /\ host \in [Cells -> T] /\ pkt_rec \in T /\ rx \in 0 .. MaxRx
        /\ seen \in [SeenPayloads -> Nat]
    BY DEF CountedInv, TypeOK
  <1>1. CASE aggregate_word(l)
    <2> USE <1>1 DEF aggregate_word, InLoop
    <2>1. res' \in [Lcores -> T] /\ res'[l] \in T
      <3>1. wrap(res[l] + payload[l][word[l]]) \in T
        BY <1>0, <1>b
      <3>2. res' = [res EXCEPT ![l] = wrap(res[l] + payload[l][word[l]])]
        BY <1>d
      <3>3. QED
        BY <3>1, <3>2, <1>d
    <2>2. host' \in [Cells -> T]
      <3>1. host[0] \in T /\ wrap(host[0] + res'[l]) \in T
        BY <1>c, <1>d, <1>b, <2>1
      <3>2. CASE LastWord(l)
        <4>1. host' = [host EXCEPT ![0] = wrap(host[0] + res'[l])]
          BY <3>2
        <4>2. QED
          BY <1>a, <1>c, <3>1, <4>1
      <3>3. CASE ~LastWord(l)
        BY <3>3, <1>d
      <3>4. QED
        BY <3>2, <3>3
    <2>3. DataTypes'
      BY <1>d, <2>1, <2>2 DEF DataTypes, EndWord, NextWord
    <2>4. QED
      BY <2>3, WordStep DEF EndWord
  <1>2. CASE reduce_word(l)
    <2> USE <1>2 DEF reduce_word, InLoop
    <2>1. host' = [host EXCEPT ![word[l]] = wrap(host[word[l]] + payload[l][word[l]])]
      OBVIOUS
    <2>2. wrap(host[word[l]] + payload[l][word[l]]) \in T
      BY <1>0, <1>b
    <2>3. host' \in [Cells -> T]
      BY <1>0, <1>a, <2>1, <2>2
    <2>4. DataTypes'
      BY <1>d, <2>3 DEF DataTypes, EndWord, NextWord
    <2>5. QED
      BY <2>4, WordStep DEF EndWord
  <1>3. CASE histogram_word(l)
    <2> USE <1>3 DEF histogram_word, InLoop
    <2> DEFINE key == payload[l][word[l]]
    <2>1. key \in Cells
      BY <1>0, CellsOfHost
    <2>2. host[key] \in T /\ wrap(host[key] + 1) \in T
      BY <1>b, <1>d, <2>1
    <2>3. host' = [host EXCEPT ![key] = wrap(host[key] + 1)]
      OBVIOUS
    <2>4. host' \in [Cells -> T]
      <3> HIDE DEF key
      <3> QED
        BY <1>a, <2>1, <2>2, <2>3
    <2>5. DataTypes'
      BY <1>d, <2>4 DEF DataTypes, EndWord, NextWord
    <2>6. QED
      BY <2>5, WordStep DEF EndWord
  <1>4. CASE histogram_exit(l)
    BY <1>4, ProcessSteps DEF histogram_exit, Exit, Statuses, CountedInv, TypeOK
  <1>9. CASE histogram_stray(l)
    <2> USE <1>9 DEF histogram_stray, InLoop
    <2>1. CASE NextWord(l) /\ UNCHANGED <<host, payload, res>>
               /\ force_quit' \in {force_quit, TRUE}
      <3>1. DataTypes'
        BY <1>d, <2>1 DEF DataTypes, NextWord
      <3>2. QED
        BY <2>1, <3>1, WordStep
    <2>2. CASE status' = "undefined" /\ UNCHANGED <<force_quit, pc, restVars>>
      BY <2>2, ProcessSteps DEF CountedInv, TypeOK
    <2>3. QED
      BY <2>1, <2>2 DEF EndWord
  <1>5. CASE copy_to_host_word(l)
    <2> USE <1>5 DEF copy_to_host_word, InLoop
    <2>1. host' \in [Cells -> T]
      BY <1>0, <1>a
    <2>2. DataTypes'
      BY <1>d, <2>1 DEF DataTypes, EndWord, NextWord
    <2>3. QED
      BY <2>2, WordStep DEF EndWord
  <1>6. CASE filter_word(l)
    <2> USE <1>6 DEF filter_word, InLoop
    <2>1. host' \in [Cells -> T]
      BY <1>0, <1>a
    <2>2. DataTypes'
      BY <1>d, <2>1 DEF DataTypes, EndWord, NextWord
    <2>3. QED
      BY <2>2, WordStep DEF EndWord
  <1>7. CASE copy_from_host_word(l)
    <2> USE <1>7 DEF copy_from_host_word, InLoop
    <2>1. [payload[l] EXCEPT ![word[l]] = host[word[l]]] \in Payloads
      BY <1>0 DEF Payloads
    <2>2. payload' = [payload EXCEPT ![l] =
                        [payload[l] EXCEPT ![word[l]] = host[word[l]]]]
      BY <1>d
    <2>3. payload' \in [Lcores -> Payloads]
      BY <1>d, <2>1, <2>2
    <2>4. DataTypes'
      BY <1>d, <2>3 DEF DataTypes, EndWord, NextWord
    <2>5. QED
      BY <2>4, WordStep DEF EndWord
  <1>8. QED
    BY <1>1, <1>2, <1>3, <1>4, <1>5, <1>6, <1>7, <1>9 DEF Work

-------------------------------------------------------------------------------
(* After the packet loop.                                                    *)

\* The burst is added to pkt_rec; a timed program with packets to log goes on to
\* calc_latency, and otherwise no line is owed.
LEMMA CountStep ==
  ASSUME NEW l \in Lcores, CountedInv, count_burst(l)
  PROVE  CountedInv'
  <1> USE DEF count_burst, At, Goto, DropPacket
  <1>0. nb_mng_rx[l] \in 0 .. BURST_SIZE /\ pkt_rec \in T /\ pkt_rec \in Int
    BY DEF CountedInv, TypeOK, T
  <1>1. LogInv'
    BY LogUnchanged DEF CountedInv
  <1>2. DataTypes'
    <2>1. pkt_rec' \in T
      BY <1>0, WrapType
    <2>2. payload' \in [Lcores -> Payloads] /\ res' \in [Lcores -> T]
      BY ZeroType DEF CountedInv, TypeOK
    <2>3. QED
      BY <2>1, <2>2 DEF DataTypes, CountedInv, TypeOK
  <1>3. LoopTypes'
    BY ZeroType DEF CountedInv, TypeOK, LoopTypes, PCs
  <1>4. OthersSame(l)
    BY DEF OthersSame, logVars, CountedInv, TypeOK
  <1>5. CASE prog.timed /\ nb_mng_rx[l] # 0
    <2>1. pc'[l] = "latency"
      BY <1>5 DEF CountedInv, TypeOK
    <2>2. LoopOK(l)'
      BY <1>5, <2>1, AllLogged DEF LoopOK, logVars
    <2>3. LineOK(l)'
      <3>1. stage[l] = "out" /\ stage' = stage /\ lines' = lines
        BY AllLogged DEF LoopOK, logVars
      <3>2. QED
        BY <2>1, <3>1, AllLogged DEF LineOK, Unlogged
    <2>4. QED
      BY <1>1, <1>2, <1>3, <1>4, <2>2, <2>3, LcoreStep
  <1>6. CASE ~(prog.timed /\ nb_mng_rx[l] # 0)
    <2>1. pc'[l] = "check"
      BY <1>6 DEF CountedInv, TypeOK
    <2>2. LoopOK(l)'
      BY <2>1, AllLogged DEF LoopOK, logVars
    <2>3. LineOK(l)'
      BY <1>6, <2>1, AllLogged DEF LineOK, Unlogged, logVars
    <2>4. QED
      BY <1>1, <1>2, <1>3, <1>4, <2>2, <2>3, LcoreStep
  <1>7. QED
    BY <1>5, <1>6

\* calc_latency up to the unlock: the lines owed are printed, and to this
\* lcore's account, because wfptr is its own FILE.
LEMMA LatencyStep ==
  ASSUME NEW l \in Lcores, CountedInv, log_step(l)
  PROVE  CountedInv'
  <1> USE DEF log_step, At, loopVars, histVars
  <1>0. nb_mng_rx[l] \in Nat /\ LogInv /\ pc[l] = "latency" /\ prog.timed
    BY AllLogged DEF CountedInv, LoopOK
  <1>1. LogInv'
    BY <1>0, LogLock, LogOpen, LogPrint
  <1>2. DataTypes' /\ LoopTypes'
    BY DEF CountedInv, TypeOK, DataTypes, LoopTypes, hostVars
  <1>a. /\ stage \in [Lcores -> Stages] /\ lines \in [Lcores -> Nat]
        /\ processed[l] \in Nat
    BY DEF CountedInv, LogInv, LogTypeOK, TypeOK
  <1>3. /\ \A k \in Lcores \ {l} : stage'[k] = stage[k] /\ lines'[k] = lines[k]
        /\ \/ stage'[l] \in {"fopen", "fprintf"} /\ stage[l] # "unlock"
              /\ lines'[l] = lines[l]
           \/ stage'[l] = "unlock" /\ stage[l] # "unlock"
              /\ lines'[l] = lines[l] + nb_mng_rx[l]
    <2>1. CASE write_lock(l)
      BY <1>a, <2>1 DEF write_lock
    <2>2. CASE open_log(l)
      BY <1>a, <2>2 DEF open_log
    <2>3. CASE print_lines(l, nb_mng_rx[l])
      <3>1. lines' = [lines EXCEPT ![l] = @ + nb_mng_rx[l]]
        BY <1>0, <2>3, LogPrint
      <3>2. QED
        BY <1>a, <2>3, <3>1 DEF print_lines
    <2>4. QED
      BY <2>1, <2>2, <2>3
  <1>4. OthersSame(l)
    BY <1>3 DEF OthersSame
  <1>5. LoopOK(l)'
    BY <1>0, <1>3 DEF LoopOK
  <1>6. LineOK(l)'
    <2>1. lines[l] = processed[l] - nb_mng_rx[l]
      BY <1>0, <1>3, AllLogged DEF LineOK, Unlogged
    <2>2. lines'[l] = processed[l] - Unlogged(l)'
      BY <1>0, <1>3, <1>a, <2>1 DEF Unlogged
    <2>3. QED
      BY <1>0, <2>2 DEF LineOK
  <1>7. QED
    BY <1>1, <1>2, <1>4, <1>5, <1>6, LcoreStep

\* The lock is released with every line printed.
LEMMA LatencyDone ==
  ASSUME NEW l \in Lcores, CountedInv, log_done(l)
  PROVE  CountedInv'
  <1> USE DEF log_done, At, Goto, loopVars, histVars, write_unlock
  <1>1. LogInv'
    BY LogUnlock DEF CountedInv
  <1>2. DataTypes' /\ LoopTypes'
    BY DEF CountedInv, TypeOK, DataTypes, LoopTypes, hostVars, PCs
  <1>3. pc'[l] = "check" /\ stage'[l] = "out"
    BY DEF CountedInv, TypeOK, LogTypeOK
  <1>4. OthersSame(l)
    BY DEF OthersSame, CountedInv, TypeOK, LogTypeOK
  <1>5. LoopOK(l)'
    BY <1>3 DEF LoopOK
  <1>6. LineOK(l)'
    BY <1>3, AllLogged DEF LineOK, Unlogged
  <1>7. QED
    BY <1>1, <1>2, <1>4, <1>5, <1>6, LcoreStep

-------------------------------------------------------------------------------
(* The theorems.                                                             *)

\* Every step of main, of the signal handler and of an lcore keeps CountedInv.
LEMMA CountedStep == CountedInv /\ [Next]_vars => CountedInv'
  <1> SUFFICES ASSUME CountedInv, [Next]_vars PROVE CountedInv'
    OBVIOUS
  <1>0. status \in Statuses \cup {"undefined"} /\ force_quit \in BOOLEAN
    BY DEF CountedInv, TypeOK
  <1>1. CASE Start
    BY <1>0, <1>1, ProcessSteps DEF Start, main_init, Statuses
  <1>2. CASE Finish
    BY <1>0, <1>2, ProcessSteps DEF Finish, main_wait, Statuses
  <1>3. CASE Signal
    BY <1>0, <1>3, ProcessSteps DEF Signal, signal_handler, Statuses
  <1>4. CASE UNCHANGED vars
    BY <1>0, <1>4, ProcessSteps DEF vars, restVars
  <1>5. ASSUME NEW l \in Lcores, lcore_main(l) PROVE CountedInv'
    <2>1. CASE rx_nothing(l)
      BY <2>1, PortStep DEF rx_nothing, At
    <2>2. CASE answer(l) \/ no_answer(l)
      BY <2>2, PortStep DEF answer, no_answer, At
    <2>3. CASE log_exit(l)
      BY <1>0, <2>3, ProcessSteps DEF log_exit, Exit, Statuses
    <2>4. QED
      BY <1>5, <2>1, <2>2, <2>3, LoopStep, BurstStep, SkipStep, MissStep,
         BeginStep, WorkStep, CountStep, LatencyStep, LatencyDone DEF lcore_main
  <1>6. QED
    BY <1>1, <1>2, <1>3, <1>4, <1>5 DEF Next, Terminated

\* The inductive invariant holds in every behaviour of the counting programs.
THEOREM CountedInvariance == Spec => []CountedInv
  BY CountedInitial, CountedStep, PTL DEF Spec

\* Every variable keeps its type, whatever the lcores interleave to: no port, burst
\* or word index of lcore_main runs out of its range, every sum wraps within T, and
\* a key that goes past final_histog changes nothing else of what is modelled than
\* force_quit and status.
THEOREM CountedTypeCorrect == Spec => []TypeOK
  BY CountedInvariance, PTL DEF CountedInv

\* No lcore of a counting program prints through, or closes, the FILE of another.
THEOREM CountedHandleSafe == Spec => []LogHandleOwned
  BY CountedInvariance, PTL DEF CountedInv, LogInv

\* A timed program's results file gets exactly one line per packet worked on,
\* from the lcore that worked on it; the other programs print nothing.
THEOREM CountedLogCorrect == Spec => []LogConserved
  BY CountedInvariance, PTL DEF CountedInv

-------------------------------------------------------------------------------
(* The counter.                                                              *)

\* A step of a word loop ends the iteration or the process, whichever kernel it is.
LEMMA WorkEnds ==
  ASSUME NEW l \in Lcores, Work(l)
  PROVE  At(l, "work") /\ (NextWord(l) \/ UNCHANGED <<pc, restVars>>)
  <1> USE DEF InLoop, EndWord
  <1>1. CASE histogram_exit(l)
    BY <1>1 DEF histogram_exit, Exit
  <1>2. CASE histogram_stray(l)
    BY <1>2 DEF histogram_stray
  <1>3. QED
    BY <1>1, <1>2 DEF Work, aggregate_word, reduce_word, histogram_word,
                      copy_to_host_word, filter_word, copy_from_host_word

\* Every step of an lcore leaves the other lcores alone.
LEMMA LcoreAlone ==
  ASSUME NEW l \in Lcores, CountedInv, lcore_main(l)
  PROVE  OthersSame(l)
  <1>0. /\ pc \in [Lcores -> PCs] /\ left \in [Lcores -> 0 .. BURST_SIZE]
        /\ nb_mng_rx \in [Lcores -> 0 .. BURST_SIZE] /\ processed \in [Lcores -> Nat]
        /\ stage \in [Lcores -> Stages] /\ lines \in [Lcores -> Nat]
    BY DEF CountedInv, TypeOK, LogTypeOK
  <1> USE DEF OthersSame, At, Goto, logVars, loopVars, histVars, restVars
  <1>1. CASE Loop(l)
    BY <1>0, <1>1 DEF Loop, test_quit
  <1>2. CASE rx_nothing(l) \/ answer(l) \/ no_answer(l)
    BY <1>0, <1>2 DEF rx_nothing, answer, no_answer, NextPort
  <1>3. CASE rx_burst(l)
    BY <1>0, <1>3 DEF rx_burst
  <1>4. CASE skip_packet(l)
    BY <1>0, <1>4 DEF skip_packet
  <1>5. CASE filter_miss(l)
    BY <1>0, <1>5 DEF filter_miss, Counted
  <1>6. CASE begin_packet(l)
    BY <1>0, <1>6 DEF begin_packet
  <1>7. CASE Work(l)
    <2>1. CASE NextWord(l)
      BY <1>0, <2>1 DEF NextWord, Counted
    <2>2. CASE UNCHANGED <<pc, restVars>>
      BY <2>2
    <2>3. QED
      BY <1>7, <2>1, <2>2, WorkEnds
  <1>8. CASE count_burst(l)
    BY <1>0, <1>8 DEF count_burst
  <1>9. CASE log_step(l)
    <2>1. nb_mng_rx[l] \in Nat /\ LogInv
      BY <1>0 DEF CountedInv
    <2>2. CASE write_lock(l)
      BY <1>0, <1>9, <2>2 DEF log_step, write_lock
    <2>3. CASE open_log(l)
      BY <1>0, <1>9, <2>3 DEF log_step, open_log
    <2>4. CASE print_lines(l, nb_mng_rx[l])
      <3>1. lines' = [lines EXCEPT ![l] = @ + nb_mng_rx[l]]
        BY <2>1, <2>4, LogPrint
      <3>2. QED
        BY <1>0, <1>9, <2>4, <3>1 DEF log_step, print_lines
    <2>5. QED
      BY <1>9, <2>2, <2>3, <2>4 DEF log_step
  <1>10. CASE log_done(l)
    BY <1>0, <1>10 DEF log_done, write_unlock
  <1>11. CASE log_exit(l)
    BY <1>11 DEF log_exit, Exit
  <1>12. QED
    BY <1>1, <1>2, <1>3, <1>4, <1>5, <1>6, <1>7, <1>8, <1>9, <1>10, <1>11
       DEF lcore_main

\* The packets an lcore has added to the counter so far.
Added(l) == processed[l] - Pending(l)

\* Only count_burst adds to the counter, and it adds what is pending.
LEMMA AddedStep ==
  ASSUME NEW l \in Lcores, CountedInv, lcore_main(l)
  PROVE  \/ pkt_rec' = pkt_rec /\ Added(l)' = Added(l)
         \/ /\ pkt_rec' = wrap(pkt_rec + nb_mng_rx[l])
            /\ Added(l)' = Added(l) + nb_mng_rx[l]
  <1>0. /\ pc \in [Lcores -> PCs] /\ left \in [Lcores -> 0 .. BURST_SIZE]
        /\ nb_mng_rx \in [Lcores -> 0 .. BURST_SIZE] /\ processed \in [Lcores -> Nat]
    BY DEF CountedInv, TypeOK
  <1> USE DEF Added, Pending, At, Goto, loopVars, histVars, hostVars, restVars
  <1>1. CASE Loop(l)
    BY <1>0, <1>1 DEF Loop, test_quit
  <1>2. CASE rx_nothing(l) \/ answer(l) \/ no_answer(l)
    BY <1>0, <1>2 DEF rx_nothing, answer, no_answer, NextPort
  <1>3. CASE rx_burst(l)
    BY <1>0, <1>3 DEF rx_burst
  <1>4. CASE skip_packet(l)
    BY <1>0, <1>4 DEF skip_packet
  <1>5. CASE filter_miss(l)
    BY <1>0, <1>5 DEF filter_miss, Counted
  <1>6. CASE begin_packet(l)
    BY <1>0, <1>6 DEF begin_packet
  <1>7. CASE Work(l)
    <2>1. CASE At(l, "work") /\ NextWord(l)
      <3>1. CASE LastWord(l)
        BY <1>0, <2>1, <3>1 DEF NextWord, Counted
      <3>2. CASE ~LastWord(l)
        BY <1>0, <2>1, <3>2 DEF NextWord
      <3>3. QED
        BY <3>1, <3>2
    <2>2. CASE UNCHANGED <<pc, restVars>>
      BY <2>2
    <2>3. QED
      BY <1>7, <2>1, <2>2, WorkEnds
  <1>8. CASE count_burst(l)
    BY <1>0, <1>8 DEF count_burst
  <1>9. CASE log_step(l) \/ log_done(l)
    BY <1>0, <1>9 DEF log_step, log_done
  <1>10. CASE log_exit(l)
    BY <1>10 DEF log_exit, Exit
  <1>11. QED
    BY <1>1, <1>2, <1>3, <1>4, <1>5, <1>6, <1>7, <1>8, <1>9, <1>10 DEF lcore_main

\* The sum over the lcores changes by what the one that moves has added.
LEMMA AddedTotal ==
  ASSUME NEW l \in Lcores, CountedInv, CountedInv', OthersSame(l)
  PROVE  LET A == SumFunction(processed)
             P == SumFunction([k \in Lcores |-> Pending(k)])
         IN  /\ A \in Int /\ A' \in Int /\ P \in Int /\ P' \in Int
             /\ A' - P' = (A - P) + (Added(l)' - Added(l))
  <1> DEFINE f == [k \in Lcores |-> Pending(k)]
             g == [k \in Lcores |-> Pending(k)']
  <1>0. /\ processed \in [Lcores -> Nat] /\ processed' \in [Lcores -> Nat]
        /\ nb_mng_rx \in [Lcores -> 0 .. BURST_SIZE]
        /\ nb_mng_rx' \in [Lcores -> 0 .. BURST_SIZE]
    BY DEF CountedInv, TypeOK
  <1>1. f \in [Lcores -> Int] /\ g \in [Lcores -> Int]
    BY <1>0 DEF Pending
  <1>2. \A k \in Lcores \ {l} : f[k] = g[k] /\ processed[k] = processed'[k]
    BY DEF OthersSame, Pending
  <1>3. f[l] = Pending(l) /\ g[l] = Pending(l)'
    OBVIOUS
  <1>4. /\ SumFunction(f) \in Int /\ SumFunction(g) \in Int
        /\ SumFunction(g) - g[l] = SumFunction(f) - f[l]
    <2> HIDE DEF f, g
    <2> QED
      BY <1>1, <1>2, SumFunctionStep
  <1>5. processed \in [Lcores -> Int] /\ processed' \in [Lcores -> Int]
    BY <1>0
  <1>6. /\ SumFunction(processed) \in Int /\ SumFunction(processed') \in Int
        /\ SumFunction(processed') - processed'[l] = SumFunction(processed) - processed[l]
    BY <1>2, <1>5, SumFunctionStep
  <1>7. /\ f[l] \in Int /\ g[l] \in Int
        /\ processed[l] \in Int /\ processed'[l] \in Int
    BY <1>1, <1>5
  <1>8. Added(l) = processed[l] - f[l] /\ Added(l)' = processed'[l] - g[l]
    BY <1>3 DEF Added
  <1> HIDE DEF f, g
  <1>9. SumFunction(processed') - SumFunction(g)
          = (SumFunction(processed) - SumFunction(f)) + (Added(l)' - Added(l))
    <2> DEFINE a == SumFunction(processed)
               b == SumFunction(processed')
               p == SumFunction(f)
               q == SumFunction(g)
               u == processed[l]
               v == processed'[l]
               x == f[l]
               y == g[l]
    <2>1. /\ a \in Int /\ b \in Int /\ p \in Int /\ q \in Int
          /\ u \in Int /\ v \in Int /\ x \in Int /\ y \in Int
          /\ b - v = a - u /\ q - y = p - x
      BY <1>4, <1>6, <1>7
    <2>2. b - q = (a - p) + ((v - y) - (u - x))
      <3> HIDE DEF a, b, p, q, u, v, x, y
      <3> QED
        BY <2>1
    <2>3. QED
      BY <1>8, <2>2
  <1>10. QED
    BY <1>4, <1>6, <1>9 DEF f, g

\* Initially nothing is processed and nothing pending.
LEMMA CountInitial == Init => CountConserved
  <1> SUFFICES ASSUME Init PROVE CountConserved
    OBVIOUS
  <1> DEFINE f == [k \in Lcores |-> Pending(k)]
  <1>1. f = [k \in Lcores |-> 0] /\ processed = [k \in Lcores |-> 0] /\ pkt_rec = 0
    BY DEF Init, ProcessInit, Pending
  <1>2. SumFunction([k \in Lcores |-> 0]) = 0
    <2> DEFINE z == [k \in Lcores |-> 0]
    <2>1. DOMAIN z = Lcores /\ \A k \in Lcores : z[k] = 0
      OBVIOUS
    <2> HIDE DEF z
    <2>2. SumFunction(z) = 0
      BY <2>1, SumZero DEF SumFunction
    <2>3. QED
      BY <2>2 DEF z
  <1>3. wrap(0) = 0
    BY ZeroType, WrapId
  <1>4. QED
    BY <1>1, <1>2, <1>3 DEF CountConserved

\* Every step keeps the counter and the packets worked on in agreement.
LEMMA CountStepConserves ==
  CountedInv /\ CountedInv' /\ CountConserved /\ [Next]_vars => CountConserved'
  <1> SUFFICES ASSUME CountedInv, CountedInv', CountConserved, [Next]_vars
               PROVE  CountConserved'
    OBVIOUS
  <1>1. CASE UNCHANGED <<pc, nb_mng_rx, processed, pkt_rec>>
    BY <1>1 DEF CountConserved, Pending
  <1>2. ASSUME NEW l \in Lcores, lcore_main(l) PROVE CountConserved'
    <2> DEFINE A == SumFunction(processed)
               P == SumFunction([k \in Lcores |-> Pending(k)])
    <2>1. /\ A \in Int /\ A' \in Int /\ P \in Int /\ P' \in Int
          /\ A' - P' = (A - P) + (Added(l)' - Added(l))
      BY <1>2, LcoreAlone, AddedTotal
    <2>2. pkt_rec = wrap(A - P)
      BY DEF CountConserved
    <2>3. Added(l) \in Int /\ nb_mng_rx[l] \in Int
      BY DEF Added, Pending, CountedInv, TypeOK
    <2> SUFFICES pkt_rec' = wrap(A' - P')
      BY DEF CountConserved
    <2> HIDE DEF A, P
    <2>4. CASE pkt_rec' = pkt_rec /\ Added(l)' = Added(l)
      <3>1. Added(l)' - Added(l) = 0
        BY <2>3, <2>4
      <3>a. A' - P' = A - P
        <4>1. A' - P' = (A - P) + 0
          BY <2>1, <3>1
        <4>2. (A - P) + 0 = A - P
          BY <2>1
        <4>3. QED
          BY <4>1, <4>2
      <3>2. QED
        BY <2>2, <2>4, <3>a
    <2>5. CASE /\ pkt_rec' = wrap(pkt_rec + nb_mng_rx[l])
               /\ Added(l)' = Added(l) + nb_mng_rx[l]
      <3>0. Added(l)' - Added(l) = nb_mng_rx[l]
        BY <2>3, <2>5
      <3>1. A' - P' = (A - P) + nb_mng_rx[l]
        BY <2>1, <3>0
      <3> DEFINE d == A - P
                 n == nb_mng_rx[l]
      <3>2. wrap(wrap(d) + n) = wrap(d + n)
        <4>1. d \in Int /\ n \in Int
          BY <2>1, <2>3
        <4> HIDE DEF d, n
        <4>2. QED
          BY <4>1, WrapAdd
      <3>3. QED
        BY <2>2, <2>5, <3>1, <3>2
    <2>6. QED
      BY <1>2, <2>4, <2>5, AddedStep
  <1>3. QED
    BY <1>1, <1>2 DEF Next, vars, Start, Finish, Signal, Terminated, main_init,
       main_wait, signal_handler, restVars, loopVars, hostVars, histVars

\* pkt_rec and the packets the lcores have yet to add to it make up all the
\* packets worked on, for any number of lcores and any word size, though every
\* lcore adds whole bursts and the counter wraps around.
THEOREM CounterCorrect == Spec => []CountConserved
  BY CountedInvariance, CountInitial, CountStepConserves, PTL DEF Spec

-------------------------------------------------------------------------------
(* The shared memory: HostExact, kernel by kernel.                           *)

SumExact == \A c \in SumCells : wrap(host[c] + Owed(c)) = wrap(Due(c))

Copying == prog.kernel \in {"copy_to_host", "filter"}

CopyExact ==
  Copying =>
    \A c \in WordIndex :
      IF Written(c) = {} THEN host[c] = 0
                         ELSE host[c] \in {p[c] : p \in Written(c)}

ZeroExact == prog.kernel = "copy_from_host" => \A c \in WordIndex : host[c] = 0

\* aggregate's local sum holds the words before the loop index.
ResInv ==
  prog.kernel = "aggregate" =>
    \A l \in Working :
      res[l] = wrap(SumFunctionOnSet(payload[l], 0 .. word[l] - 1))

\* The lcores in the middle of a packet work on payloads that were begun, and each
\* payload was begun at least as often as lcores are in the middle of it.
Holders(p, c) == {l \in Before(c) : payload[l] = p}

CopyInv ==
  Copying =>
    /\ \A l \in Working : payload[l] \in SeenPayloads
    /\ \A c \in WordIndex : \A p \in SeenPayloads :
         seen[p] >= Cardinality(Holders(p, c))

\* A payload was written to cell c if more lcores have begun it than are still
\* before its word c.
LEMMA WrittenIff ==
  \A c, p : p \in Written(c) <=> /\ p \in SeenPayloads
                                 /\ seen[p] > Cardinality(Holders(p, c))
  BY DEF Written, Holders

\* Inductive relative to CountedInv.
ExactInv == SumExact /\ CopyExact /\ ZeroExact /\ ResInv /\ CopyInv

\* The kernel of a program is one of the six.
LEMMA KernelType == prog \in Programs => prog.kernel \in Kernels
  <1> DEFINE B == BOOLEAN
  <1>1. Programs \subseteq [kernel : Kernels, timed : B]
    OBVIOUS
  <1> HIDE DEF B
  <1>2. QED
    BY <1>1

\* The three parts make up HostExact.
LEMMA ExactParts ==
  ASSUME prog \in Programs, SumExact, CopyExact, ZeroExact
  PROVE  HostExact
  <1>1. prog.kernel \in Kernels
    BY KernelType
  <1>2. CASE prog.kernel \in {"aggregate", "reduce", "histogram"}
    BY <1>2 DEF HostExact, SumExact
  <1>3. CASE prog.kernel \in {"copy_to_host", "filter"}
    BY <1>3 DEF HostExact, CopyExact, Copying, Written
  <1>4. CASE prog.kernel = "copy_from_host"
    BY <1>4 DEF HostExact, ZeroExact
  <1>5. QED
    BY <1>1, <1>2, <1>3, <1>4 DEF Kernels

\* The sets the sums range over are finite.
LEMMA FiniteSums ==
  /\ IsFiniteSet(WordIndex)
  /\ IsFiniteSet(SeenPayloads)
  /\ SeenPayloads \subseteq Payloads
  /\ IsFiniteSet(Working)
  /\ \A c : Before(c) \subseteq Lcores /\ IsFiniteSet(Before(c))
  <1>1. IsFiniteSet(WordIndex)
    BY FS_Interval DEF WordIndex
  <1>2. IsFiniteSet(SeenPayloads)
    <2> DEFINE f == [p \in Packets |-> p.payload]
    <2>1. f \in Surjection(Packets, SeenPayloads)
      BY DEF Surjection, SeenPayloads
    <2> HIDE DEF f
    <2>2. QED
      BY <2>1, FS_Surjection
  <1>3. SeenPayloads \subseteq Payloads
    BY PacketPayload DEF SeenPayloads
  <1>4. \A c : Before(c) \subseteq Lcores /\ IsFiniteSet(Before(c))
    <2>1. \A c : Before(c) \in SUBSET Lcores
      BY DEF Before
    <2>2. QED
      BY <2>1, FS_Subset
  <1>5. QED
    BY <1>1, <1>2, <1>3, <1>4 DEF Working

\* An lcore is working on a packet exactly when it is in the word loop.
LEMMA WorkingIff ==
  ASSUME TypeOK
  PROVE  Working = {l \in Lcores : pc[l] = "work"}
  BY DEF Working, Before, TypeOK, WordIndex

\* What a packet adds to a cell is a number.
LEMMA AddsType ==
  ASSUME prog \in Programs, NEW c \in SumCells, NEW p \in Payloads,
         NEW from \in WordIndex
  PROVE  Adds(p, from, c) \in Int /\ c \in Cells
  <1>0. \A k \in WordIndex : p[k] \in Int
    BY DEF Payloads, T
  <1>1. CASE prog.kernel = "aggregate"
    <2>1. WordSum(p) \in Int
      BY <1>0, FiniteSums, SumType DEF WordSum
    <2>2. c = 0
      BY <1>1 DEF SumCells
    <2>3. QED
      BY <1>1, <2>1, <2>2, CellsOfHost, ZeroType DEF Adds
  <1>2. CASE prog.kernel = "reduce"
    <2>1. c \in WordIndex
      BY <1>2 DEF SumCells
    <2>2. QED
      BY <1>0, <1>2, <2>1, CellsOfHost DEF Adds
  <1>3. CASE prog.kernel = "histogram"
    <2> DEFINE K == {k \in WordIndex : k >= from /\ p[k] = c}
    <2>1. Cardinality(K) \in Nat
      BY FiniteSums, FS_Subset, FS_CardinalityType
    <2>2. c \in 0 .. HISTOG_NR - 1
      BY <1>3 DEF SumCells
    <2>3. Adds(p, from, c) = Cardinality(K)
      BY <1>3 DEF Adds
    <2>4. QED
      BY <2>1, <2>2, <2>3, CellsOfHost
  <1>4. QED
    BY <1>1, <1>2, <1>3, KernelType DEF SumCells, Kernels

\* What the sums see of the lcores other than l.
DataAlone(l) ==
  \A k \in Lcores \ {l} :
    /\ pc'[k] = pc[k] /\ payload'[k] = payload[k]
    /\ word'[k] = word[k] /\ res'[k] = res[k]

\* What lcore l owes to cell c.
Share(l, c) == IF pc[l] = "work" THEN Adds(payload[l], word[l], c) ELSE 0

\* When lcore l moves, only its own share of what is owed changes.
LEMMA OwedStep ==
  ASSUME NEW l \in Lcores, TypeOK, TypeOK', prog' = prog, DataAlone(l),
         NEW c, c \in SumCells
  PROVE  /\ Owed(c) \in Int /\ Owed(c)' \in Int
         /\ Share(l, c) \in Int /\ Share(l, c)' \in Int
         /\ Owed(c)' - Share(l, c)' = Owed(c) - Share(l, c)
  <1>0. prog \in Programs
    BY DEF TypeOK
  <1>1. /\ Working = {k \in Lcores : pc[k] = "work"}
        /\ Working' = {k \in Lcores : pc'[k] = "work"}
    <2>1. Working = {k \in Lcores : pc[k] = "work"}
      BY WorkingIff
    <2>2. Working' = {k \in Lcores : pc'[k] = "work"}
      BY DEF Working, Before, TypeOK, WordIndex
    <2>3. QED
      BY <2>1, <2>2
  <1>2. /\ \A k \in Lcores : payload[k] \in Payloads /\ word[k] \in WordIndex
        /\ \A k \in Lcores : payload'[k] \in Payloads /\ word'[k] \in WordIndex
    BY DEF TypeOK
  <1> DEFINE U == Working
             V == Working'
             e == [k \in U |-> Adds(payload[k], word[k], c)]
             f == [k \in V |-> Adds(payload'[k], word'[k], c)]
  <1>3. Owed(c) = SumFunction(e)
    BY DEF Owed
  <1>4. Owed(c)' = SumFunction(f)
    BY DEF Owed, Adds
  <1>5. e \in [U -> Int] /\ f \in [V -> Int]
    <2>1. \A k \in Lcores : /\ Adds(payload[k], word[k], c) \in Int
                            /\ Adds(payload'[k], word'[k], c) \in Int
      BY <1>0, <1>2, AddsType
    <2>2. U \subseteq Lcores /\ V \subseteq Lcores
      BY <1>1
    <2> HIDE DEF U, V
    <2>3. QED
      BY <2>1, <2>2
  <1>6. U \ {l} = V \ {l} /\ \A k \in U \ {l} : e[k] = f[k]
    <2>1. U \ {l} = V \ {l}
      BY <1>1 DEF DataAlone
    <2>2. \A k \in U \ {l} : payload'[k] = payload[k] /\ word'[k] = word[k]
      BY <1>1 DEF DataAlone
    <2> HIDE DEF U, V
    <2>3. QED
      BY <2>1, <2>2
  <1>7. /\ Share(l, c) = IF l \in U THEN e[l] ELSE 0
        /\ Share(l, c)' = IF l \in V THEN f[l] ELSE 0
    <2>1. Share(l, c) = IF l \in U THEN e[l] ELSE 0
      BY <1>1 DEF Share
    <2>2. Share(l, c)' = IF l \in V THEN f[l] ELSE 0
      <3>1. Share(l, c)' = IF pc'[l] = "work"
                             THEN Adds(payload'[l], word'[l], c) ELSE 0
        BY DEF Share, Adds
      <3>2. l \in V <=> pc'[l] = "work"
        BY <1>1
      <3> HIDE DEF V
      <3>3. QED
        BY <3>1, <3>2
    <2>3. QED
      BY <2>1, <2>2
  <1>8. IsFiniteSet(U)
    BY FiniteSums
  <1> HIDE DEF U, V, e, f
  <1>9. /\ SumFunction(e) \in Int /\ SumFunction(f) \in Int
        /\ SumFunction(f) - (IF l \in V THEN f[l] ELSE 0)
             = SumFunction(e) - (IF l \in U THEN e[l] ELSE 0)
    BY <1>5, <1>6, <1>8, SumFunctionStep
  <1>10. Share(l, c) \in Int /\ Share(l, c)' \in Int
    BY <1>5, <1>7
  <1>11. QED
    BY <1>3, <1>4, <1>7, <1>9, <1>10

\* When nothing is begun, what is due does not change; when work on payload q is
\* begun, it grows by what q adds.
LEMMA DueStep ==
  ASSUME TypeOK, TypeOK', prog' = prog, NEW q \in SeenPayloads,
         \/ seen' = seen
         \/ seen' = [seen EXCEPT ![q] = @ + 1],
         NEW c, c \in SumCells
  PROVE  /\ Due(c) \in Int /\ Due(c)' \in Int /\ Adds(q, 0, c) \in Int
         /\ seen' = seen => Due(c)' = Due(c)
         /\ seen' = [seen EXCEPT ![q] = @ + 1] => Due(c)' = Due(c) + Adds(q, 0, c)
  <1>0. prog \in Programs
    BY DEF TypeOK
  <1> DEFINE A == [p \in SeenPayloads |-> Adds(p, 0, c)]
             e == [p \in SeenPayloads |-> seen[p] * A[p]]
             f == [p \in SeenPayloads |-> seen'[p] * A[p]]
  <1>1. A \in [SeenPayloads -> Int]
    BY <1>0, AddsType, FiniteSums, ZeroType
  <1>2. Due(c) = SumFunction(e)
    <2>1. e = [p \in SeenPayloads |-> seen[p] * Adds(p, 0, c)]
      OBVIOUS
    <2>2. QED
      BY <2>1 DEF Due
  <1>3. Due(c)' = SumFunction(f)
    <2>1. f = [p \in SeenPayloads |-> seen'[p] * Adds(p, 0, c)]
      OBVIOUS
    <2>2. Due(c)' = SumFunction([p \in SeenPayloads |-> seen'[p] * Adds(p, 0, c)])
      BY DEF Due, Adds
    <2>3. QED
      BY <2>1, <2>2
  <1>4. seen \in [SeenPayloads -> Nat] /\ seen' \in [SeenPayloads -> Nat]
    BY DEF TypeOK
  <1>5. A[q] = Adds(q, 0, c)
    OBVIOUS
  <1> HIDE DEF A
  <1>6. e \in [SeenPayloads -> Int] /\ f \in [SeenPayloads -> Int]
    BY <1>1, <1>4
  <1>7. \A p \in SeenPayloads \ {q} : e[p] = f[p]
    BY <1>4
  <1>8. /\ seen' = [seen EXCEPT ![q] = @ + 1] => f[q] = e[q] + A[q]
        /\ seen' = seen => f[q] = e[q]
    <2>1. seen[q] \in Nat /\ A[q] \in Int
      BY <1>1, <1>4
    <2>2. (seen[q] + 1) * A[q] = seen[q] * A[q] + A[q]
      BY <2>1
    <2>3. QED
      BY <1>4, <2>2
  <1> HIDE DEF e, f
  <1>9. /\ SumFunction(e) \in Int /\ SumFunction(f) \in Int
        /\ SumFunction(f) - f[q] = SumFunction(e) - e[q]
    BY <1>6, <1>7, FiniteSums, SumFunctionStep
  <1>10. e[q] \in Int /\ f[q] \in Int /\ A[q] \in Int
    BY <1>1, <1>6
  <1>11. /\ seen' = seen => SumFunction(f) = SumFunction(e)
         /\ seen' = [seen EXCEPT ![q] = @ + 1]
              => SumFunction(f) = SumFunction(e) + A[q]
    BY <1>8, <1>9, <1>10
  <1>12. QED
    BY <1>2, <1>3, <1>5, <1>9, <1>10, <1>11

\* Initially nothing is due, nothing owed, and the memory is cleared.
LEMMA ExactInitial == Init => ExactInv
  <1> SUFFICES ASSUME Init PROVE ExactInv
    OBVIOUS
  <1>0. /\ TypeOK /\ prog \in Programs
        /\ Working = {} /\ \A c : Before(c) = {}
        /\ host = [c \in Cells |-> 0] /\ seen = [p \in SeenPayloads |-> 0]
    BY CountedInitial DEF Init, ProcessInit, CountedInv, Working, Before
  <1>1. SumExact
    <2> SUFFICES ASSUME NEW c \in SumCells
                 PROVE  wrap(host[c] + Owed(c)) = wrap(Due(c))
      BY DEF SumExact
    <2>1. Owed(c) = 0
      <3> DEFINE e == [l \in Working |-> Adds(payload[l], word[l], c)]
      <3>1. DOMAIN e = {}
        BY <1>0
      <3> HIDE DEF e
      <3>2. SumFunctionOnSet(e, {}) = 0
        BY FS_EmptySet, SumFold
      <3>3. QED
        BY <3>1, <3>2 DEF Owed, SumFunction, e
    <2>2. Due(c) = 0
      <3> DEFINE A == [p \in SeenPayloads |-> Adds(p, 0, c)]
                 e == [p \in SeenPayloads |-> seen[p] * A[p]]
      <3>1. Due(c) = SumFunction(e)
        <4>1. e = [p \in SeenPayloads |-> seen[p] * Adds(p, 0, c)]
          OBVIOUS
        <4>2. QED
          BY <4>1 DEF Due
      <3>2. A \in [SeenPayloads -> Int]
        BY <1>0, AddsType, FiniteSums, ZeroType
      <3> HIDE DEF A
      <3>3. DOMAIN e = SeenPayloads /\ \A p \in SeenPayloads : e[p] = 0
        BY <1>0, <3>2
      <3> HIDE DEF e
      <3>4. QED
        BY <3>1, <3>3, FiniteSums, SumZero DEF SumFunction
    <2>3. host[c] = 0
      BY <1>0, AddsType, FiniteSums, ZeroType DEF Payloads
    <2>4. QED
      BY <2>1, <2>2, <2>3
  <1>2. CopyExact /\ ZeroExact
    <2>1. \A c \in WordIndex : host[c] = 0
      BY <1>0, CellsOfHost
    <2>2. \A c \in WordIndex : Written(c) = {}
      <3>1. \A c, p : Holders(p, c) = {}
        BY <1>0 DEF Holders
      <3>2. \A c : \A p \in SeenPayloads : ~(seen[p] > Cardinality(Holders(p, c)))
        <4>1. \A p \in SeenPayloads : seen[p] = 0
          BY <1>0
        <4>2. \A c, p : Cardinality(Holders(p, c)) = 0
          BY <3>1, FS_EmptySet
        <4>3. QED
          BY <4>1, <4>2
      <3>3. QED
        BY <3>2, WrittenIff
    <2>3. QED
      BY <2>1, <2>2 DEF CopyExact, ZeroExact
  <1>3. ResInv
    BY <1>0 DEF ResInv
  <1>4. CopyInv
    <2>1. \A c, p : Holders(p, c) = {}
      BY <1>0 DEF Holders
    <2>2. QED
      BY <1>0, <2>1, FS_EmptySet DEF CopyInv
  <1>5. QED
    BY <1>1, <1>2, <1>3, <1>4 DEF ExactInv

\* Steps outside the word loops disturb nothing that HostExact speaks of.
LEMMA ExactIdle ==
  ASSUME ExactInv, TypeOK, TypeOK', UNCHANGED <<prog, host, seen>>,
         \A k \in Lcores :
           /\ pc'[k] = "work" <=> pc[k] = "work"
           /\ pc[k] = "work" => /\ payload'[k] = payload[k] /\ word'[k] = word[k]
                                /\ res'[k] = res[k]
  PROVE  ExactInv'
  <1>1. \A c : Before(c)' = Before(c)
    BY DEF Before
  <1>2. Working' = Working /\ SumCells' = SumCells
    BY <1>1 DEF Working, SumCells
  <1>3. \A k \in Working : payload'[k] = payload[k] /\ word'[k] = word[k]
                           /\ res'[k] = res[k]
    BY WorkingIff
  <1>4. SumExact'
    <2> SUFFICES ASSUME NEW c, c \in SumCells
                 PROVE  Owed(c)' = Owed(c) /\ Due(c)' = Due(c)
      BY <1>2 DEF ExactInv, SumExact
    <2>1. Due(c)' = Due(c)
      BY DEF Due, Adds
    <2>2. Owed(c)' = Owed(c)
      <3> DEFINE e == [k \in Working |-> Adds(payload[k], word[k], c)]
                 f == [k \in Working |-> Adds(payload'[k], word'[k], c)]
      <3>1. Owed(c)' = SumFunction(f)
        BY <1>2 DEF Owed, Adds
      <3>2. f = e
        BY <1>3
      <3>3. QED
        BY <3>1, <3>2 DEF Owed
    <2>3. QED
      BY <2>1, <2>2
  <1>5. \A c, p : Holders(p, c)' = Holders(p, c)
    BY <1>1 DEF Holders, Before
  <1>6. \A c : Written(c)' = Written(c)
    <2>1. \A c, p : p \in Written(c)' <=> /\ p \in SeenPayloads
                                          /\ seen[p] > Cardinality(Holders(p, c)')
      BY DEF Written, Holders
    <2>2. QED
      BY <1>5, <2>1, WrittenIff
  <1>7. CopyExact' /\ ZeroExact'
    BY <1>6 DEF ExactInv, CopyExact, ZeroExact, Copying
  <1>8. ResInv'
    BY <1>2, <1>3 DEF ExactInv, ResInv
  <1>9. CopyInv'
    BY <1>2, <1>3, <1>5 DEF ExactInv, CopyInv, Copying
  <1>10. QED
    BY <1>4, <1>7, <1>8, <1>9 DEF ExactInv

\* Work on a packet begins: what its words add is due and owed.
LEMMA ExactBegin ==
  ASSUME NEW l \in Lcores, CountedInv, CountedInv', ExactInv, begin_packet(l)
  PROVE  ExactInv'
  <1>0. PICK m \in Packets : /\ payload' = [payload EXCEPT ![l] = m.payload]
                             /\ seen' = [seen EXCEPT ![m.payload] = @ + 1]
    BY DEF begin_packet
  <1> DEFINE q == m.payload
  <1>1. q \in SeenPayloads /\ q \in Payloads
    BY FiniteSums DEF SeenPayloads
  <1> HIDE DEF q
  <1>2. /\ pc \in [Lcores -> PCs] /\ payload \in [Lcores -> Payloads]
        /\ word \in [Lcores -> WordIndex] /\ res \in [Lcores -> T]
        /\ seen \in [SeenPayloads -> Nat] /\ host \in [Cells -> T]
        /\ prog \in Programs /\ TypeOK /\ TypeOK'
    BY DEF CountedInv, TypeOK
  <1>3. /\ payload' = [payload EXCEPT ![l] = q] /\ seen' = [seen EXCEPT ![q] = @ + 1]
        /\ word' = [word EXCEPT ![l] = 0] /\ res' = [res EXCEPT ![l] = 0]
        /\ pc' = [pc EXCEPT ![l] = "work"] /\ pc[l] = "gate"
        /\ UNCHANGED <<prog, host>>
    BY <1>0 DEF begin_packet, Goto, At, hostVars, q
  <1>4. /\ pc'[l] = "work" /\ payload'[l] = q /\ word'[l] = 0 /\ res'[l] = 0
        /\ DataAlone(l)
    BY <1>2, <1>3 DEF DataAlone
  <1>5. SumExact'
    <2> SUFFICES ASSUME NEW c, c \in SumCells
                 PROVE  wrap(host[c] + Owed(c)') = wrap(Due(c)')
      BY <1>3 DEF SumExact, SumCells
    <2> DEFINE A == Adds(q, 0, c)
    <2>1. /\ Owed(c) \in Int /\ Owed(c)' \in Int
          /\ Owed(c)' - Share(l, c)' = Owed(c) - Share(l, c)
      BY <1>2, <1>3, <1>4, OwedStep
    <2>2. Share(l, c) = 0 /\ Share(l, c)' = A
      <3>1. Share(l, c) = 0
        BY <1>3 DEF Share
      <3>2. Share(l, c)' = IF pc'[l] = "work"
                             THEN Adds(payload'[l], word'[l], c) ELSE 0
        BY <1>3 DEF Share, Adds
      <3>3. QED
        BY <1>4, <3>1, <3>2
    <2>3. Due(c) \in Int /\ A \in Int /\ Due(c)' = Due(c) + A
      BY <1>1, <1>2, <1>3, DueStep
    <2>4. host[c] \in Int
      <3>1. c \in Cells
        BY <1>1, <1>2, AddsType, ZeroType
      <3>2. QED
        BY <1>2, <3>1 DEF T
    <2> HIDE DEF A
    <2>5. host[c] + Owed(c)' = (host[c] + Owed(c)) + A
      BY <2>1, <2>2, <2>3, <2>4
    <2>6. wrap(host[c] + Owed(c)) = wrap(Due(c))
      BY DEF ExactInv, SumExact
    <2> DEFINE x == host[c] + Owed(c)
               y == Due(c)
    <2>7. wrap(x + A) = wrap(y + A)
      <3>1. x \in Int /\ y \in Int /\ A \in Int /\ wrap(x) = wrap(y)
        BY <2>1, <2>3, <2>4, <2>6
      <3> HIDE DEF x, y
      <3>2. QED
        BY <3>1, WrapSame
    <2>8. QED
      BY <2>3, <2>5, <2>7
  <1>6. ASSUME NEW c \in WordIndex
        PROVE  /\ Holders(q, c)' = Holders(q, c) \cup {l} /\ l \notin Holders(q, c)
               /\ \A p : p # q => Holders(p, c)' = Holders(p, c)
    <2>1. l \notin Before(c) /\ Before(c)' = Before(c) \cup {l}
      <3>1. 0 <= c
        BY DEF WordIndex
      <3>2. QED
        BY <1>2, <1>3, <1>4, <3>1 DEF Before
    <2>2. \A k \in Before(c) : payload'[k] = payload[k]
      BY <1>2, <1>3, <2>1 DEF Before
    <2>3. QED
      BY <1>4, <2>1, <2>2 DEF Holders
  <1>7. ASSUME NEW c \in WordIndex, NEW p \in SeenPayloads
        PROVE  /\ Cardinality(Holders(p, c)) \in Nat
               /\ Cardinality(Holders(p, c)') \in Nat
               /\ seen[p] \in Nat /\ seen'[p] \in Nat
               /\ seen'[p] - Cardinality(Holders(p, c)')
                    = seen[p] - Cardinality(Holders(p, c))
    <2>1. IsFiniteSet(Holders(p, c))
      BY FiniteSums, FS_Subset DEF Holders
    <2>2. Cardinality(Holders(p, c)) \in Nat
      BY <2>1, FS_CardinalityType
    <2>3. seen[p] \in Nat /\ seen'[p] = IF p = q THEN seen[p] + 1 ELSE seen[p]
      BY <1>1, <1>2, <1>3
    <2>4. Cardinality(Holders(p, c)')
            = IF p = q THEN Cardinality(Holders(p, c)) + 1
                       ELSE Cardinality(Holders(p, c))
      BY <1>6, <2>1, FS_AddElement
    <2>5. QED
      BY <2>2, <2>3, <2>4
  <1>8. \A c \in WordIndex : Written(c)' = Written(c)
    <2>1. \A c \in WordIndex : \A p \in SeenPayloads :
            seen'[p] > Cardinality(Holders(p, c)') <=> seen[p] > Cardinality(Holders(p, c))
      <3> SUFFICES ASSUME NEW c \in WordIndex, NEW p \in SeenPayloads
                   PROVE  seen'[p] > Cardinality(Holders(p, c)')
                            <=> seen[p] > Cardinality(Holders(p, c))
        OBVIOUS
      <3>1. QED
        BY <1>7
    <2>2. \A c, p : p \in Written(c)' <=> /\ p \in SeenPayloads
                                          /\ seen'[p] > Cardinality(Holders(p, c)')
      BY DEF Written, Holders
    <2>3. ASSUME NEW c \in WordIndex PROVE Written(c)' = Written(c)
      <3>1. \A p : p \in Written(c)' <=> p \in Written(c)
        BY <2>1, <2>2, WrittenIff
      <3>2. QED
        BY <3>1
    <2>4. QED
      BY <2>3
  <1>9. CopyExact' /\ ZeroExact'
    BY <1>3, <1>8 DEF ExactInv, CopyExact, ZeroExact, Copying
  <1>10. /\ Working' = Working \cup {l}
         /\ \A k \in Working : /\ k # l /\ payload'[k] = payload[k]
                               /\ word'[k] = word[k] /\ res'[k] = res[k]
    <2>1. Working' = {k \in Lcores : pc'[k] = "work"}
      BY <1>2 DEF Working, Before, TypeOK, WordIndex
    <2>2. QED
      BY <1>2, <1>3, <1>4, <2>1, WorkingIff
  <1>11. ResInv'
    <2>1. res'[l] = wrap(SumFunctionOnSet(payload'[l], 0 .. word'[l] - 1))
      <3>1. 0 .. word'[l] - 1 = {}
        BY <1>4
      <3>2. SumFunctionOnSet(payload'[l], {}) = 0
        BY FS_EmptySet, SumFold
      <3>3. QED
        BY <1>4, <3>1, <3>2, WrapId, ZeroType
    <2>2. QED
      BY <1>3, <1>10, <2>1 DEF ExactInv, ResInv
  <1>12. CopyInv'
    <2> SUFFICES ASSUME Copying
                 PROVE  /\ \A k \in Working' : payload'[k] \in SeenPayloads
                        /\ \A c \in WordIndex : \A p \in SeenPayloads :
                             seen'[p] >= Cardinality(Holders(p, c)')
      BY <1>3 DEF CopyInv, Copying
    <2>1. \A k \in Working' : payload'[k] \in SeenPayloads
      BY <1>1, <1>4, <1>10 DEF ExactInv, CopyInv
    <2>2. ASSUME NEW c \in WordIndex, NEW p \in SeenPayloads
          PROVE  seen'[p] >= Cardinality(Holders(p, c)')
      <3>1. seen[p] >= Cardinality(Holders(p, c))
        BY DEF ExactInv, CopyInv
      <3>2. QED
        BY <1>7, <3>1
    <2>3. QED
      BY <2>1, <2>2
  <1>13. QED
    BY <1>5, <1>9, <1>11, <1>12 DEF ExactInv

\* The end of one iteration of lcore l's word loop.
WordEffect(l) ==
  /\ pc[l] = "work"
  /\ UNCHANGED <<prog, seen>>
  /\ DataAlone(l)
  /\ LastWord(l) => pc'[l] = "gate" /\ word'[l] = word[l]
  /\ ~LastWord(l) => pc'[l] = "work" /\ word'[l] = word[l] + 1

\* Every iteration of a word loop ends so.
LEMMA WordEnds ==
  ASSUME NEW l \in Lcores, NEW kernel, TypeOK, InLoop(l, kernel), NextWord(l),
         \A k \in Lcores \ {l} : payload'[k] = payload[k] /\ res'[k] = res[k]
  PROVE  WordEffect(l)
  <1>1. pc \in [Lcores -> PCs] /\ word \in [Lcores -> WordIndex]
    BY DEF TypeOK
  <1>2. pc[l] = "work" /\ UNCHANGED <<prog, seen>>
    BY DEF InLoop, At, NextWord
  <1>3. CASE LastWord(l)
    <2>1. pc' = [pc EXCEPT ![l] = "gate"] /\ word' = word
      BY <1>3 DEF NextWord, Goto
    <2>2. QED
      BY <1>1, <1>2, <1>3, <2>1 DEF WordEffect, DataAlone
  <1>4. CASE ~LastWord(l)
    <2>1. pc' = pc /\ word' = [word EXCEPT ![l] = @ + 1]
      BY <1>4 DEF NextWord
    <2>2. QED
      BY <1>1, <1>2, <1>4, <2>1 DEF WordEffect, DataAlone
  <1>5. QED
    BY <1>3, <1>4

\* An iteration that adds d to cell c, and by that owes d less, keeps the sum.
LEMMA CellStep ==
  ASSUME NEW l \in Lcores, TypeOK, TypeOK', SumExact, WordEffect(l),
         NEW c, c \in SumCells, NEW d \in Int,
         Share(l, c)' = Share(l, c) - d, host'[c] = wrap(host[c] + d)
  PROVE  wrap(host'[c] + Owed(c)') = wrap(Due(c)')
  <1>1. prog' = prog /\ seen' = seen /\ DataAlone(l) /\ prog \in Programs
    BY DEF WordEffect, TypeOK
  <1>2. /\ Owed(c) \in Int /\ Owed(c)' \in Int
        /\ Share(l, c) \in Int /\ Share(l, c)' \in Int
        /\ Owed(c)' - Share(l, c)' = Owed(c) - Share(l, c)
    BY <1>1, OwedStep
  <1>3. Due(c)' = Due(c)
    BY <1>1 DEF Due, Adds
  <1>4. host[c] \in Int
    <2>1. c \in Cells
      BY <1>1, AddsType, ZeroType
    <2>2. QED
      BY <2>1 DEF T, TypeOK
  <1>5. wrap(host[c] + Owed(c)) = wrap(Due(c))
    BY DEF SumExact
  <1> DEFINE h == host[c]
             o == Owed(c)
             n == Owed(c)'
             s == Share(l, c)
             t == Share(l, c)'
  <1>6. /\ h \in Int /\ o \in Int /\ n \in Int /\ s \in Int /\ t \in Int
        /\ t = s - d /\ n - t = o - s
    BY <1>2, <1>4
  <1>7. (h + d) + n = h + o /\ h + d \in Int
    <2> HIDE DEF h, o, n, s, t
    <2> QED
      BY <1>6
  <1>8. wrap(wrap(h + d) + n) = wrap((h + d) + n)
    <2> HIDE DEF h, n
    <2> QED
      BY <1>6, <1>7, WrapAdd
  <1>9. QED
    BY <1>3, <1>5, <1>7, <1>8

\* What lcore l owes to cell c before and after the iteration.
LEMMA ShareOfWord ==
  ASSUME NEW l, WordEffect(l), NEW c
  PROVE  /\ Share(l, c) = Adds(payload[l], word[l], c)
         /\ LastWord(l) => Share(l, c)' = 0
         /\ ~LastWord(l) => Share(l, c)' = Adds(payload'[l], word[l] + 1, c)
  <1>1. Share(l, c) = Adds(payload[l], word[l], c)
    BY DEF Share, WordEffect
  <1>2. Share(l, c)' = IF pc'[l] = "work"
                         THEN Adds(payload'[l], word'[l], c) ELSE 0
    BY DEF Share, Adds, WordEffect
  <1>3. QED
    BY <1>1, <1>2 DEF WordEffect

\* A kernel that adds to the shared memory only has its sums to keep.
LEMMA SummingOnly ==
  ASSUME prog' = prog, prog.kernel \in {"reduce", "histogram"}, SumExact'
  PROVE  ExactInv'
  BY DEF ExactInv, CopyExact, ZeroExact, ResInv, CopyInv, Copying

\* reduce: word k of the packet goes to cell k.
LEMMA ExactReduce ==
  ASSUME NEW l \in Lcores, TypeOK, TypeOK', ExactInv, reduce_word(l)
  PROVE  ExactInv'
  <1>1. /\ prog.kernel = "reduce" /\ payload' = payload /\ res' = res
        /\ InLoop(l, "reduce") /\ EndWord(l)
        /\ host' = [host EXCEPT ![word[l]] = wrap(@ + payload[l][word[l]])]
    BY DEF reduce_word, InLoop
  <1>2. WordEffect(l)
    BY <1>1, WordEnds DEF EndWord
  <1>3. /\ host \in [Cells -> T] /\ payload[l] \in Payloads /\ word[l] \in WordIndex
        /\ SumCells = WordIndex
    BY <1>1 DEF TypeOK, SumCells
  <1> DEFINE p == payload[l]
             w == word[l]
  <1>4. SumExact'
    <2> SUFFICES ASSUME NEW c, c \in SumCells
                 PROVE  wrap(host'[c] + Owed(c)') = wrap(Due(c)')
      BY <1>2 DEF SumExact, SumCells, WordEffect
    <2>1. p \in Payloads /\ w \in WordIndex /\ c \in WordIndex
      BY <1>3
    <2>2. p[c] \in Int
      BY <2>1 DEF Payloads, T
    <2> DEFINE d == IF c = w THEN p[c] ELSE 0
    <2>3. Share(l, c)' = Share(l, c) - d
      <3>1. \A from : Adds(p, from, c) = IF from <= c THEN p[c] ELSE 0
        BY <1>1 DEF Adds
      <3>2. /\ Share(l, c) = IF w <= c THEN p[c] ELSE 0
            /\ LastWord(l) => Share(l, c)' = 0
            /\ ~LastWord(l) => Share(l, c)' = IF w + 1 <= c THEN p[c] ELSE 0
        BY <1>1, <1>2, <3>1, ShareOfWord
      <3>3. c \in Int /\ w \in Int /\ (LastWord(l) => c <= w)
        BY <2>1 DEF WordIndex, LastWord
      <3> HIDE DEF p, w
      <3>4. QED
        BY <2>2, <3>2, <3>3
    <2>4. host'[c] = wrap(host[c] + d)
      <3>1. c \in Cells /\ host[c] \in T /\ host[c] \in Int
        BY <1>3, <2>1, CellsOfHost DEF T
      <3>2. CASE c = w
        BY <1>1, <1>3, <3>1, <3>2
      <3>3. CASE c # w
        <4>1. host'[c] = host[c] /\ host[c] + d = host[c]
          BY <1>1, <1>3, <3>1, <3>3
        <4>2. QED
          BY <3>1, <4>1, WrapId
      <3>4. QED
        BY <3>2, <3>3
    <2>5. d \in Int
      BY <2>2
    <2> HIDE DEF d
    <2>6. QED
      BY <1>2, <2>3, <2>4, <2>5, CellStep DEF ExactInv
  <1>5. QED
    BY <1>1, <1>2, <1>4, SummingOnly DEF WordEffect

\* How many words of payload p, from word `from' on, equal c.
Equal(p, from, c) == Cardinality({k \in WordIndex : k >= from /\ p[k] = c})

\* The words from w on that equal c: one less behind w if word w is one.
LEMMA CountWords ==
  ASSUME NEW p \in Payloads, NEW w \in WordIndex, NEW c
  PROVE  /\ Equal(p, w, c) \in Nat
         /\ Equal(p, w + 1, c) = Equal(p, w, c) - IF p[w] = c THEN 1 ELSE 0
         /\ w = DATA_NR - 1 => Equal(p, w + 1, c) = 0
  <1> DEFINE A == {k \in WordIndex : k >= w /\ p[k] = c}
             B == {k \in WordIndex : k >= w + 1 /\ p[k] = c}
  <1>0. Equal(p, w, c) = Cardinality(A) /\ Equal(p, w + 1, c) = Cardinality(B)
    BY DEF Equal
  <1>1. B = A \ {w} /\ (w \in A <=> p[w] = c)
    BY DEF WordIndex
  <1>2. IsFiniteSet(A)
    BY FiniteSums, FS_Subset
  <1>3. w = DATA_NR - 1 => B = {}
    BY DEF WordIndex
  <1> HIDE DEF A, B
  <1>4. Cardinality(A) \in Nat
    BY <1>2, FS_CardinalityType
  <1>5. Cardinality(B) = IF w \in A THEN Cardinality(A) - 1 ELSE Cardinality(A)
    BY <1>1, <1>2, FS_RemoveElement
  <1>6. Cardinality(B) = Cardinality(A) - IF p[w] = c THEN 1 ELSE 0
    BY <1>1, <1>4, <1>5
  <1>7. w = DATA_NR - 1 => Cardinality(B) = 0
    BY <1>3, FS_EmptySet
  <1>8. QED
    BY <1>0, <1>4, <1>6, <1>7

\* histogram: each word counts one in the bin it names, if there is one.
LEMMA ExactHistogram ==
  ASSUME NEW l \in Lcores, TypeOK, TypeOK', ExactInv,
         InLoop(l, "histogram"), NextWord(l), UNCHANGED <<payload, res>>,
         host' = IF payload[l][word[l]] \in 0 .. HISTOG_NR - 1
                   THEN [host EXCEPT ![payload[l][word[l]]] = wrap(@ + 1)]
                   ELSE host
  PROVE  ExactInv'
  <1> DEFINE p == payload[l]
             w == word[l]
  <1>1. /\ prog.kernel = "histogram" /\ payload' = payload /\ res' = res
        /\ host' = IF p[w] \in 0 .. HISTOG_NR - 1
                     THEN [host EXCEPT ![p[w]] = wrap(@ + 1)] ELSE host
    BY DEF InLoop
  <1>2. WordEffect(l)
    BY <1>1, WordEnds
  <1>3. /\ host \in [Cells -> T] /\ p \in Payloads /\ w \in WordIndex
        /\ SumCells = 0 .. HISTOG_NR - 1 /\ prog \in Programs
    BY <1>1 DEF TypeOK, SumCells
  <1>4. SumExact'
    <2> SUFFICES ASSUME NEW c, c \in SumCells
                 PROVE  wrap(host'[c] + Owed(c)') = wrap(Due(c)')
      BY <1>2 DEF SumExact, SumCells, WordEffect
    <2>1. c \in Cells /\ c \in 0 .. HISTOG_NR - 1
      BY <1>3, AddsType
    <2> DEFINE d == IF p[w] = c THEN 1 ELSE 0
    <2>3. Share(l, c)' = Share(l, c) - d
      <3>1. \A from : Adds(p, from, c) = Equal(p, from, c)
        BY <1>1 DEF Adds, Equal
      <3>2. /\ Share(l, c) = Equal(p, w, c)
            /\ LastWord(l) => Share(l, c)' = 0
            /\ ~LastWord(l) => Share(l, c)' = Equal(p, w + 1, c)
        BY <1>1, <1>2, <3>1, ShareOfWord
      <3>3. /\ Equal(p, w + 1, c) = Equal(p, w, c) - d
            /\ w = DATA_NR - 1 => Equal(p, w + 1, c) = 0
        <4> HIDE DEF p, w
        <4> QED
          BY <1>3, CountWords
      <3>4. LastWord(l) => w = DATA_NR - 1
        BY DEF LastWord
      <3>5. QED
        <4> HIDE DEF p, w, d
        <4> QED
          BY <3>2, <3>3, <3>4
    <2>4. host'[c] = wrap(host[c] + d)
      <3>1. host[c] \in T /\ host[c] \in Int
        BY <1>3, <2>1 DEF T
      <3>2. CASE c = p[w]
        BY <1>1, <1>3, <2>1, <3>1, <3>2
      <3>3. CASE c # p[w]
        <4>1. host'[c] = host[c] /\ host[c] + d = host[c]
          BY <1>1, <1>3, <2>1, <3>1, <3>3
        <4>2. QED
          BY <3>1, <4>1, WrapId
      <3>4. QED
        BY <3>2, <3>3
    <2>5. d \in Int
      OBVIOUS
    <2> HIDE DEF d
    <2>6. QED
      BY <1>2, <2>3, <2>4, <2>5, CellStep DEF ExactInv
  <1>5. QED
    BY <1>1, <1>2, <1>4, SummingOnly DEF WordEffect

\* The sum up to word w is the sum before it and word w.
LEMMA PrefixSum ==
  ASSUME NEW p \in Payloads, NEW w \in WordIndex
  PROVE  /\ SumFunctionOnSet(p, 0 .. w - 1) \in Int
         /\ p[w] \in Int
         /\ SumFunctionOnSet(p, 0 .. w) = SumFunctionOnSet(p, 0 .. w - 1) + p[w]
         /\ w = DATA_NR - 1 => SumFunctionOnSet(p, 0 .. w) = WordSum(p)
  <1> DEFINE A == 0 .. w - 1
             B == 0 .. w
  <1>1. A \subseteq WordIndex /\ B \subseteq WordIndex /\ A = B \ {w} /\ w \in B
    BY DEF WordIndex
  <1>2. \A k \in WordIndex : p[k] \in Int
    BY DEF Payloads, T
  <1>3. w = DATA_NR - 1 => B = WordIndex
    BY DEF WordIndex
  <1> HIDE DEF A, B
  <1>4. IsFiniteSet(A) /\ IsFiniteSet(B)
    BY <1>1, FiniteSums, FS_Subset
  <1>5. SumFunctionOnSet(p, A) \in Int
    BY <1>1, <1>2, <1>4, SumType
  <1>6. SumFunctionOnSet(p, B) = p[w] + SumFunctionOnSet(p, A)
    BY <1>1, <1>2, <1>4, SumRemove
  <1>7. p[w] \in Int
    BY <1>2
  <1>8. SumFunctionOnSet(p, B) = SumFunctionOnSet(p, A) + p[w]
    BY <1>5, <1>6, <1>7
  <1>9. QED
    BY <1>3, <1>5, <1>7, <1>8 DEF A, B, WordSum

\* aggregate: the words are summed up locally and go to cell 0 after the loop.
LEMMA ExactAggregate ==
  ASSUME NEW l \in Lcores, TypeOK, TypeOK', ExactInv, aggregate_word(l)
  PROVE  ExactInv'
  <1> DEFINE p == payload[l]
             w == word[l]
             S == SumFunctionOnSet(p, 0 .. w)
  <1>1. /\ prog.kernel = "aggregate" /\ payload' = payload
        /\ InLoop(l, "aggregate") /\ EndWord(l)
        /\ res' = [res EXCEPT ![l] = wrap(@ + p[w])]
        /\ LastWord(l) => host' = [host EXCEPT ![0] = wrap(@ + res'[l])]
        /\ ~LastWord(l) => host' = host
    BY DEF aggregate_word, InLoop
  <1>0. /\ host \in [Cells -> T] /\ p \in Payloads /\ w \in WordIndex
        /\ res \in [Lcores -> T] /\ word \in [Lcores -> WordIndex]
        /\ payload \in [Lcores -> Payloads] /\ prog \in Programs
        /\ SumCells = {0}
    BY <1>1 DEF TypeOK, SumCells
  <1>2. WordEffect(l)
    BY <1>0, <1>1, WordEnds DEF EndWord
  <1>3. l \in Working
    BY <1>2, WorkingIff DEF WordEffect
  <1>4. S \in Int /\ res'[l] = wrap(S)
    <2> DEFINE P == SumFunctionOnSet(p, 0 .. w - 1)
    <2>1. P \in Int /\ p[w] \in Int /\ S = P + p[w]
      <3> HIDE DEF p, w
      <3> QED
        BY <1>0, PrefixSum
    <2>2. res[l] = wrap(P)
      BY <1>1, <1>3 DEF ExactInv, ResInv
    <2>3. res'[l] = wrap(wrap(P) + p[w])
      BY <1>0, <1>1, <2>2
    <2>4. wrap(wrap(P) + p[w]) = wrap(P + p[w])
      <3> HIDE DEF P, p, w
      <3> QED
        BY <2>1, WrapAdd
    <2> HIDE DEF P, p, w, S
    <2>5. QED
      BY <2>1, <2>3, <2>4
  <1>5. SumExact'
    <2> SUFFICES ASSUME NEW c, c \in SumCells
                 PROVE  wrap(host'[c] + Owed(c)') = wrap(Due(c)')
      BY <1>2 DEF SumExact, SumCells, WordEffect
    <2>0. c = 0 /\ c \in Cells /\ host[c] \in T /\ host[c] \in Int
      BY <1>0, ZeroType, CellsOfHost DEF T
    <2>1. \A from : Adds(p, from, c) = WordSum(p)
      BY <1>1 DEF Adds
    <2>2. /\ Share(l, c) = WordSum(p)
          /\ LastWord(l) => Share(l, c)' = 0
          /\ ~LastWord(l) => Share(l, c)' = WordSum(p)
      BY <1>1, <1>2, <2>1, ShareOfWord
    <2>3. WordSum(p) \in Int
      <3> HIDE DEF p
      <3>1. \A k \in WordIndex : p[k] \in Int
        BY <1>0 DEF Payloads, T
      <3>2. QED
        BY <3>1, FiniteSums, SumType DEF WordSum
    <2>4. CASE LastWord(l)
      <3>1. S = WordSum(p)
        <4>1. w = DATA_NR - 1
          BY <2>4 DEF LastWord
        <4> HIDE DEF p, w
        <4>2. QED
          BY <1>0, <4>1, PrefixSum
      <3>2. host'[c] = wrap(host[c] + wrap(S))
        BY <1>0, <1>1, <1>4, <2>0, <2>4
      <3>3. wrap(host[c] + wrap(S)) = wrap(host[c] + S)
        <4> DEFINE h == host[c]
        <4>0. h \in Int /\ wrap(S) \in Int
          BY <1>4, <2>0, WrapType DEF T
        <4> HIDE DEF h, S
        <4>1. h + wrap(S) = wrap(S) + h /\ h + S = S + h
          BY <1>4, <4>0
        <4>2. wrap(wrap(S) + h) = wrap(S + h)
          BY <1>4, <4>0, WrapAdd
        <4>3. QED
          BY <4>1, <4>2 DEF h
      <3>4. Share(l, c)' = Share(l, c) - S
        BY <2>2, <2>3, <2>4, <3>1
      <3> HIDE DEF S
      <3>5. QED
        BY <1>2, <1>4, <3>2, <3>3, <3>4, CellStep DEF ExactInv
    <2>5. CASE ~LastWord(l)
      <3>1. Share(l, c)' = Share(l, c) - 0
        BY <2>2, <2>3, <2>5
      <3>2. host'[c] = wrap(host[c] + 0)
        <4>1. host'[c] = host[c] /\ host[c] + 0 = host[c]
          BY <1>1, <2>0, <2>5
        <4>2. QED
          BY <2>0, <4>1, WrapId
      <3>3. QED
        BY <1>2, <3>1, <3>2, CellStep DEF ExactInv
    <2>6. QED
      BY <2>4, <2>5
  <1>6. ResInv'
    <2> SUFFICES ASSUME NEW k \in Working'
                 PROVE  res'[k] = wrap(SumFunctionOnSet(payload'[k], 0 .. word'[k] - 1))
      BY DEF ResInv
    <2>1. k \in Lcores /\ pc'[k] = "work"
      BY DEF Working, Before
    <2>2. CASE k = l
      <3>1. word'[l] = w + 1
        BY <1>2, <2>1, <2>2 DEF WordEffect
      <3>2. word'[l] - 1 = w
        BY <1>0, <3>1 DEF WordIndex
      <3>3. QED
        BY <1>1, <1>4, <2>2, <3>2
    <2>3. CASE k # l
      <3>1. /\ pc[k] = "work" /\ word'[k] = word[k] /\ res'[k] = res[k]
            /\ payload'[k] = payload[k]
        BY <1>2, <2>1, <2>3 DEF WordEffect, DataAlone
      <3>2. k \in Working
        BY <2>1, <3>1, WorkingIff
      <3>3. QED
        BY <1>1, <3>1, <3>2 DEF ExactInv, ResInv
    <2>4. QED
      BY <2>2, <2>3
  <1>7. QED
    BY <1>1, <1>2, <1>5, <1>6
       DEF ExactInv, CopyExact, ZeroExact, CopyInv, Copying, WordEffect

\* copy_to_host and filter: word k of the packet is written to cell k.
LEMMA ExactCopy ==
  ASSUME NEW l \in Lcores, TypeOK, TypeOK', ExactInv,
         copy_to_host_word(l) \/ filter_word(l)
  PROVE  ExactInv'
  <1> DEFINE p == payload[l]
             w == word[l]
  <1>1. /\ Copying /\ payload' = payload /\ res' = res /\ EndWord(l)
        /\ InLoop(l, prog.kernel)
        /\ host' = [host EXCEPT ![w] = p[w]]
    BY DEF copy_to_host_word, filter_word, InLoop, Copying
  <1>2. WordEffect(l)
    BY <1>1, WordEnds DEF EndWord
  <1>3. /\ host \in [Cells -> T] /\ w \in WordIndex /\ w \in Cells
        /\ word \in [Lcores -> WordIndex] /\ seen \in [SeenPayloads -> Nat]
        /\ prog' = prog /\ seen' = seen
    BY <1>2, CellsOfHost DEF TypeOK, WordEffect
  <1>4. l \in Working /\ Working' \subseteq Working
    <2>1. \A k \in Lcores : pc'[k] = "work" => pc[k] = "work"
      BY <1>2 DEF WordEffect, DataAlone
    <2>2. QED
      BY <1>2, <2>1, WorkingIff DEF WordEffect, Working, Before
  <1>5. p \in SeenPayloads
    BY <1>1, <1>4 DEF ExactInv, CopyInv
  <1>6. ASSUME NEW c \in WordIndex, NEW q
        PROVE  /\ c # w => Holders(q, c)' = Holders(q, c)
               /\ c = w => Holders(q, c)' = Holders(q, c) \ {l}
    <2>1. /\ c # w => Before(c)' = Before(c)
          /\ c = w => Before(c)' = Before(c) \ {l}
      <3>0. c \in Int /\ w \in Int /\ (LastWord(l) => c <= w)
        BY <1>3 DEF WordIndex, LastWord
      <3>1. \A k \in Lcores \ {l} : pc'[k] = pc[k] /\ word'[k] = word[k]
        BY <1>2 DEF WordEffect, DataAlone
      <3>2. /\ LastWord(l) => pc'[l] = "gate"
            /\ ~LastWord(l) => pc'[l] = "work" /\ word'[l] = w + 1
            /\ pc[l] = "work"
        BY <1>2 DEF WordEffect
      <3>3. ASSUME c # w PROVE Before(c)' = Before(c)
        <4>1. (pc'[l] = "work" /\ word'[l] <= c) <=> (pc[l] = "work" /\ w <= c)
          BY <3>0, <3>2, <3>3
        <4>2. QED
          BY <3>1, <4>1 DEF Before
      <3>4. ASSUME c = w PROVE Before(c)' = Before(c) \ {l}
        <4>1. ~(pc'[l] = "work" /\ word'[l] <= c)
          BY <3>0, <3>2, <3>4
        <4>2. \A k : k \in Before(c)' <=> k \in Before(c) \ {l}
          BY <3>1, <4>1 DEF Before
        <4>3. QED
          BY <4>2
      <3>5. QED
        BY <3>3, <3>4
    <2>2. QED
      BY <1>1, <2>1 DEF Holders
  <1>7. ASSUME NEW c \in WordIndex, NEW q
        PROVE  /\ Cardinality(Holders(q, c)) \in Nat /\ Cardinality(Holders(q, c)') \in Nat
               /\ Cardinality(Holders(q, c)') <= Cardinality(Holders(q, c))
               /\ c = w /\ q = p => Cardinality(Holders(q, c)') < Cardinality(Holders(q, c))
    <2>1. IsFiniteSet(Holders(q, c))
      BY FiniteSums, FS_Subset DEF Holders
    <2>2. Cardinality(Holders(q, c)) \in Nat
      BY <2>1, FS_CardinalityType
    <2>3. CASE c # w
      BY <1>6, <2>2, <2>3
    <2>4. CASE c = w
      <3>1. Holders(q, c)' = Holders(q, c) \ {l}
        BY <1>6, <2>4
      <3>2. Cardinality(Holders(q, c)') = IF l \in Holders(q, c)
              THEN Cardinality(Holders(q, c)) - 1 ELSE Cardinality(Holders(q, c))
        BY <2>1, <3>1, FS_RemoveElement
      <3>3. IsFiniteSet(Holders(q, c)')
        BY <2>1, <3>1, FS_RemoveElement
      <3>4. Cardinality(Holders(q, c)') \in Nat
        BY <3>3, FS_CardinalityType
      <3>5. q = p => l \in Holders(q, c)
        BY <1>2, <1>3, <2>4 DEF Holders, Before, WordEffect, WordIndex
      <3>6. QED
        BY <2>2, <3>2, <3>4, <3>5
    <2>5. QED
      BY <2>3, <2>4
  <1>8. \A c, q : q \in Written(c)' <=> /\ q \in SeenPayloads
                                        /\ seen[q] > Cardinality(Holders(q, c)')
    BY <1>3 DEF Written, Holders
  <1>9. CopyExact'
    <2> SUFFICES ASSUME NEW c \in WordIndex
                 PROVE  IF Written(c)' = {} THEN host'[c] = 0
                          ELSE host'[c] \in {q[c] : q \in Written(c)'}
      BY DEF CopyExact
    <2>1. CASE c # w
      <3>1. \A q : q \in Written(c)' <=> q \in Written(c)
        BY <1>6, <1>8, <2>1, WrittenIff
      <3>2. Written(c)' = Written(c)
        BY <3>1
      <3>3. host'[c] = host[c]
        BY <1>1, <1>3, <2>1
      <3>4. QED
        BY <1>1, <3>2, <3>3 DEF ExactInv, CopyExact
    <2>2. CASE c = w
      <3> SUFFICES ASSUME NEW q \in SeenPayloads, q = p
                   PROVE  q \in Written(c)' /\ host'[c] = q[c]
        BY <1>5
      <3>1. seen[q] \in Nat /\ seen[q] >= Cardinality(Holders(q, c))
        BY <1>1, <1>3 DEF ExactInv, CopyInv
      <3>2. seen[q] > Cardinality(Holders(q, c)')
        BY <1>7, <2>2, <3>1
      <3>3. q \in Written(c)'
        BY <1>8, <3>2
      <3>4. host'[c] = q[c]
        BY <1>1, <1>3, <2>2
      <3>5. QED
        BY <3>3, <3>4
    <2>3. QED
      BY <2>1, <2>2
  <1>10. CopyInv'
    <2>1. \A k \in Working' : payload'[k] \in SeenPayloads
      BY <1>1, <1>4 DEF ExactInv, CopyInv
    <2>2. ASSUME NEW c \in WordIndex, NEW q \in SeenPayloads
          PROVE  seen'[q] >= Cardinality(Holders(q, c)')
      <3>1. seen[q] \in Nat /\ seen[q] >= Cardinality(Holders(q, c))
        BY <1>1, <1>3 DEF ExactInv, CopyInv
      <3>2. QED
        BY <1>3, <1>7, <3>1
    <2>3. QED
      BY <2>1, <2>2 DEF CopyInv
  <1>11. SumExact' /\ ZeroExact' /\ ResInv'
    BY <1>1, <1>3 DEF SumExact, SumCells, ZeroExact, ResInv, Copying
  <1>12. QED
    BY <1>9, <1>10, <1>11 DEF ExactInv

\* copy_from_host: the shared memory is read and never written.
LEMMA ExactRead ==
  ASSUME NEW l \in Lcores, TypeOK, TypeOK', ExactInv, copy_from_host_word(l)
  PROVE  ExactInv'
  <1>1. prog.kernel = "copy_from_host" /\ prog' = prog /\ host' = host
    BY DEF copy_from_host_word, InLoop, EndWord, NextWord
  <1>2. QED
    BY <1>1 DEF ExactInv, SumExact, SumCells, CopyExact, ZeroExact, ResInv, CopyInv,
                Copying

\* A step of an lcore outside the word loop, or one that ends the process.
LEMMA IdleStep ==
  ASSUME NEW l \in Lcores, TypeOK, TypeOK', ExactInv, lcore_main(l),
         ~begin_packet(l), ~Work(l) \/ UNCHANGED <<pc, restVars>>
  PROVE  ExactInv'
  <1>0. /\ pc \in [Lcores -> PCs] /\ payload \in [Lcores -> Payloads]
        /\ word \in [Lcores -> WordIndex] /\ res \in [Lcores -> T]
    BY DEF TypeOK
  <1>1. CASE Loop(l)
    BY <1>0, <1>1, ExactIdle
       DEF Loop, test_quit, At, Goto, restVars, loopVars, hostVars, histVars
  <1>2. CASE rx_nothing(l) \/ answer(l) \/ no_answer(l)
    <2>1. /\ UNCHANGED <<prog, host, seen, payload, word, res>> /\ pc[l] # "work"
          /\ Goto(l, "rx") \/ Goto(l, "loop")
      BY <1>2 DEF rx_nothing, answer, no_answer, NextPort, At, hostVars, histVars
    <2>2. \A k \in Lcores : pc'[k] = "work" <=> pc[k] = "work"
      BY <1>0, <2>1 DEF Goto
    <2>3. QED
      BY <2>1, <2>2, ExactIdle
  <1>3. CASE rx_burst(l)
    <2>1. /\ UNCHANGED <<prog, host, seen, payload, word, res>> /\ pc[l] # "work"
          /\ Goto(l, "gate")
      BY <1>3 DEF rx_burst, At, hostVars, histVars
    <2>2. \A k \in Lcores : pc'[k] = "work" <=> pc[k] = "work"
      BY <1>0, <2>1 DEF Goto
    <2>3. QED
      BY <2>1, <2>2, ExactIdle
  <1>4. CASE skip_packet(l) \/ filter_miss(l) \/ log_step(l)
    <2>1. UNCHANGED <<prog, host, seen, payload, word, res, pc>>
      BY <1>4 DEF skip_packet, filter_miss, log_step, hostVars, histVars, loopVars
    <2>2. QED
      BY <2>1, ExactIdle
  <1>5. CASE log_exit(l) \/ UNCHANGED <<pc, restVars>>
    <2>1. UNCHANGED <<prog, host, seen, payload, word, res, pc>>
      BY <1>5 DEF log_exit, Exit, restVars, hostVars, histVars, loopVars
    <2>2. QED
      BY <2>1, ExactIdle
  <1>6. CASE count_burst(l)
    <2>1. /\ UNCHANGED <<prog, host, seen>> /\ pc[l] # "work" /\ DropPacket(l)
          /\ Goto(l, "latency") \/ Goto(l, "check")
      BY <1>6 DEF count_burst, At
    <2>2. \A k \in Lcores : pc'[k] = "work" <=> pc[k] = "work"
      BY <1>0, <2>1 DEF Goto
    <2>3. \A k \in Lcores \ {l} :
            payload'[k] = payload[k] /\ word'[k] = word[k] /\ res'[k] = res[k]
      BY <1>0, <2>1 DEF DropPacket
    <2>4. QED
      BY <2>1, <2>2, <2>3, ExactIdle
  <1>7. CASE log_done(l)
    <2>1. /\ UNCHANGED <<prog, host, seen, payload, word, res>> /\ pc[l] # "work"
          /\ Goto(l, "check")
      BY <1>7 DEF log_done, At, hostVars, histVars, loopVars
    <2>2. \A k \in Lcores : pc'[k] = "work" <=> pc[k] = "work"
      BY <1>0, <2>1 DEF Goto
    <2>3. QED
      BY <2>1, <2>2, ExactIdle
  <1>8. QED
    BY <1>1, <1>2, <1>3, <1>4, <1>5, <1>6, <1>7 DEF lcore_main

\* Every step keeps the shared memory in agreement with the packets worked on.
LEMMA ExactStep ==
  CountedInv /\ CountedInv' /\ ExactInv /\ [Next]_vars => ExactInv'
  <1> SUFFICES ASSUME CountedInv, CountedInv', ExactInv, [Next]_vars
               PROVE  ExactInv'
    OBVIOUS
  <1>0. TypeOK /\ TypeOK'
    BY DEF CountedInv
  <1>1. CASE UNCHANGED <<prog, host, seen, payload, word, res>>
             /\ \A k \in Lcores : pc'[k] = "work" <=> pc[k] = "work"
    BY <1>0, <1>1, ExactIdle
  <1>2. ASSUME NEW l \in Lcores, lcore_main(l) PROVE ExactInv'
    <2>1. CASE begin_packet(l)
      BY <2>1, ExactBegin
    <2>2. CASE Work(l)
      <3>1. CASE UNCHANGED <<pc, restVars>>
        BY <1>0, <1>2, <2>1, <3>1, IdleStep
      <3>2. CASE aggregate_word(l) \/ reduce_word(l)
        BY <1>0, <3>2, ExactAggregate, ExactReduce
      <3>5. CASE histogram_word(l)
        BY <1>0, <3>5, ExactHistogram DEF histogram_word, EndWord
      <3>6. CASE histogram_exit(l)
        BY <3>1, <3>6 DEF histogram_exit, Exit
      <3>7. CASE histogram_stray(l)
        <4>1. CASE NextWord(l) /\ UNCHANGED <<host, payload, res>>
          <5>1. InLoop(l, "histogram") /\ payload[l][word[l]] = HISTOG_NR
            BY <3>7 DEF histogram_stray
          <5>2. payload[l][word[l]] \notin 0 .. HISTOG_NR - 1
            BY <5>1
          <5>3. QED
            BY <1>0, <4>1, <5>1, <5>2, ExactHistogram
        <4>2. QED
          BY <3>1, <3>7, <4>1 DEF histogram_stray, EndWord
      <3>3. CASE copy_to_host_word(l) \/ filter_word(l) \/ copy_from_host_word(l)
        BY <1>0, <3>3, ExactCopy, ExactRead
      <3>4. QED
        BY <2>2, <3>2, <3>3, <3>5, <3>6, <3>7 DEF Work
    <2>3. CASE ~begin_packet(l) /\ ~Work(l)
      BY <1>0, <1>2, <2>3, IdleStep
    <2>4. QED
      BY <2>1, <2>2, <2>3
  <1>3. CASE Start \/ Finish \/ Signal
    <2>1. UNCHANGED <<prog, host, seen, payload, word, res>>
      BY <1>3 DEF Start, Finish, Signal, restVars, loopVars, hostVars, histVars
    <2>2. \A k \in Lcores : pc'[k] = "work" <=> pc[k] = "work"
      BY <1>0, <1>3 DEF Start, Finish, Signal, main_init, main_wait, signal_handler,
                        TypeOK
    <2>3. QED
      BY <1>1, <2>1, <2>2
  <1>4. CASE UNCHANGED vars
    BY <1>1, <1>4 DEF vars, loopVars, hostVars, histVars
  <1>5. QED
    BY <1>2, <1>3, <1>4 DEF Next, Terminated

\* Whatever the lcores' steps interleave to, the shared memory holds what the packets
\* worked on so far add up to, no update lost and none made twice: for any number of
\* lcores, any payload, any number of bins and words, and any word size.  Of the keys
\* that the histogram's check lets through it is those below HISTOG_NR that are counted.
THEOREM HostCorrect == Spec => []HostExact
  <1>1. CountedInv /\ ExactInv => HostExact
    BY ExactParts DEF ExactInv, CountedInv, TypeOK
  <1>2. QED
    BY <1>1, CountedInvariance, ExactInitial, ExactStep, PTL DEF Spec
===============================================================================
