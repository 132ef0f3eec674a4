---------------------------- MODULE DpdkMbufProofs ----------------------------
(***************************************************************************)
(* Proofs about DpdkMbuf, for any set of lcores, any pool of buffers and    *)
(* any burst size.  TypeInv is inductive; it carries the proofs of NoLeak,  *)
(* ExclusiveOwner and EchoLogConserved, which are inductive relative to it. *)
(***************************************************************************)
EXTENDS DpdkMbuf, TLAPS

-------------------------------------------------------------------------------
(* The latency log: its invariant is inductive for every action of calc_latency. *)

\* Before the first call nobody holds the lock and no FILE is open.
LEMMA LogInitial == LogInit => LogInv
  BY LcoreAssumption
     DEF LogInit, LogInv, LogTypeOK, LogHandleOwned, Stages

\* Steps that do not touch the log keep its invariant.
LEMMA LogUnchanged == LogInv /\ UNCHANGED logVars => LogInv'
  BY DEF logVars, LogInv, LogTypeOK, LogHandleOwned

\* Taking the lock: it was free, so nobody else is inside calc_latency.
LEMMA LogLock ==
  ASSUME NEW l \in Lcores, LogInv, write_lock(l)
  PROVE  LogInv'
  <1> USE LcoreAssumption DEF LogInv, LogTypeOK, Stages, write_lock
  <1>1. LogTypeOK'
    OBVIOUS
  <1>2. \A k \in Lcores : (stage[k] # "out" <=> rwl = k)'
    OBVIOUS
  <1>3. LogHandleOwned' /\ (opened # {} => \E k \in Lcores : stage[k] = "fprintf")'
    BY DEF LogHandleOwned
  <1>4. QED
    BY <1>1, <1>2, <1>3

\* Opening the file: wfptr is overwritten, but no other lcore is printing.
LEMMA LogOpen ==
  ASSUME NEW l \in Lcores, LogInv, open_log(l)
  PROVE  LogInv'
  <1> USE LcoreAssumption DEF LogInv, LogTypeOK, Stages, open_log
  <1>1. LogTypeOK'
    OBVIOUS
  <1>2. \A k \in Lcores : (stage[k] # "out" <=> rwl = k)'
    OBVIOUS
  <1>3. \A k \in Lcores : stage[k] # "fprintf"
    BY DEF LogHandleOwned
  <1>4. opened = {}
    BY <1>3
  <1>5. LogHandleOwned' /\ (opened # {} => \E k \in Lcores : stage[k] = "fprintf")'
    BY <1>3, <1>4 DEF LogHandleOwned
  <1>6. QED
    BY <1>1, <1>2, <1>5

\* Printing and closing: wfptr is the lcore's own FILE, the only open one.
LEMMA LogPrint ==
  ASSUME NEW l \in Lcores, NEW n \in Nat, LogInv, print_lines(l, n)
  PROVE  LogInv' /\ lines' = [lines EXCEPT ![l] = @ + n]
  <1> USE LcoreAssumption DEF LogInv, LogTypeOK, Stages, print_lines
  <1>1. wfptr = l /\ opened = {l}
    BY DEF LogHandleOwned
  <1>2. LogTypeOK'
    BY <1>1
  <1>3. \A k \in Lcores : (stage[k] # "out" <=> rwl = k)'
    OBVIOUS
  <1>4. opened' = {}
    BY <1>1
  <1>5. \A k \in Lcores : stage[k]' # "fprintf"
    BY <1>3
  <1>6. LogHandleOwned' /\ (opened # {} => \E k \in Lcores : stage[k] = "fprintf")'
    BY <1>4, <1>5 DEF LogHandleOwned
  <1>7. QED
    BY <1>1, <1>2, <1>3, <1>6

\* Releasing the lock: the holder leaves calc_latency.
LEMMA LogUnlock ==
  ASSUME NEW l \in Lcores, LogInv, write_unlock(l)
  PROVE  LogInv'
  <1> USE LcoreAssumption DEF LogInv, LogTypeOK, Stages, write_unlock
  <1>1. LogTypeOK'
    OBVIOUS
  <1>2. \A k \in Lcores : (stage[k] # "out" <=> rwl = k)'
    OBVIOUS
  <1>3. \A k \in Lcores : stage[k] # "fprintf"
    OBVIOUS
  <1>4. LogHandleOwned' /\ (opened # {} => \E k \in Lcores : stage[k] = "fprintf")'
    BY <1>3 DEF LogHandleOwned
  <1>5. QED
    BY <1>1, <1>2, <1>4

-------------------------------------------------------------------------------
(* Types, the log and the bursts.                                            *)

\* The inductive invariant: types, the log's invariant, and how the loop indices
\* of each lcore's burst relate in each phase of it.
TypeInv == TypeOK /\ LogInv /\ BurstInv

USE MbufAssumption, LcoreAssumption

\* Only the TX callback touches the log, and it does so as calc_latency does.
LEMMA LogInvStep == TypeInv /\ [Next]_vars => LogInv'
  <1> SUFFICES ASSUME TypeInv, [Next]_vars PROVE LogInv'
    OBVIOUS
  <1> USE DEF TypeInv
  <1>1. ASSUME UNCHANGED logVars PROVE LogInv'
    BY <1>1, LogUnchanged
  <1>2. ASSUME NEW l \in Lcores, log_step(l) PROVE LogInv'
    <2>1. nb_tx[l] \in Nat
      BY DEF TypeOK
    <2>2. QED
      BY <1>2, <2>1, LogLock, LogOpen, LogPrint DEF log_step
  <1>3. ASSUME NEW l \in Lcores, log_done(l) PROVE LogInv'
    BY <1>3, LogUnlock DEF log_done
  <1>4. QED
    BY <1>1, <1>2, <1>3
       DEF Next, vars, lcore_main, restVars, Start, Finish, Signal, nic_sent,
           Terminated, Loop, rx_packet, rx_return, process_packet, process_done,
           log_exit, tx_packet, tx_return, free_packet, free_done, EndBurst

\* Every step of main, of an lcore and of the device keeps the variables in their
\* types and the loop indices of lcore_main in order.
LEMMA TypeStep == TypeInv /\ [Next]_vars => TypeOK' /\ BurstInv'
  <1> SUFFICES ASSUME TypeInv, [Next]_vars PROVE TypeOK' /\ BurstInv'
    OBVIOUS
  <1>0. LogTypeOK'
    BY LogInvStep DEF LogInv
  <1> USE DEF TypeInv, TypeOK, BurstInv, PCs, Slots, Statuses
  <1>1. ASSUME NEW l \in Lcores, Loop(l) PROVE TypeOK' /\ BurstInv'
    <2> USE <1>1 DEF Loop, test_quit, At, Goto, restVars, burstVars, mbufVars, logVars
    <2>1. TypeOK'
      BY <1>0
    <2>2. BurstOK(l)'
      BY DEF BurstOK
    <2>3. ASSUME NEW k \in Lcores, k # l PROVE BurstOK(k)'
      BY <2>3 DEF BurstOK
    <2>4. QED
      BY <2>1, <2>2, <2>3
  <1>2. ASSUME NEW l \in Lcores, rx_packet(l) PROVE TypeOK' /\ BurstInv'
    <2> USE <1>2 DEF rx_packet, At, logVars
    <2>1. TypeOK'
      <3>1. PICK m \in Mbufs, ok \in BOOLEAN :
              /\ pool[m] > 0 /\ pool' = [pool EXCEPT ![m] = @ - 1]
              /\ good' = [good EXCEPT ![m] = ok]
              /\ swapped' = [swapped EXCEPT ![m] = FALSE]
              /\ bufs' = [bufs EXCEPT ![l][nb_rx[l]] = m]
        OBVIOUS
      <3>2. pool' \in [Mbufs -> Nat]
        BY <3>1, SMTT(30)
      <3>3. good' \in [Mbufs -> BOOLEAN] /\ swapped' \in [Mbufs -> BOOLEAN]
        BY <3>1
      <3>4. bufs' \in [Lcores -> [Slots -> Mbufs \cup {NoMbuf}]]
        BY <3>1
      <3>5. nb_rx' \in [Lcores -> 0 .. BURST_SIZE] /\ rx' \in 0 .. MaxRx
        BY SMTT(30)
      <3>6. QED
        BY <1>0, <3>2, <3>3, <3>4, <3>5
    <2>2. BurstOK(l)'
      <3>1. PICK m \in Mbufs : bufs' = [bufs EXCEPT ![l][nb_rx[l]] = m]
        OBVIOUS
      <3>0. bufs \in [Lcores -> [Slots -> Mbufs \cup {NoMbuf}]] /\ nb_rx[l] \in Slots
        OBVIOUS
      <3>2. bufs'[l] = [bufs[l] EXCEPT ![nb_rx[l]] = m] /\ nb_rx[l] \in Slots
        BY ONLY <3>0, <3>1, l \in Lcores
      <3>a. ASSUME NEW s \in 0 .. nb_rx[l] PROVE bufs'[l][s] \in Mbufs
        <4>1. bufs[l] \in [Slots -> Mbufs \cup {NoMbuf}] /\ s \in Slots
          BY <3>2, SMTT(30)
        <4>2. s # nb_rx[l] => bufs[l][s] \in Mbufs
          BY SMTT(30) DEF BurstOK
        <4>3. QED
          BY ONLY <3>2, <4>1, <4>2, m \in Mbufs
      <3>3. nb_rx'[l] = nb_rx[l] + 1
        OBVIOUS
      <3>4. QED
        <4>1. \A s \in 0 .. nb_rx'[l] - 1 : bufs'[l][s] \in Mbufs
          BY <3>a, <3>3
        <4>2. QED
          BY <3>3, <4>1, SMTT(30) DEF BurstOK
    <2>3. ASSUME NEW k \in Lcores, k # l PROVE BurstOK(k)'
      BY <2>3 DEF BurstOK
    <2>4. QED
      BY <2>1, <2>2, <2>3
  <1>3. ASSUME NEW l \in Lcores, rx_return(l) PROVE TypeOK' /\ BurstInv'
    <2> USE <1>3 DEF rx_return, At, Goto, restVars, burstVars, mbufVars, logVars
    <2>1. TypeOK'
      BY <1>0
    <2>2. BurstOK(l)'
      BY DEF BurstOK
    <2>3. ASSUME NEW k \in Lcores, k # l PROVE BurstOK(k)'
      BY <2>3 DEF BurstOK
    <2>4. QED
      BY <2>1, <2>2, <2>3
  <1>4. ASSUME NEW l \in Lcores, process_packet(l) PROVE TypeOK' /\ BurstInv'
    <2> USE <1>4 DEF process_packet, At, logVars
    <2> DEFINE m == bufs[l][i[l]]
    <2>0. m \in Mbufs /\ nb_tx[l] + 1 \in 0 .. BURST_SIZE /\ i[l] + 1 \in 0 .. BURST_SIZE
      BY SMTT(30) DEF BurstOK
    <2>1. TypeOK'
      <3>1. i' \in [Lcores -> 0 .. BURST_SIZE]
        BY <2>0
      <3>2. nb_tx' \in [Lcores -> 0 .. BURST_SIZE]
        BY <2>0
      <3>3. passed' \in [Lcores -> Nat]
        <4>1. CASE good[m]
          <5>1. passed' = [passed EXCEPT ![l] = @ + 1] /\ passed \in [Lcores -> Nat]
            BY <4>1
          <5>2. QED
            BY ONLY <5>1
        <4>2. CASE ~good[m]
          BY <4>2
        <4>3. QED
          BY <4>1, <4>2
      <3>4. swapped' \in [Mbufs -> BOOLEAN]
        <4>1. (prog.family = "echo") \in BOOLEAN
          OBVIOUS
        <4>2. CASE good[m]
          <5>1. swapped' = [swapped EXCEPT ![m] = (prog.family = "echo")]
            BY <4>2
          <5>2. QED
            BY <5>1, <4>1, Zenon DEF TypeOK
        <4>3. CASE ~good[m]
          BY <4>3
        <4>4. QED
          BY <4>2, <4>3
      <3>5. QED
        BY <1>0, <3>1, <3>2, <3>3, <3>4
    <2>2. BurstOK(l)'
      BY SMTT(30) DEF BurstOK
    <2>3. ASSUME NEW k \in Lcores, k # l PROVE BurstOK(k)'
      <3>1. i'[k] = i[k] /\ nb_tx'[k] = nb_tx[k] /\ BurstOK(k)
        BY <2>3
      <3>2. UNCHANGED <<pc, bufs, nb_rx, done, stage>>
        OBVIOUS
      <3>3. QED
        BY ONLY <3>1, <3>2 DEF BurstOK
    <2>4. QED
      BY <2>1, <2>2, <2>3
  <1>5. ASSUME NEW l \in Lcores, process_done(l) PROVE TypeOK' /\ BurstInv'
    <2> USE <1>5 DEF process_done, At, Goto, logVars
    <2>0. bufs[l][0] \in Mbufs /\ 1 \in 0 .. BURST_SIZE
      BY DEF BurstOK
    <2>a. ASSUME NEW k \in Lcores, k # l PROVE BurstOK(k)'
      <3>1. nb_tx'[k] = nb_tx[k]
        <4>1. CASE prog.family = "echo"
          BY <4>1
        <4>2. CASE prog.family # "echo"
          BY <4>2, <2>a
        <4>3. QED
          BY <4>1, <4>2
      <3>2. QED
        BY <2>a, <3>1 DEF BurstOK
    <2>1. CASE prog.family = "echo"
      <3>1. nb_tx' = nb_tx /\ swapped' = swapped
        BY <2>1
      <3>2. TypeOK'
        BY <1>0, <3>1
      <3>3. BurstOK(l)'
        BY <3>1 DEF BurstOK
      <3>4. QED
        BY <3>2, <3>3, <2>a
    <2>2. CASE prog.family # "echo"
      <3>1. PICK n \in {0, 1} :
              /\ nb_tx' = [nb_tx EXCEPT ![l] = n]
              /\ swapped' = IF n = 1 THEN [swapped EXCEPT ![bufs[l][0]] = ~@]
                                     ELSE swapped
        BY <2>2
      <3>2. swapped' \in [Mbufs -> BOOLEAN]
        <4>1. CASE n = 1
          <5>1. swapped' = [swapped EXCEPT ![bufs[l][0]] = ~@]
            BY <3>1, <4>1
          <5>2. QED
            BY <5>1, Zenon DEF TypeOK
        <4>2. CASE n # 1
          BY <3>1, <4>2
        <4>3. QED
          BY <4>1, <4>2
      <3>3. nb_tx' \in [Lcores -> 0 .. BURST_SIZE] /\ nb_tx'[l] <= 1
        BY <2>0, <3>1
      <3>4. TypeOK'
        BY <1>0, <3>2, <3>3
      <3>5. BurstOK(l)'
        <4>1. nb_tx'[l] \in 0 .. 1
          BY <3>1
        <4>2. UNCHANGED <<bufs, nb_rx, i, done, stage>>
          OBVIOUS
        <4>3. pc'[l] \in {"callback", "tx"}
          OBVIOUS
        <4>4. BurstOK(l) /\ pc[l] = "process" /\ nb_rx[l] \in Nat
          OBVIOUS
        <4>5. QED
          BY ONLY <4>1, <4>2, <4>3, <4>4 DEF BurstOK
      <3>6. QED
        BY <3>4, <3>5, <2>a
    <2>3. QED
      BY <2>1, <2>2
  <1>6. ASSUME NEW l \in Lcores, log_step(l) PROVE TypeOK' /\ BurstInv'
    <2> USE <1>6 DEF log_step, At, burstVars, mbufVars, write_lock, open_log, print_lines
    <2>1. TypeOK'
      BY <1>0
    <2>2. BurstOK(l)'
      BY DEF BurstOK
    <2>3. ASSUME NEW k \in Lcores, k # l PROVE BurstOK(k)'
      BY <2>3 DEF BurstOK, LogTypeOK
    <2>4. QED
      BY <2>1, <2>2, <2>3
  <1>7. ASSUME NEW l \in Lcores, log_done(l) PROVE TypeOK' /\ BurstInv'
    <2> USE <1>7 DEF log_done, At, Goto, burstVars, mbufVars, write_unlock
    <2>1. TypeOK'
      BY <1>0
    <2>2. BurstOK(l)'
      <3>1. stage'[l] = "out" /\ pc'[l] = "tx"
        BY DEF LogTypeOK
      <3>2. UNCHANGED burstVars /\ pc[l] = "callback" /\ BurstOK(l) /\ nb_tx[l] \in Nat
        OBVIOUS
      <3>3. QED
        BY ONLY <3>1, <3>2 DEF BurstOK, burstVars
    <2>3. ASSUME NEW k \in Lcores, k # l PROVE BurstOK(k)'
      BY <2>3 DEF BurstOK, LogTypeOK
    <2>4. QED
      BY <2>1, <2>2, <2>3
  <1>8. ASSUME NEW l \in Lcores, log_exit(l) PROVE TypeOK' /\ BurstInv'
    <2> USE <1>8 DEF log_exit, At, Exit, restVars, burstVars, mbufVars, logVars
    <2>1. TypeOK'
      BY <1>0
    <2>2. BurstOK(l)'
      BY DEF BurstOK
    <2>3. ASSUME NEW k \in Lcores, k # l PROVE BurstOK(k)'
      BY <2>3 DEF BurstOK
    <2>4. QED
      BY <2>1, <2>2, <2>3
  <1>9. ASSUME NEW l \in Lcores, tx_packet(l) PROVE TypeOK' /\ BurstInv'
    <2> USE <1>9 DEF tx_packet, At, logVars
    <2>0. bufs[l][done[l]] \in Mbufs /\ done[l] + 1 \in 0 .. BURST_SIZE
      BY DEF BurstOK
    <2>1. TypeOK'
      <3>1. txq' \in [Mbufs -> Nat] /\ done' \in [Lcores -> 0 .. BURST_SIZE]
        BY <2>0, SMTT(30)
      <3>2. QED
        BY <1>0, <3>1
    <2>2. BurstOK(l)'
      BY DEF BurstOK
    <2>3. ASSUME NEW k \in Lcores, k # l PROVE BurstOK(k)'
      BY <2>3 DEF BurstOK
    <2>4. QED
      BY <2>1, <2>2, <2>3
  <1>10. ASSUME NEW l \in Lcores, tx_return(l) PROVE TypeOK' /\ BurstInv'
    <2> USE <1>10 DEF tx_return, At, Goto, mbufVars, logVars
    <2>1. TypeOK'
      BY <1>0
    <2>2. BurstOK(l)'
      BY DEF BurstOK
    <2>3. ASSUME NEW k \in Lcores, k # l PROVE BurstOK(k)'
      BY <2>3 DEF BurstOK
    <2>4. QED
      BY <2>1, <2>2, <2>3
  <1>11. ASSUME NEW l \in Lcores, free_packet(l) PROVE TypeOK' /\ BurstInv'
    <2> USE <1>11 DEF free_packet, At, logVars
    <2>0. bufs[l][done[l]] \in Mbufs /\ done[l] + 1 \in 0 .. BURST_SIZE
      BY DEF BurstOK
    <2>1. TypeOK'
      <3>1. pool' \in [Mbufs -> Nat]
        BY <2>0
      <3>2. QED
        BY <1>0, <2>0, <3>1
    <2>2. BurstOK(l)'
      BY DEF BurstOK
    <2>3. ASSUME NEW k \in Lcores, k # l PROVE BurstOK(k)'
      BY <2>3 DEF BurstOK
    <2>4. QED
      BY <2>1, <2>2, <2>3
  <1>12. ASSUME NEW l \in Lcores, free_done(l) PROVE TypeOK' /\ BurstInv'
    <2> USE <1>12 DEF free_done, EndBurst, At, Goto, mbufVars, logVars
    <2>1. TypeOK'
      BY <1>0 DEF BurstOK, NoBurst
    <2>2. BurstOK(l)'
      BY DEF BurstOK
    <2>3. ASSUME NEW k \in Lcores, k # l PROVE BurstOK(k)'
      BY <2>3 DEF BurstOK
    <2>4. QED
      BY <2>1, <2>2, <2>3
  <1>13. CASE Start
    BY <1>0, <1>13
       DEF Start, main_init, restVars, burstVars, mbufVars, logVars, BurstOK
  <1>14. CASE Finish
    BY <1>0, <1>14
       DEF Finish, main_wait, restVars, burstVars, mbufVars, logVars, BurstOK
  <1>15. CASE Signal
    BY <1>0, <1>15
       DEF Signal, signal_handler, restVars, burstVars, mbufVars, logVars, BurstOK
  <1>16. CASE nic_sent
    BY <1>0, <1>16 DEF nic_sent, restVars, burstVars, mbufVars, logVars, BurstOK
  <1>17. CASE UNCHANGED vars
    BY <1>0, <1>17 DEF vars, restVars, burstVars, mbufVars, logVars, BurstOK
  <1>18. QED
    BY <1>1, <1>2, <1>3, <1>4, <1>5, <1>6, <1>7, <1>8, <1>9, <1>10, <1>11, <1>12, <1>13, <1>14, <1>15, <1>16, <1>17
       DEF Next, lcore_main, Terminated

(***************************************************************************)
(* Ownership of the buffers.                                                *)
(***************************************************************************)

\* The facts about the burst arrays that the ownership lemmas use.
BurstTypes ==
  /\ pool \in [Mbufs -> Nat] /\ txq \in [Mbufs -> Nat]
  /\ bufs \in [Lcores -> [Slots -> Mbufs \cup {NoMbuf}]]
  /\ nb_rx \in [Lcores -> 0 .. BURST_SIZE]
  /\ done \in [Lcores -> 0 .. BURST_SIZE]
  /\ BURST_SIZE \in Nat \ {0}

\* They follow from the type invariant.
LEMMA BurstTyped == TypeInv => BurstTypes
  BY DEF TypeInv, TypeOK, BurstTypes

\* A step that leaves the bursts alone and every buffer as often given back as
\* it was (the device moves it from a TX ring to the pool) changes no owner.
LEMMA OwnerFrame ==
  ASSUME UNCHANGED <<bufs, nb_rx, done>>,
         \A m \in Mbufs : GivenBack(m)' = GivenBack(m)
  PROVE  /\ ExclusiveOwner => ExclusiveOwner'
         /\ NoLeak => NoLeak'
  <1>1. \A l : Owned(l)' = Owned(l)
    BY DEF Owned
  <1>2. NoLeak => NoLeak'
    BY <1>1 DEF NoLeak
  <1>3. GivenBackOnce => GivenBackOnce'
    BY DEF GivenBackOnce
  <1>4. OwnedIsOut => OwnedIsOut'
    BY <1>1 DEF OwnedIsOut
  <1>5. OwnedOnce => OwnedOnce'
    BY <1>1 DEF OwnedOnce
  <1>6. QED
    BY <1>2, <1>3, <1>4, <1>5 DEF ExclusiveOwner

\* Giving back the first buffer of the rest of the burst, to a TX ring or to the
\* pool, hands it over: it was given back nowhere, and no other slot has it.
LEMMA OwnerGiveBack ==
  ASSUME BurstTypes, NEW l \in Lcores, done[l] < nb_rx[l],
         done' = [done EXCEPT ![l] = @ + 1], UNCHANGED <<bufs, nb_rx>>,
         \A m \in Mbufs :
           GivenBack(m)' = GivenBack(m) + (IF m = bufs[l][done[l]] THEN 1 ELSE 0)
  PROVE  /\ ExclusiveOwner => ExclusiveOwner'
         /\ NoLeak => NoLeak'
  <1>1. done[l] \in Owned(l)
    BY DEF Owned, BurstTypes
  <1>2. \A k \in Lcores : Owned(k)' = IF k = l THEN Owned(l) \ {done[l]} ELSE Owned(k)
    <2>1. done'[l] = done[l] + 1 /\ done[l] \in Int /\ nb_rx[l] \in Int
      BY DEF BurstTypes
    <2>2. Owned(l)' = Owned(l) \ {done[l]}
      BY <2>1 DEF Owned
    <2>3. \A k \in Lcores : k # l => Owned(k)' = Owned(k)
      BY DEF Owned, BurstTypes
    <2>4. QED
      BY <2>2, <2>3
  <1>3. \A m \in Mbufs : GivenBack(m) \in Nat
    BY DEF GivenBack, BurstTypes
  <1>4. ASSUME NoLeak PROVE NoLeak'
    <2> SUFFICES ASSUME NEW m \in Mbufs, ~(GivenBack(m)' > 0)
                 PROVE  \E k \in Lcores : \E s \in Owned(k)' : bufs'[k][s] = m
      BY DEF NoLeak
    <2>1. m # bufs[l][done[l]] /\ ~(GivenBack(m) > 0)
      BY <1>3
    <2>2. PICK k \in Lcores : \E s \in Owned(k) : bufs[k][s] = m
      BY <1>4, <2>1 DEF NoLeak
    <2>3. PICK s \in Owned(k) : bufs[k][s] = m
      BY <2>2
    <2>4. s \in Owned(k)'
      BY <1>2, <2>1, <2>3
    <2>5. QED
      BY <2>3, <2>4
  <1>5. ASSUME ExclusiveOwner PROVE ExclusiveOwner'
    <2> USE <1>5 DEF ExclusiveOwner
    <2>1. GivenBack(bufs[l][done[l]]) = 0
      BY <1>1 DEF OwnedIsOut
    <2>2. GivenBackOnce'
      BY <1>3, <2>1 DEF GivenBackOnce
    <2>3. OwnedIsOut'
      <3> SUFFICES ASSUME NEW k \in Lcores, NEW s \in Owned(k)'
                   PROVE  bufs[k][s] \in Mbufs /\ GivenBack(bufs[k][s])' = 0
        BY DEF OwnedIsOut
      <3>1. s \in Owned(k) /\ ~(k = l /\ s = done[l])
        BY <1>2
      <3>2. bufs[k][s] # bufs[l][done[l]]
        BY <1>1, <3>1 DEF OwnedOnce
      <3>3. bufs[k][s] \in Mbufs /\ GivenBack(bufs[k][s]) = 0
        BY <3>1 DEF OwnedIsOut
      <3>4. QED
        BY <3>2, <3>3
    <2>4. OwnedOnce'
      BY <1>2 DEF OwnedOnce
    <2>5. QED
      BY <2>2, <2>3, <2>4
  <1>6. QED
    BY <1>4, <1>5

\* Receiving into the next slot a buffer that was in the pool.
LEMMA OwnerReceive ==
  ASSUME BurstTypes, NEW l \in Lcores, NEW b \in Mbufs, nb_rx[l] \in Slots,
         done[l] = 0, UNCHANGED done, pool[b] > 0,
         nb_rx' = [nb_rx EXCEPT ![l] = @ + 1],
         bufs' = [bufs EXCEPT ![l][nb_rx[l]] = b],
         \A m \in Mbufs :
           GivenBack(m)' = GivenBack(m) - (IF m = b THEN 1 ELSE 0)
  PROVE  /\ ExclusiveOwner => ExclusiveOwner'
         /\ NoLeak => NoLeak'
  <1>1. \A k \in Lcores : Owned(k)' = IF k = l THEN Owned(l) \cup {nb_rx[l]} ELSE Owned(k)
    <2>1. nb_rx'[l] = nb_rx[l] + 1 /\ nb_rx[l] \in Nat
      BY DEF BurstTypes
    <2>2. Owned(l)' = Owned(l) \cup {nb_rx[l]}
      BY <2>1 DEF Owned
    <2>3. \A k \in Lcores : k # l => Owned(k)' = Owned(k)
      BY DEF Owned, BurstTypes
    <2>4. QED
      BY <2>2, <2>3
  <1>2. \A k \in Lcores : Owned(k) \subseteq Slots
    BY DEF Owned, BurstTypes, Slots
  <1>3. nb_rx[l] \notin Owned(l)
    BY DEF Owned, BurstTypes
  <1>4. bufs'[l][nb_rx[l]] = b
    BY DEF BurstTypes
  <1>5. ASSUME NEW k \in Lcores, NEW s \in Owned(k) PROVE bufs'[k][s] = bufs[k][s]
    BY <1>2, <1>3 DEF BurstTypes
  <1>6. \A m \in Mbufs : GivenBack(m) \in Nat
    BY DEF GivenBack, BurstTypes
  <1>7. GivenBack(b) > 0
    BY DEF GivenBack, BurstTypes
  <1>8. ASSUME NoLeak PROVE NoLeak'
    <2> SUFFICES ASSUME NEW m \in Mbufs, ~(GivenBack(m)' > 0)
                 PROVE  \E k \in Lcores : \E s \in Owned(k)' : bufs'[k][s] = m
      BY DEF NoLeak
    <2>1. CASE m = b
      BY <1>1, <1>4, <2>1
    <2>2. CASE m # b
      <3>1. ~(GivenBack(m) > 0)
        BY <1>6, <2>2
      <3>2. PICK k \in Lcores : \E s \in Owned(k) : bufs[k][s] = m
        BY <1>8, <3>1 DEF NoLeak
      <3>3. PICK s \in Owned(k) : bufs[k][s] = m
        BY <3>2
      <3>4. s \in Owned(k)' /\ bufs'[k][s] = m
        BY <1>1, <1>5, <3>3
      <3>5. QED
        BY <3>4
    <2>3. QED
      BY <2>1, <2>2
  <1>9. ASSUME ExclusiveOwner PROVE ExclusiveOwner'
    <2> USE <1>9 DEF ExclusiveOwner
    <2>1. GivenBack(b) = 1
      BY <1>6, <1>7 DEF GivenBackOnce
    <2>2. GivenBackOnce'
      BY <1>6 DEF GivenBackOnce
    <2>3. ASSUME NEW k \in Lcores, NEW s \in Owned(k)
          PROVE  /\ bufs[k][s] \in Mbufs /\ bufs[k][s] # b
                 /\ pool'[bufs[k][s]] + txq'[bufs[k][s]] = 0
      <3>1. bufs[k][s] \in Mbufs /\ bufs[k][s] # b /\ GivenBack(bufs[k][s]) = 0
        BY <2>1 DEF OwnedIsOut
      <3>2. QED
        BY <3>1 DEF GivenBack
    <2>4. OwnedIsOut'
      <3> SUFFICES ASSUME NEW k \in Lcores, NEW s \in Owned(k)'
                   PROVE  /\ bufs'[k][s] \in Mbufs
                          /\ pool'[bufs'[k][s]] + txq'[bufs'[k][s]] = 0
        BY DEF OwnedIsOut, GivenBack
      <3>1. CASE s \in Owned(k)
        BY <1>5, <2>3, <3>1 DEF GivenBack
      <3>2. CASE s \notin Owned(k)
        <4>1. k = l /\ s = nb_rx[l]
          BY <1>1, <3>2
        <4>2. pool'[b] + txq'[b] = 0
          BY <2>1 DEF GivenBack
        <4>3. QED
          BY <4>1, <4>2, <1>4
      <3>3. QED
        BY <3>1, <3>2
    <2>5. OwnedOnce'
      <3> SUFFICES ASSUME NEW j \in Lcores, NEW k \in Lcores,
                          NEW r \in Owned(j)', NEW s \in Owned(k)',
                          bufs'[j][r] = bufs'[k][s]
                   PROVE  j = k /\ r = s
        BY DEF OwnedOnce
      <3>1. CASE r \in Owned(j) /\ s \in Owned(k)
        BY <1>5, <3>1 DEF OwnedOnce
      <3>2. CASE r \notin Owned(j)
        <4>1. j = l /\ r = nb_rx[l] /\ bufs'[j][r] = b
          BY <1>1, <1>4, <3>2
        <4>2. s \notin Owned(k)
          BY <4>1, <1>5, <2>3
        <4>3. QED
          BY <4>1, <4>2, <1>1
      <3>3. CASE s \notin Owned(k)
        <4>1. k = l /\ s = nb_rx[l] /\ bufs'[k][s] = b
          BY <1>1, <1>4, <3>3
        <4>2. r \notin Owned(j)
          BY <4>1, <1>5, <2>3
        <4>3. QED
          BY <4>1, <4>2, <1>1
      <3>4. QED
        BY <3>1, <3>2, <3>3
    <2>6. QED
      BY <2>2, <2>4, <2>5
  <1>10. QED
    BY <1>8, <1>9

\* The end of a burst of which nothing is left to send or free.
LEMMA OwnerEnd ==
  ASSUME BurstTypes, NEW l \in Lcores, done[l] = nb_rx[l],
         nb_rx' = [nb_rx EXCEPT ![l] = 0], done' = [done EXCEPT ![l] = 0],
         bufs' = [bufs EXCEPT ![l] = NoBurst], UNCHANGED <<pool, txq>>
  PROVE  /\ ExclusiveOwner => ExclusiveOwner'
         /\ NoLeak => NoLeak'
  <1>1. \A k \in Lcores : Owned(k)' = Owned(k)
    <2>1. Owned(l)' = {} /\ Owned(l) = {}
      BY DEF Owned, BurstTypes
    <2>2. \A k \in Lcores : k # l => Owned(k)' = Owned(k)
      BY DEF Owned, BurstTypes
    <2>3. QED
      BY <2>1, <2>2
  <1>2. ASSUME NEW k \in Lcores, NEW s \in Owned(k) PROVE bufs'[k][s] = bufs[k][s]
    BY DEF Owned, BurstTypes
  <1>3. \A m : GivenBack(m)' = GivenBack(m)
    BY DEF GivenBack
  <1>4. NoLeak => NoLeak'
    BY <1>1, <1>2, <1>3 DEF NoLeak
  <1>5. GivenBackOnce => GivenBackOnce'
    BY <1>3 DEF GivenBackOnce
  <1>6. OwnedIsOut => OwnedIsOut'
    BY <1>1, <1>2, <1>3 DEF OwnedIsOut
  <1>7. OwnedOnce => OwnedOnce'
    BY <1>1, <1>2 DEF OwnedOnce
  <1>8. QED
    BY <1>4, <1>5, <1>6, <1>7 DEF ExclusiveOwner

\* Every step keeps the buffers owned: echo programs for exclusive ownership
\* (they free what they did not send), all programs for not losing a buffer.
LEMMA OwnerStep ==
  ASSUME TypeInv, [Next]_vars
  PROVE  /\ prog.family = "echo" /\ ExclusiveOwner => ExclusiveOwner'
         /\ NoLeak => NoLeak'
  <1> DEFINE Goal == /\ prog.family = "echo" /\ ExclusiveOwner => ExclusiveOwner'
                     /\ NoLeak => NoLeak'
  <1>0. BurstTypes
    BY BurstTyped
  <1>1. ASSUME UNCHANGED <<pool, txq, bufs, nb_rx, done>> PROVE Goal
    <2>1. \A m \in Mbufs : GivenBack(m)' = GivenBack(m)
      BY <1>1 DEF GivenBack
    <2>2. QED
      BY <1>1, <2>1, OwnerFrame
  <1>2. ASSUME NEW l \in Lcores, rx_packet(l) PROVE Goal
    <2>1. PICK b \in Mbufs :
            /\ pool[b] > 0
            /\ pool' = [pool EXCEPT ![b] = @ - 1]
            /\ bufs' = [bufs EXCEPT ![l][nb_rx[l]] = b]
      BY <1>2 DEF rx_packet
    <2>2. nb_rx[l] \in Slots /\ UNCHANGED <<done, txq>>
          /\ nb_rx' = [nb_rx EXCEPT ![l] = @ + 1]
      BY <1>2, <1>0 DEF rx_packet, BurstTypes, Slots
    <2>3. done[l] = 0
      BY <1>2 DEF rx_packet, At, TypeInv, BurstInv, BurstOK
    <2>4. \A m \in Mbufs : GivenBack(m)' = GivenBack(m) - (IF m = b THEN 1 ELSE 0)
      BY <1>0, <2>1, <2>2 DEF GivenBack, BurstTypes
    <2>5. QED
      BY <1>0, <2>1, <2>2, <2>3, <2>4, OwnerReceive
  <1>3. ASSUME NEW l \in Lcores, tx_packet(l) PROVE Goal
    <2>1. done[l] < nb_rx[l] /\ bufs[l][done[l]] \in Mbufs
      BY <1>3 DEF tx_packet, At, TypeInv, TypeOK, BurstInv, BurstOK
    <2>2. /\ done' = [done EXCEPT ![l] = @ + 1]
          /\ UNCHANGED <<bufs, nb_rx, pool>>
          /\ txq' = [txq EXCEPT ![bufs[l][done[l]]] = @ + 1]
      BY <1>3 DEF tx_packet
    <2>3. \A m \in Mbufs :
            GivenBack(m)' = GivenBack(m) + (IF m = bufs[l][done[l]] THEN 1 ELSE 0)
      BY <1>0, <2>1, <2>2 DEF GivenBack, BurstTypes
    <2>4. QED
      BY <1>0, <2>1, <2>2, <2>3, OwnerGiveBack
  <1>4. ASSUME NEW l \in Lcores, free_packet(l) PROVE Goal
    <2>1. done[l] < nb_rx[l] /\ bufs[l][done[l]] \in Mbufs
      BY <1>4 DEF free_packet, At, TypeInv, TypeOK, BurstInv, BurstOK
    <2>2. /\ done' = [done EXCEPT ![l] = @ + 1]
          /\ UNCHANGED <<bufs, nb_rx, txq>>
          /\ pool' = [pool EXCEPT ![bufs[l][done[l]]] = @ + 1]
      BY <1>4 DEF free_packet
    <2>3. \A m \in Mbufs :
            GivenBack(m)' = GivenBack(m) + (IF m = bufs[l][done[l]] THEN 1 ELSE 0)
      BY <1>0, <2>1, <2>2 DEF GivenBack, BurstTypes
    <2>4. QED
      BY <1>0, <2>1, <2>2, <2>3, OwnerGiveBack
  <1>5. ASSUME NEW l \in Lcores, free_done(l) PROVE Goal
    BY <1>0, <1>5, OwnerEnd DEF free_done, EndBurst, mbufVars
  <1>6. ASSUME NEW l \in Lcores, tx_return(l) PROVE Goal
    <2>1. CASE prog.family = "echo"
      <3>1. done' = done
        BY <1>0, <1>6, <2>1 DEF tx_return, BurstTypes
      <3>2. QED
        BY <1>1, <1>6, <3>1 DEF tx_return, mbufVars
    <2>2. CASE prog.family # "echo"
      <3>1. /\ done' = [done EXCEPT ![l] = 0]
            /\ UNCHANGED <<pool, txq, bufs, nb_rx>>
        BY <1>6, <2>2 DEF tx_return, mbufVars
      <3>2. \A k \in Lcores : Owned(k) \subseteq Owned(k)'
        BY <1>0, <3>1 DEF Owned, BurstTypes
      <3>3. \A m \in Mbufs : GivenBack(m)' = GivenBack(m)
        BY <3>1 DEF GivenBack
      <3>4. NoLeak => NoLeak'
        BY <3>1, <3>2, <3>3 DEF NoLeak
      <3>5. QED
        BY <2>2, <3>4
    <2>3. QED
      BY <2>1, <2>2
  <1>7. ASSUME nic_sent PROVE Goal
    <2>1. UNCHANGED <<bufs, nb_rx, done>>
      BY <1>7 DEF nic_sent, burstVars
    <2>2. \A m \in Mbufs : GivenBack(m)' = GivenBack(m)
      BY <1>0, <1>7 DEF nic_sent, GivenBack, BurstTypes
    <2>3. QED
      BY <2>1, <2>2, OwnerFrame
  <1>8. QED
    <2>1. CASE Start \/ Finish \/ Signal \/ UNCHANGED vars
      BY <1>1, <2>1 DEF Start, Finish, Signal, vars, restVars, burstVars, mbufVars
    <2>2. ASSUME NEW l \in Lcores,
                 \/ Loop(l) \/ rx_return(l) \/ process_packet(l) \/ process_done(l)
                 \/ log_step(l) \/ log_done(l) \/ log_exit(l)
          PROVE  Goal
      BY <1>1, <2>2 DEF Loop, rx_return, process_packet, process_done, log_step,
         log_done, log_exit, restVars, burstVars, mbufVars
    <2>3. QED
      BY <2>1, <2>2, <1>2, <1>3, <1>4, <1>5, <1>6, <1>7
         DEF Next, lcore_main, Terminated

-------------------------------------------------------------------------------
(***************************************************************************)
(* The log of the echo programs.                                            *)
(***************************************************************************)

\* Only the timed programs have the callback, and then each lcore's lines are
\* the packets it has let through and passed to the callback.
EchoLogInv == EchoLogConserved /\ \A l \in Lcores : pc[l] = "callback" => prog.timed

\* A step that changes nothing the log counts.
LEMMA EchoLogFrame ==
  ASSUME UNCHANGED <<prog, lines, passed>>, EchoLogInv,
         \A l \in Lcores : Unlogged(l)' = Unlogged(l),
         \A l \in Lcores : pc'[l] = "callback" => pc[l] = "callback"
  PROVE  EchoLogInv'
  BY DEF EchoLogInv, EchoLogConserved

\* Every step of an echo program keeps the log's account.
LEMMA EchoLogStep ==
  ASSUME TypeInv, [Next]_vars, prog.family = "echo", EchoLogInv
  PROVE  EchoLogInv'
  <1> USE DEF TypeInv, TypeOK, BurstInv
  <1>1. ASSUME UNCHANGED <<prog, pc, stage, nb_tx, lines, passed>> PROVE EchoLogInv'
    BY <1>1, EchoLogFrame DEF Unlogged
  <1>2. ASSUME NEW l \in Lcores, NEW at \in PCs \ {"process", "callback"},
               UNCHANGED <<prog, lines, passed>>,
               pc' = [pc EXCEPT ![l] = at],
               Unlogged(l) = 0,
               \A k \in Lcores \ {l} : nb_tx'[k] = nb_tx[k] /\ stage'[k] = stage[k]
        PROVE  EchoLogInv'
    <2>1. Unlogged(l)' = 0
      BY <1>2 DEF Unlogged
    <2>2. \A k \in Lcores \ {l} : Unlogged(k)' = Unlogged(k)
      BY <1>2 DEF Unlogged
    <2>3. \A k \in Lcores : pc'[k] = "callback" => pc[k] = "callback"
      BY <1>2
    <2>4. QED
      BY <1>2, <2>1, <2>2, <2>3, EchoLogFrame
  <1>3. ASSUME NEW l \in Lcores, Loop(l) PROVE EchoLogInv'
    BY <1>2, <1>3
       DEF Loop, test_quit, At, Goto, restVars, burstVars, logVars, Unlogged, PCs
  <1>4. ASSUME NEW l \in Lcores, rx_return(l) PROVE EchoLogInv'
    <2>1. nb_tx[l] = 0 /\ UNCHANGED <<prog, lines, passed, nb_tx, stage>>
      BY <1>4 DEF rx_return, At, restVars, burstVars, logVars, BurstOK
    <2>2. \A k \in Lcores : Unlogged(k)' = Unlogged(k)
      BY <1>4, <2>1 DEF rx_return, At, Goto, Unlogged
    <2>3. \A k \in Lcores : pc'[k] = "callback" => pc[k] = "callback"
      BY <1>4 DEF rx_return, Goto
    <2>4. QED
      BY <2>1, <2>2, <2>3, EchoLogFrame
  <1>5. ASSUME NEW l \in Lcores, process_packet(l) PROVE EchoLogInv'
    <2>0. UNCHANGED <<prog, pc, stage, lines>> /\ pc[l] = "process"
      BY <1>5 DEF process_packet, At, logVars
    <2>1. CASE good[bufs[l][i[l]]]
      <3>1. /\ nb_tx' = [nb_tx EXCEPT ![l] = @ + 1]
            /\ passed' = [passed EXCEPT ![l] = @ + 1]
        BY <1>5, <2>1 DEF process_packet
      <3>2. \A k \in Lcores : passed'[k] - Unlogged(k)' = passed[k] - Unlogged(k)
        <4>1. Unlogged(l)' = Unlogged(l) + 1 /\ Unlogged(l) \in Nat
          BY <2>0, <3>1 DEF Unlogged
        <4>2. passed'[l] = passed[l] + 1 /\ passed[l] \in Nat
          BY <3>1
        <4>3. \A k \in Lcores \ {l} : passed'[k] = passed[k] /\ Unlogged(k)' = Unlogged(k)
          BY <2>0, <3>1 DEF Unlogged
        <4>4. QED
          BY ONLY <4>1, <4>2, <4>3
      <3>3. QED
        BY <2>0, <3>2 DEF EchoLogInv, EchoLogConserved
    <2>2. CASE ~good[bufs[l][i[l]]]
      BY <1>1, <1>5, <2>0, <2>2 DEF process_packet
    <2>3. QED
      BY <2>1, <2>2
  <1>6. ASSUME NEW l \in Lcores, process_done(l) PROVE EchoLogInv'
    <2>1. UNCHANGED <<prog, nb_tx, lines, passed, stage>> /\ pc[l] = "process"
      BY <1>6 DEF process_done, At, logVars
    <2>2. stage[l] = "out"
      BY <2>1 DEF BurstOK
    <2>3. pc' = [pc EXCEPT ![l] = IF prog.timed THEN "callback" ELSE "tx"]
      BY <1>6 DEF process_done, Goto
    <2>4. prog.timed => \A k \in Lcores : Unlogged(k)' = Unlogged(k)
      BY <2>1, <2>2, <2>3 DEF Unlogged
    <2>5. EchoLogConserved'
      BY <2>1, <2>4 DEF EchoLogInv, EchoLogConserved
    <2>6. \A k \in Lcores : pc'[k] = "callback" => prog.timed
      BY <2>3 DEF EchoLogInv
    <2>7. QED
      BY <2>1, <2>5, <2>6 DEF EchoLogInv
  <1>7. ASSUME NEW l \in Lcores, log_step(l) PROVE EchoLogInv'
    <2>0. UNCHANGED <<prog, pc, nb_tx, passed>> /\ pc[l] = "callback" /\ prog.timed
      BY <1>7 DEF log_step, At, burstVars, EchoLogInv
    <2>1. CASE write_lock(l) \/ open_log(l)
      <3>1. UNCHANGED lines
        BY <2>1 DEF write_lock, open_log
      <3>2. \A k \in Lcores : (stage'[k] = "unlock") = (stage[k] = "unlock")
        BY <2>1 DEF write_lock, open_log, LogTypeOK
      <3>3. \A k \in Lcores : Unlogged(k)' = Unlogged(k)
        BY <2>0, <3>2 DEF Unlogged
      <3>4. QED
        BY <2>0, <3>1, <3>3, EchoLogFrame
    <2>2. CASE print_lines(l, nb_tx[l])
      <3>1. nb_tx[l] \in Nat
        OBVIOUS
      <3>2. lines' = [lines EXCEPT ![l] = @ + nb_tx[l]]
        BY <2>2, <3>1, LogPrint
      <3>3. stage' = [stage EXCEPT ![l] = "unlock"] /\ stage[l] = "fprintf"
        BY <2>2 DEF print_lines
      <3>4. Unlogged(l) = nb_tx[l] /\ Unlogged(l)' = 0
        BY <2>0, <3>3 DEF Unlogged, LogTypeOK
      <3>5. \A k \in Lcores \ {l} : Unlogged(k)' = Unlogged(k)
        BY <2>0, <3>3 DEF Unlogged, LogTypeOK
      <3>6. lines'[l] = passed[l] /\ \A k \in Lcores \ {l} : lines'[k] = lines[k]
        BY <2>0, <3>2, <3>4 DEF EchoLogInv, EchoLogConserved, LogTypeOK
      <3>7. EchoLogConserved'
        BY <2>0, <3>4, <3>5, <3>6 DEF EchoLogInv, EchoLogConserved
      <3>8. QED
        BY <2>0, <3>7 DEF EchoLogInv
    <2>3. QED
      BY <1>7, <2>1, <2>2 DEF log_step
  <1>8. ASSUME NEW l \in Lcores, log_done(l) PROVE EchoLogInv'
    BY <1>2, <1>8
       DEF log_done, At, Goto, write_unlock, burstVars, Unlogged, PCs, LogTypeOK
  <1>9. ASSUME NEW l \in Lcores, tx_return(l) PROVE EchoLogInv'
    BY <1>2, <1>9 DEF tx_return, At, Goto, logVars, Unlogged, PCs
  <1>10. ASSUME NEW l \in Lcores, free_done(l) PROVE EchoLogInv'
    BY <1>2, <1>10 DEF free_done, EndBurst, At, Goto, logVars, Unlogged, PCs
  <1>11. QED
    <2>1. CASE Start \/ Finish \/ Signal \/ nic_sent \/ UNCHANGED vars
      BY <1>1, <2>1 DEF Start, Finish, Signal, nic_sent, main_init, main_wait,
         signal_handler, vars, restVars, burstVars, mbufVars, logVars
    <2>2. ASSUME NEW l \in Lcores,
                 rx_packet(l) \/ log_exit(l) \/ tx_packet(l) \/ free_packet(l)
          PROVE  EchoLogInv'
      BY <1>1, <2>2 DEF rx_packet, log_exit, tx_packet, free_packet, Exit, restVars,
         burstVars, mbufVars, logVars
    <2>3. QED
      BY <2>1, <2>2, <1>3, <1>4, <1>5, <1>6, <1>7, <1>8, <1>9, <1>10
         DEF Next, lcore_main, Terminated

-------------------------------------------------------------------------------
(***************************************************************************)
(* The theorems.                                                            *)
(***************************************************************************)

\* The initial state has the type invariant.
LEMMA TypeInit == Init => TypeInv
  <1> SUFFICES ASSUME Init PROVE TypeInv
    OBVIOUS
  <1>1. LogInv
    BY LogInitial DEF Init
  <1>2. TypeOK
    <2>1. /\ good \in [Mbufs -> BOOLEAN] /\ swapped \in [Mbufs -> BOOLEAN]
          /\ force_quit \in BOOLEAN
      BY Zenon DEF Init, ProcessInit
    <2>2. bufs \in [Lcores -> [Slots -> Mbufs \cup {NoMbuf}]]
      BY DEF Init, NoBurst
    <2>3. status \in Statuses /\ pc \in [Lcores -> PCs]
      BY DEF Init, ProcessInit, Statuses, PCs
    <2>4. /\ nb_rx \in [Lcores -> 0 .. BURST_SIZE] /\ i \in [Lcores -> 0 .. BURST_SIZE]
          /\ nb_tx \in [Lcores -> 0 .. BURST_SIZE] /\ done \in [Lcores -> 0 .. BURST_SIZE]
      BY DEF Init
    <2>5. /\ pool \in [Mbufs -> Nat] /\ txq \in [Mbufs -> Nat]
          /\ rx \in 0 .. MaxRx /\ passed \in [Lcores -> Nat] /\ prog \in Programs
      BY DEF Init
    <2>6. QED
      BY <1>1, <2>1, <2>2, <2>3, <2>4, <2>5 DEF TypeOK, LogInv
  <1>3. BurstInv
    <2> SUFFICES ASSUME NEW l \in Lcores PROVE BurstOK(l)
      BY DEF BurstInv
    <2>1. /\ pc[l] = "loop" /\ stage[l] = "out"
          /\ nb_rx[l] = 0 /\ i[l] = 0 /\ nb_tx[l] = 0 /\ done[l] = 0
      BY DEF Init, ProcessInit, LogInit
    <2>2. QED
      BY <2>1 DEF BurstOK
  <1>4. QED
    BY <1>1, <1>2, <1>3 DEF TypeInv

\* No lcore's burst ever leaves its array and the loop indices of lcore_main stay
\* ordered, whatever the network delivers and however the lcores interleave.
THEOREM TypeInvariance == Spec => []TypeInv
  <1>1. TypeInv /\ [Next]_vars => TypeInv'
    BY LogInvStep, TypeStep DEF TypeInv
  <1>2. QED
    BY TypeInit, <1>1, PTL DEF Spec

\* Type correctness of every program's use of its buffers (lcore_main).
THEOREM TypeCorrect == Spec => []TypeOK
  <1>1. TypeInv => TypeOK
    BY DEF TypeInv
  <1>2. QED
    BY TypeInvariance, <1>1, PTL

\* In all programs, an lcore in calc_latency prints through and closes only the
\* FILE it opened itself, although wfptr is shared: the write lock suffices.
THEOREM LogHandleSafe == Spec => []LogHandleOwned
  <1>1. TypeInv => LogHandleOwned
    BY DEF TypeInv, LogInv
  <1>2. QED
    BY TypeInvariance, <1>1, PTL

\* No program loses a buffer: what is neither in the pool nor in a TX ring is in
\* some lcore's burst, still to be sent or freed (lcore_main's free loop).
THEOREM NoBufferLost == Spec => []NoLeak
  <1>1. Init => NoLeak
    BY DEF Init, NoLeak, GivenBack
  <1>2. TypeInv /\ NoLeak /\ [Next]_vars => NoLeak'
    BY OwnerStep
  <1>3. QED
    BY TypeInvariance, <1>1, <1>2, PTL DEF Spec

\* The programs considered are pingpong, kvstore, zuc and their _no_t forms.
EchoOnly == \A p \in Programs : p.family = "echo"

\* With the echo programs, which free exactly the buffers tx_burst did not take,
\* a buffer never has two owners: no double free and no free of a buffer in flight.
THEOREM EchoExclusive == ASSUME EchoOnly PROVE Spec => []ExclusiveOwner
  <1>1. Init => ExclusiveOwner
    <2> SUFFICES ASSUME Init PROVE ExclusiveOwner
      OBVIOUS
    <2>1. \A l \in Lcores : Owned(l) = {}
      <3>1. \A l \in Lcores : done[l] = 0 /\ nb_rx[l] = 0
        BY DEF Init
      <3>2. 0 .. 0 - 1 = {}
        OBVIOUS
      <3>3. QED
        BY ONLY <3>1, <3>2, Zenon DEF Owned
    <2>2. GivenBackOnce
      BY DEF Init, GivenBackOnce, GivenBack
    <2>3. QED
      BY <2>1, <2>2 DEF ExclusiveOwner, OwnedIsOut, OwnedOnce
  <1>2. TypeInv /\ ExclusiveOwner /\ [Next]_vars => ExclusiveOwner'
    BY OwnerStep DEF EchoOnly, TypeInv, TypeOK
  <1>3. QED
    BY TypeInvariance, <1>1, <1>2, PTL DEF Spec

\* With the timed echo programs, the log holds one line for every packet that
\* passed an lcore's gate and whose callback has run; without timing, none.
THEOREM EchoLogCorrect == ASSUME EchoOnly PROVE Spec => []EchoLogConserved
  <1>1. Init => EchoLogInv
    BY DEF Init, ProcessInit, LogInit, EchoLogInv, EchoLogConserved, Unlogged
  <1>2. TypeInv /\ EchoLogInv /\ [Next]_vars => EchoLogInv'
    BY EchoLogStep DEF EchoOnly, TypeInv, TypeOK
  <1>3. EchoLogInv => EchoLogConserved
    BY DEF EchoLogInv
  <1>4. QED
    BY TypeInvariance, <1>1, <1>2, <1>3, PTL DEF Spec
===============================================================================
