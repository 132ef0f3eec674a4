---------------------------- MODULE DpdkPortProofs ----------------------------
(***************************************************************************)
(* Proofs about DpdkPort, for any number of ports and any number of lcores. *)
(***************************************************************************)
EXTENDS DpdkPort, FiniteSetTheorems, TLAPS

\* The queues asked for a callback once the first n have been seen to.
CallbackQueues(registered, n) == IF registered THEN 0 .. n - 1 ELSE {}

\* A port that port_init has returned from.
PortReady(p) ==
  /\ dev[p].state = "started"
  /\ dev[p].rxq = core_que_nr
  /\ dev[p].txq = core_que_nr
  /\ dev[p].rx_cb \cup dev[p].rx_null = CallbackQueues(prog.rx_cb, core_que_nr)
  /\ dev[p].tx_cb \cup dev[p].tx_null
       = CallbackQueues(prog.rx_cb /\ prog.tx_cb, core_que_nr)

\* The port that port_init is working on, at each step of port_init.
CurrentPort ==
  LET d == dev[portid] IN
  /\ at = "rxq" => d.state = "configured" /\ d.rxq = q /\ d.txq = 0
  /\ at = "txq" => d.state = "configured" /\ d.rxq = core_que_nr /\ d.txq = q
  /\ at \in {"start", "promisc", "callbacks"} =>
       /\ d.rxq = core_que_nr
       /\ d.txq = core_que_nr
  /\ at = "start" => d.state = "configured"
  /\ at \in {"promisc", "callbacks"} => d.state = "started"
  /\ at \in {"rxq", "txq", "start", "promisc"} =>
       d.rx_cb = {} /\ d.tx_cb = {} /\ d.rx_null = {} /\ d.tx_null = {}
  /\ at = "promisc" => q = 0
  /\ at = "start" => q = 0
  /\ at = "callbacks" =>
       /\ d.rx_cb \cup d.rx_null = CallbackQueues(prog.rx_cb, q)
       /\ d.tx_cb \cup d.tx_null = CallbackQueues(prog.rx_cb /\ prog.tx_cb, q)

InPortInit == {"port", "info", "configure", "rxq", "txq", "start", "promisc",
               "callbacks"}

\* portid runs over the ports while port_init is called for each.
InOrder ==
  /\ at \in InPortInit => portid < nb_ports
  /\ at \in {"eal", "pool"} => portid = 0
  /\ at \in {"launch", "running"} => portid = nb_ports

ReadyBefore == \A p \in Ports : p < portid => PortReady(p)
FreshAfter == \A p \in Ports : p > portid => dev[p] = NoDev
FreshCurrent == at \in {"eal", "pool", "port", "info", "configure"} => dev[portid] = NoDev

\* The global configuration is cleared before any device is configured with it.
ConfCleared == at \in InPortInit \ {"port"} => port_conf = zero_conf
ConfZero == \A p \in Ports : dev[p].state # "stopped" => dev[p].conf = zero_conf

\* The inductive invariant: the ports before portid are ready, those after it
\* untouched, and every configured port got the cleared configuration.
PortInv ==
  /\ TypeOK
  /\ InOrder
  /\ at \in InPortInit => CurrentPort
  /\ ReadyBefore /\ FreshAfter /\ FreshCurrent
  /\ ConfCleared /\ ConfZero

-------------------------------------------------------------------------------
\* The number of lcores, which is the number of queues of each port.
LEMMA QueueCount == core_que_nr \in Nat
  BY PortAssumption, FS_CardinalityType DEF core_que_nr

\* A device stays a device when port_init sets one of its fields.
LEMMA DevFields ==
  ASSUME NEW d \in Devs
  PROVE  /\ \A n \in 0 .. core_que_nr : [d EXCEPT !.rxq = n] \in Devs
         /\ \A n \in 0 .. core_que_nr : [d EXCEPT !.txq = n] \in Devs
         /\ [d EXCEPT !.state = "started"] \in Devs
         /\ \A b \in BOOLEAN : [d EXCEPT !.promisc = b] \in Devs
         /\ \A c \in Confs : [d EXCEPT !.state = "configured", !.conf = c] \in Devs
  BY DEF Devs

\* An untouched device is a device.
LEMMA NoDevType == NoDev \in Devs
  BY QueueCount DEF NoDev, Devs, Confs, zero_conf

\* The frame of every step of port_init that changes the current port's device:
\* the other ports keep theirs.
LEMMA DevStep ==
  ASSUME PortInv, portid \in Ports, NEW D \in Devs,
         dev' = [dev EXCEPT ![portid] = D],
         D.state # "stopped" => D.conf = zero_conf,
         UNCHANGED <<prog, nb_ports, portid>>
  PROVE  /\ (dev \in [Ports -> Devs])'
         /\ dev'[portid'] = D
         /\ ReadyBefore' /\ FreshAfter' /\ ConfZero'
  <1>1. dev \in [Ports -> Devs] /\ Ports' = Ports /\ Ports \subseteq Int /\ portid \in Int
    BY DEF PortInv, TypeOK, Ports
  <1>2. (dev \in [Ports -> Devs])' /\ dev'[portid'] = D
    BY <1>1
  <1>3. \A p \in Ports : p # portid => dev'[p] = dev[p]
    BY <1>1
  <1>4. FreshAfter'
    BY <1>1, <1>3 DEF FreshAfter, PortInv
  <1>5. ConfZero'
    BY <1>1, <1>2, <1>3 DEF ConfZero, PortInv
  <1>6. ReadyBefore'
    <2>1. ASSUME NEW p \in Ports, p < portid PROVE PortReady(p)'
      <3>1. PortReady(p) /\ dev'[p] = dev[p]
        BY <1>1, <1>3, <2>1 DEF ReadyBefore, PortInv
      <3>2. QED
        BY <3>1 DEF PortReady
    <2>2. QED
      BY <1>1, <2>1 DEF ReadyBefore
  <1>7. QED
    BY <1>2, <1>4, <1>5, <1>6

\* Before main has done anything no port is touched.
LEMMA PortInitial == Init => PortInv
  <1> SUFFICES ASSUME Init PROVE PortInv
    OBVIOUS
  <1> USE PortAssumption DEF Init
  <1>1. 0 \in Ports /\ nb_ports \in Nat
    BY DEF Ports
  <1>2. TypeOK
    BY <1>1, QueueCount, NoDevType DEF TypeOK, Confs, Steps, rss_conf
  <1>3. InOrder /\ FreshAfter /\ FreshCurrent /\ ConfCleared
    BY <1>1 DEF InOrder, FreshAfter, FreshCurrent, ConfCleared, InPortInit
  <1>4. ReadyBefore
    BY DEF ReadyBefore, Ports
  <1>5. ConfZero
    BY DEF ConfZero, NoDev
  <1>6. QED
    BY <1>2, <1>3, <1>4, <1>5 DEF PortInv, InPortInit

\* A step that leaves the devices and the current port alone keeps what is said
\* about them.
LEMMA DevUnchanged ==
  ASSUME PortInv, UNCHANGED <<prog, nb_ports, portid, dev>>
  PROVE  /\ (dev \in [Ports -> Devs])'
         /\ ReadyBefore' /\ FreshAfter' /\ ConfZero'
  BY DEF PortInv, TypeOK, Ports, ReadyBefore, PortReady, FreshAfter, ConfZero

\* Every step of main and of port_init keeps the invariant.
LEMMA PortStep == PortInv /\ [Next]_vars => PortInv'
  <1> SUFFICES ASSUME PortInv, [Next]_vars PROVE PortInv'
    OBVIOUS
  <1> USE PortAssumption, QueueCount
  <1>0. /\ nb_ports \in Nat /\ nb_ports > 0
        /\ prog \in [one_port : BOOLEAN, rx_cb : BOOLEAN, tx_cb : BOOLEAN, promisc : BOOLEAN]
        /\ dev \in [Ports -> Devs]
        /\ portid \in 0 .. nb_ports
        /\ q \in 0 .. core_que_nr
        /\ at \in InPortInit => portid \in Ports
    BY DEF PortInv, TypeOK, InOrder, Ports
  <1>1. CASE fail
    <2>1. (dev \in [Ports -> Devs])' /\ ReadyBefore' /\ FreshAfter' /\ ConfZero'
      BY <1>1, DevUnchanged DEF fail
    <2>2. TypeOK'
      BY <1>1, <2>1 DEF fail, PortInv, TypeOK, Steps, Confs, zero_conf
    <2>3. InOrder' /\ FreshCurrent' /\ ConfCleared'
      BY <1>0, <1>1
         DEF fail, PortInv, InOrder, FreshCurrent, ConfCleared, InPortInit
    <2>4. (at \in InPortInit => CurrentPort)'
      BY <1>1 DEF fail, InPortInit, CurrentPort
    <2>5. QED
      BY <2>1, <2>2, <2>3, <2>4 DEF PortInv
  <1>2. CASE main_eal
    <2>1. (dev \in [Ports -> Devs])' /\ ReadyBefore' /\ FreshAfter' /\ ConfZero'
      BY <1>2, DevUnchanged DEF main_eal
    <2>2. TypeOK'
      BY <1>2, <2>1 DEF main_eal, PortInv, TypeOK, Steps, Confs, zero_conf
    <2>3. InOrder' /\ FreshCurrent' /\ ConfCleared'
      BY <1>0, <1>2
         DEF main_eal, PortInv, InOrder, FreshCurrent, ConfCleared, InPortInit
    <2>4. (at \in InPortInit => CurrentPort)'
      BY <1>2 DEF main_eal, InPortInit, CurrentPort
    <2>5. QED
      BY <2>1, <2>2, <2>3, <2>4 DEF PortInv
  <1>3. CASE main_pool
    <2>1. (dev \in [Ports -> Devs])' /\ ReadyBefore' /\ FreshAfter' /\ ConfZero'
      BY <1>3, DevUnchanged DEF main_pool
    <2>2. TypeOK'
      BY <1>3, <2>1 DEF main_pool, PortInv, TypeOK, Steps, Confs, zero_conf
    <2>3. InOrder' /\ FreshCurrent' /\ ConfCleared'
      BY <1>0, <1>3
         DEF main_pool, PortInv, InOrder, FreshCurrent, ConfCleared, InPortInit
    <2>4. (at \in InPortInit => CurrentPort)'
      BY <1>3 DEF main_pool, InPortInit, CurrentPort
    <2>5. QED
      BY <2>1, <2>2, <2>3, <2>4 DEF PortInv
  <1>4. CASE port_copy
    <2>1. (dev \in [Ports -> Devs])' /\ ReadyBefore' /\ FreshAfter' /\ ConfZero'
      BY <1>4, DevUnchanged DEF port_copy
    <2>2. TypeOK'
      BY <1>4, <2>1 DEF port_copy, PortInv, TypeOK, Steps, Confs, zero_conf
    <2>3. InOrder' /\ FreshCurrent' /\ ConfCleared'
      BY <1>0, <1>4
         DEF port_copy, PortInv, InOrder, FreshCurrent, ConfCleared, InPortInit
    <2>4. (at \in InPortInit => CurrentPort)'
      BY <1>4 DEF port_copy, InPortInit, CurrentPort
    <2>5. QED
      BY <2>1, <2>2, <2>3, <2>4 DEF PortInv
  <1>5. CASE port_info
    <2>1. (dev \in [Ports -> Devs])' /\ ReadyBefore' /\ FreshAfter' /\ ConfZero'
      BY <1>5, DevUnchanged DEF port_info
    <2>2. TypeOK'
      BY <1>5, <2>1 DEF port_info, PortInv, TypeOK, Steps, Confs, zero_conf
    <2>3. InOrder' /\ FreshCurrent' /\ ConfCleared'
      BY <1>0, <1>5
         DEF port_info, PortInv, InOrder, FreshCurrent, ConfCleared, InPortInit
    <2>4. (at \in InPortInit => CurrentPort)'
      BY <1>5 DEF port_info, InPortInit, CurrentPort
    <2>5. QED
      BY <2>1, <2>2, <2>3, <2>4 DEF PortInv
  <1>6. CASE port_configure
    <2> DEFINE D == [dev[portid] EXCEPT !.state = "configured", !.conf = port_conf]
    <2>1. dev' = [dev EXCEPT ![portid] = D] /\ portid \in Ports
      BY <1>0, <1>6 DEF port_configure, InPortInit
    <2>2. D \in Devs /\ (D.state # "stopped" => D.conf = zero_conf)
      <3>1. dev[portid] \in Devs
        BY <1>0, <2>1
      <3>2. D \in Devs
        BY <1>0, <1>6, <2>1, <3>1, DevFields
           DEF port_configure, PortInv, TypeOK, CurrentPort, InPortInit
      <3>3. D.state # "stopped" => D.conf = zero_conf
        BY <1>0, <1>6, <2>1, <3>1
           DEF port_configure, Devs, PortInv, CurrentPort, ConfZero, ConfCleared,
               InPortInit
      <3>4. QED
        BY <3>2, <3>3
    <2>3. /\ (dev \in [Ports -> Devs])' /\ dev'[portid'] = D
         /\ ReadyBefore' /\ FreshAfter' /\ ConfZero'
      <3> HIDE DEF D
      <3> QED
        BY <1>6, <2>1, <2>2, DevStep DEF port_configure
    <2>4. TypeOK'
      BY <1>0, <1>6, <2>3 DEF port_configure, PortInv, TypeOK, Steps
    <2>5. InOrder' /\ FreshCurrent' /\ ConfCleared'
      BY <1>0, <1>6, <2>3
         DEF port_configure, PortInv, InOrder, FreshCurrent, ConfCleared, InPortInit
    <2>6. CurrentPort'
      BY <1>0, <1>6, <2>1, <2>3
         DEF port_configure, PortInv, CurrentPort, FreshCurrent, NoDev, InPortInit,
             CallbackQueues, Devs
    <2>7. QED
      BY <2>3, <2>4, <2>5, <2>6 DEF PortInv
  <1>7. CASE port_rxq
    <2>1. CASE q < core_que_nr
      <3> DEFINE D == [dev[portid] EXCEPT !.rxq = @ + 1]
      <3>1. dev' = [dev EXCEPT ![portid] = D] /\ portid \in Ports
        BY <1>0, <1>7, <2>1 DEF port_rxq, InPortInit
      <3>2. D \in Devs /\ (D.state # "stopped" => D.conf = zero_conf)
        <4>1. dev[portid] \in Devs
          BY <1>0, <3>1
        <4>a. dev[portid].rxq + 1 \in 0 .. core_que_nr
          BY <1>0, <1>7, <2>1 DEF port_rxq, PortInv, CurrentPort, InPortInit
        <4>2. D \in Devs
          BY <4>1, <4>a, DevFields
        <4>3. D.state # "stopped" => D.conf = zero_conf
          BY <1>0, <1>7, <2>1, <3>1, <4>1
             DEF port_rxq, Devs, PortInv, CurrentPort, ConfZero, ConfCleared,
                 InPortInit
        <4>4. QED
          BY <4>2, <4>3
      <3>3. /\ (dev \in [Ports -> Devs])' /\ dev'[portid'] = D
           /\ ReadyBefore' /\ FreshAfter' /\ ConfZero'
        <4> HIDE DEF D
        <4> QED
          BY <1>7, <2>1, <3>1, <3>2, DevStep DEF port_rxq
      <3>4. TypeOK'
        BY <1>0, <1>7, <2>1, <3>3 DEF port_rxq, PortInv, TypeOK, Steps
      <3>5. InOrder' /\ FreshCurrent' /\ ConfCleared'
        BY <1>0, <1>7, <2>1, <3>3
           DEF port_rxq, PortInv, InOrder, FreshCurrent, ConfCleared, InPortInit
      <3>6. CurrentPort'
        BY <1>0, <1>7, <2>1, <3>1, <3>3
           DEF port_rxq, PortInv, CurrentPort, FreshCurrent, NoDev, InPortInit,
               CallbackQueues, Devs
      <3>7. QED
        BY <3>3, <3>4, <3>5, <3>6 DEF PortInv
    <2>2. CASE ~(q < core_que_nr)
      <3>1. (dev \in [Ports -> Devs])' /\ ReadyBefore' /\ FreshAfter' /\ ConfZero'
        BY <1>7, <2>2, DevUnchanged DEF port_rxq
      <3>2. TypeOK'
        BY <1>0, <1>7, <2>2, <3>1 DEF port_rxq, PortInv, TypeOK, Steps
      <3>3. InOrder' /\ FreshCurrent' /\ ConfCleared'
        BY <1>0, <1>7, <2>2
           DEF port_rxq, PortInv, InOrder, FreshCurrent, ConfCleared, InPortInit
      <3>4. CurrentPort'
        BY <1>0, <1>7, <2>2 DEF port_rxq, PortInv, CurrentPort, InPortInit
      <3>5. QED
        BY <3>1, <3>2, <3>3, <3>4 DEF PortInv
    <2>3. QED
      BY <2>1, <2>2
  <1>8. CASE port_txq
    <2>1. CASE q < core_que_nr
      <3> DEFINE D == [dev[portid] EXCEPT !.txq = @ + 1]
      <3>1. dev' = [dev EXCEPT ![portid] = D] /\ portid \in Ports
        BY <1>0, <1>8, <2>1 DEF port_txq, InPortInit
      <3>2. D \in Devs /\ (D.state # "stopped" => D.conf = zero_conf)
        <4>1. dev[portid] \in Devs
          BY <1>0, <3>1
        <4>a. dev[portid].txq + 1 \in 0 .. core_que_nr
          BY <1>0, <1>8, <2>1 DEF port_txq, PortInv, CurrentPort, InPortInit
        <4>2. D \in Devs
          BY <4>1, <4>a, DevFields
        <4>3. D.state # "stopped" => D.conf = zero_conf
          BY <1>0, <1>8, <2>1, <3>1, <4>1
             DEF port_txq, Devs, PortInv, CurrentPort, ConfZero, ConfCleared,
                 InPortInit
        <4>4. QED
          BY <4>2, <4>3
      <3>3. /\ (dev \in [Ports -> Devs])' /\ dev'[portid'] = D
           /\ ReadyBefore' /\ FreshAfter' /\ ConfZero'
        <4> HIDE DEF D
        <4> QED
          BY <1>8, <2>1, <3>1, <3>2, DevStep DEF port_txq
      <3>4. TypeOK'
        BY <1>0, <1>8, <2>1, <3>3 DEF port_txq, PortInv, TypeOK, Steps
      <3>5. InOrder' /\ FreshCurrent' /\ ConfCleared'
        BY <1>0, <1>8, <2>1, <3>3
           DEF port_txq, PortInv, InOrder, FreshCurrent, ConfCleared, InPortInit
      <3>6. CurrentPort'
        BY <1>0, <1>8, <2>1, <3>1, <3>3
           DEF port_txq, PortInv, CurrentPort, FreshCurrent, NoDev, InPortInit,
               CallbackQueues, Devs
      <3>7. QED
        BY <3>3, <3>4, <3>5, <3>6 DEF PortInv
    <2>2. CASE ~(q < core_que_nr)
      <3>1. (dev \in [Ports -> Devs])' /\ ReadyBefore' /\ FreshAfter' /\ ConfZero'
        BY <1>8, <2>2, DevUnchanged DEF port_txq
      <3>2. TypeOK'
        BY <1>0, <1>8, <2>2, <3>1 DEF port_txq, PortInv, TypeOK, Steps
      <3>3. InOrder' /\ FreshCurrent' /\ ConfCleared'
        BY <1>0, <1>8, <2>2
           DEF port_txq, PortInv, InOrder, FreshCurrent, ConfCleared, InPortInit
      <3>4. CurrentPort'
        BY <1>0, <1>8, <2>2 DEF port_txq, PortInv, CurrentPort, InPortInit
      <3>5. QED
        BY <3>1, <3>2, <3>3, <3>4 DEF PortInv
    <2>3. QED
      BY <2>1, <2>2
  <1>9. CASE port_start
    <2> DEFINE D == [dev[portid] EXCEPT !.state = "started"]
    <2>1. dev' = [dev EXCEPT ![portid] = D] /\ portid \in Ports
      BY <1>0, <1>9 DEF port_start, InPortInit
    <2>2. D \in Devs /\ (D.state # "stopped" => D.conf = zero_conf)
      <3>1. dev[portid] \in Devs
        BY <1>0, <2>1
      <3>2. D \in Devs
        BY <1>0, <1>9, <2>1, <3>1, DevFields
           DEF port_start, PortInv, TypeOK, CurrentPort, InPortInit
      <3>3. D.state # "stopped" => D.conf = zero_conf
        BY <1>0, <1>9, <2>1, <3>1
           DEF port_start, Devs, PortInv, CurrentPort, ConfZero, ConfCleared,
               InPortInit
      <3>4. QED
        BY <3>2, <3>3
    <2>3. /\ (dev \in [Ports -> Devs])' /\ dev'[portid'] = D
         /\ ReadyBefore' /\ FreshAfter' /\ ConfZero'
      <3> HIDE DEF D
      <3> QED
        BY <1>9, <2>1, <2>2, DevStep DEF port_start
    <2>4. TypeOK'
      BY <1>0, <1>9, <2>3 DEF port_start, PortInv, TypeOK, Steps
    <2>5. InOrder' /\ FreshCurrent' /\ ConfCleared'
      BY <1>0, <1>9, <2>3
         DEF port_start, PortInv, InOrder, FreshCurrent, ConfCleared, InPortInit
    <2>6. CurrentPort'
      BY <1>0, <1>9, <2>1, <2>3
         DEF port_start, PortInv, CurrentPort, FreshCurrent, NoDev, InPortInit,
             CallbackQueues, Devs
    <2>7. QED
      BY <2>3, <2>4, <2>5, <2>6 DEF PortInv
  <1>10. CASE port_promisc
    <2> DEFINE D == [dev[portid] EXCEPT !.promisc = prog.promisc]
    <2>1. dev' = [dev EXCEPT ![portid] = D] /\ portid \in Ports
      BY <1>0, <1>10 DEF port_promisc, InPortInit
    <2>2. D \in Devs /\ (D.state # "stopped" => D.conf = zero_conf)
      <3>1. dev[portid] \in Devs
        BY <1>0, <2>1
      <3>2. D \in Devs
        BY <1>0, <1>10, <2>1, <3>1, DevFields
           DEF port_promisc, PortInv, TypeOK, CurrentPort, InPortInit
      <3>3. D.state # "stopped" => D.conf = zero_conf
        BY <1>0, <1>10, <2>1, <3>1
           DEF port_promisc, Devs, PortInv, CurrentPort, ConfZero, ConfCleared,
               InPortInit
      <3>4. QED
        BY <3>2, <3>3
    <2>3. /\ (dev \in [Ports -> Devs])' /\ dev'[portid'] = D
         /\ ReadyBefore' /\ FreshAfter' /\ ConfZero'
      <3> HIDE DEF D
      <3> QED
        BY <1>10, <2>1, <2>2, DevStep DEF port_promisc
    <2>4. TypeOK'
      BY <1>0, <1>10, <2>3 DEF port_promisc, PortInv, TypeOK, Steps
    <2>5. InOrder' /\ FreshCurrent' /\ ConfCleared'
      BY <1>0, <1>10, <2>3
         DEF port_promisc, PortInv, InOrder, FreshCurrent, ConfCleared, InPortInit
    <2>6. CurrentPort'
      BY <1>0, <1>10, <2>1, <2>3
         DEF port_promisc, PortInv, CurrentPort, FreshCurrent, NoDev, InPortInit,
             CallbackQueues, Devs
    <2>7. QED
      BY <2>3, <2>4, <2>5, <2>6 DEF PortInv
  <1>11. CASE port_callbacks
    <2>1. CASE q < core_que_nr /\ prog.rx_cb
      <3>b. PICK rx \in BOOLEAN, tx \in BOOLEAN :
               dev' = [dev EXCEPT ![portid] = AddCallbacks(@, rx, tx)]
        BY <1>11, <2>1 DEF port_callbacks
      <3> DEFINE D == AddCallbacks(dev[portid], rx, tx)
      <3>a. dev' = [dev EXCEPT ![portid] = D]
        BY <3>b
      <3>1. dev' = [dev EXCEPT ![portid] = D] /\ portid \in Ports
        BY <1>0, <1>11, <3>a DEF port_callbacks, InPortInit
      <3>2. D \in Devs /\ (D.state # "stopped" => D.conf = zero_conf)
        <4>1. dev[portid] \in Devs
          BY <1>0, <3>1
        <4>a. q \in Queues
          BY <1>0, <2>1, QueueCount DEF Queues, PortInv, TypeOK
        <4>2. D \in Devs
          BY <4>1, <4>a DEF AddCallbacks, Devs
        <4>3. D.state # "stopped" => D.conf = zero_conf
          BY <1>0, <1>11, <2>1, <3>1, <4>1
             DEF AddCallbacks, port_callbacks, Devs, PortInv, CurrentPort, ConfZero,
                 ConfCleared, InPortInit
        <4>4. QED
          BY <4>2, <4>3
      <3>3. /\ (dev \in [Ports -> Devs])' /\ dev'[portid'] = D
           /\ ReadyBefore' /\ FreshAfter' /\ ConfZero'
        <4> HIDE DEF D
        <4> QED
          BY <1>11, <2>1, <3>1, <3>2, DevStep DEF port_callbacks
      <3>4. TypeOK'
        BY <1>0, <1>11, <2>1, <3>3 DEF port_callbacks, PortInv, TypeOK, Steps
      <3>5. InOrder' /\ FreshCurrent' /\ ConfCleared'
        BY <1>0, <1>11, <2>1, <3>3
           DEF port_callbacks, PortInv, InOrder, FreshCurrent, ConfCleared,
               InPortInit
      <3>6. CurrentPort'
        <4>1. dev[portid] \in Devs /\ CurrentPort /\ at = "callbacks" /\ at' = "callbacks" /\ q' = q + 1
          BY <1>0, <1>11, <2>1, <3>1 DEF port_callbacks, PortInv, InPortInit
        <4>2. /\ D.rx_cb \cup D.rx_null = 0 .. q
              /\ D.tx_cb \cup D.tx_null = IF prog.tx_cb THEN 0 .. q ELSE {}
          BY <1>0, <2>1, <4>1 DEF CurrentPort, CallbackQueues, Devs, AddCallbacks
        <4>3. D.state = "started" /\ D.rxq = core_que_nr /\ D.txq = core_que_nr
          BY <4>1 DEF CurrentPort, Devs, AddCallbacks
        <4>4. prog' = prog
          BY <1>11 DEF port_callbacks
        <4>5. QED
          BY <1>0, <2>1, <3>3, <4>1, <4>2, <4>3, <4>4
             DEF CurrentPort, CallbackQueues
      <3>7. QED
        BY <3>3, <3>4, <3>5, <3>6 DEF PortInv
    <2>2. CASE ~(q < core_que_nr /\ prog.rx_cb)
      <3>1. NextPort /\ portid \in Ports /\ Ports' = Ports /\ CurrentPort
        BY <1>0, <1>11, <2>2 DEF port_callbacks, PortInv, InPortInit, Ports
      <3>2. PortReady(portid)
        BY <1>0, <1>11, <2>2, <3>1
           DEF port_callbacks, CurrentPort, PortReady, CallbackQueues
      <3>3. ReadyBefore'
        BY <1>0, <1>11, <3>1, <3>2
           DEF port_callbacks, NextPort, PortInv, ReadyBefore, PortReady, Ports
      <3>4. FreshAfter' /\ FreshCurrent' /\ ConfZero' /\ InOrder' /\ ConfCleared'
        BY <1>0, <1>11, <3>1
           DEF port_callbacks, NextPort, PortInv, FreshAfter, FreshCurrent,
               ConfZero, InOrder, ConfCleared, InPortInit, Ports
      <3>5. TypeOK'
        BY <1>0, <1>11, <3>1
           DEF port_callbacks, NextPort, PortInv, TypeOK, Steps, Ports
      <3>6. QED
        BY <3>1, <3>3, <3>4, <3>5 DEF PortInv, NextPort, InPortInit, CurrentPort
    <2>3. QED
      BY <2>1, <2>2
  <1>12. CASE main_launch
    <2>1. (dev \in [Ports -> Devs])' /\ ReadyBefore' /\ FreshAfter' /\ ConfZero'
      BY <1>12, DevUnchanged DEF main_launch
    <2>2. TypeOK'
      BY <1>12, <2>1 DEF main_launch, PortInv, TypeOK, Steps, Confs, zero_conf
    <2>3. InOrder' /\ FreshCurrent' /\ ConfCleared'
      BY <1>0, <1>12
         DEF main_launch, PortInv, InOrder, FreshCurrent, ConfCleared, InPortInit
    <2>4. (at \in InPortInit => CurrentPort)'
      BY <1>12 DEF main_launch, InPortInit, CurrentPort
    <2>5. QED
      BY <2>1, <2>2, <2>3, <2>4 DEF PortInv
  <1>13. CASE UNCHANGED vars
    BY <1>13
       DEF vars, PortInv, TypeOK, InOrder, CurrentPort, ReadyBefore, PortReady,
                FreshAfter, FreshCurrent, ConfCleared, ConfZero, Ports
  <1>14. QED
    BY <1>1, <1>2, <1>3, <1>4, <1>5, <1>6, <1>7, <1>8, <1>9, <1>10, <1>11, <1>12, <1>13
       DEF Next, Finished

-------------------------------------------------------------------------------
\* main and port_init bring the ports up one after the other, whatever the
\* devices can do and whichever call fails.
THEOREM PortInvariance == Spec => []PortInv
  BY PortInitial, PortStep, PTL DEF Spec

\* Type correctness of main and port_init.
THEOREM PortTypeCorrect == Spec => []TypeOK
  <1>1. PortInv => TypeOK
    BY DEF PortInv
  <1>2. QED
    BY PortInvariance, <1>1, PTL

\* The lcores' ids are 0, 1, ... without gaps, as the EAL gives them when the
\* program is started on the first cores.
LcoresFromZero == LcoreIds = 0 .. core_que_nr - 1

\* Under that assumption, when lcore_main is launched every port is started and has
\* the RX and TX queue numbered rte_lcore_id() for each lcore.
THEOREM LaunchedReady == ASSUME LcoresFromZero PROVE Spec => []PolledQueueReady
  <1>1. PortInv => PolledQueueReady
    <2> SUFFICES ASSUME PortInv, at = "running",
                        NEW p \in Ports, NEW l \in LcoreIds
                 PROVE  dev[p].state = "started" /\ l < dev[p].rxq /\ l < dev[p].txq
      BY DEF PolledQueueReady
    <2>1. PortReady(p)
      BY PortAssumption DEF PortInv, TypeOK, InOrder, ReadyBefore, Ports
    <2>2. l \in Nat /\ l < core_que_nr
      BY QueueCount DEF LcoresFromZero
    <2>3. QED
      BY <2>1, <2>2 DEF PortReady
  <1>2. QED
    BY PortInvariance, <1>1, PTL

\* Under the same assumption, when lcore_main is launched a queue that an lcore polls
\* lacks a callback of its program only if the call to add it returned NULL.
THEOREM LaunchedCallbacks ==
  ASSUME LcoresFromZero PROVE Spec => []MissingCallbackRefused
  <1>1. PortInv => MissingCallbackRefused
    <2> SUFFICES ASSUME PortInv, at = "running",
                        NEW p \in Ports, NEW l \in LcoreIds
                 PROVE  /\ prog.rx_cb <=> l \in dev[p].rx_cb \cup dev[p].rx_null
                        /\ prog.rx_cb /\ prog.tx_cb
                             <=> l \in dev[p].tx_cb \cup dev[p].tx_null
      BY DEF MissingCallbackRefused
    <2>1. PortReady(p)
      BY PortAssumption DEF PortInv, TypeOK, InOrder, ReadyBefore, Ports
    <2>2. l \in 0 .. core_que_nr - 1
      BY DEF LcoresFromZero
    <2>3. QED
      BY <2>1, <2>2 DEF PortReady, CallbackQueues
  <1>2. QED
    BY PortInvariance, <1>1, PTL

\* All ports that port_init has configured have the same configuration: it is the
\* cleared global one for the first port too.
THEOREM ConfiguredAlike == Spec => []PortsAlike
  <1>1. PortInv => PortsAlike
    BY DEF PortInv, ConfZero, PortsAlike
  <1>2. QED
    BY PortInvariance, <1>1, PTL
===============================================================================
