---------------------------- MODULE RttClientProofs ----------------------------
(***************************************************************************)
(* Proofs about RttClient and the checksum its servers write, for every     *)
(* word size, number of chunks and passes, and however many datagrams are   *)
(* lost, duplicated or sent by others.                                      *)
(***************************************************************************)
EXTENDS RttClient, FiniteSetTheorems, SequenceTheorems, TLAPS

(* The checksum.                                                             *)

\* The checksum is a half-word.
LEMMA ChecksumType ==
  ASSUME NEW hi \in Halves, NEW lo \in Halves
  PROVE  caludpcsum(hi, lo) \in Halves
BY WAssumption DEF caludpcsum, not16, u16, Halves

(***************************************************************************)
(* The receiver accepts the checksum caludpcsum computes exactly when       *)
(* adding the two halves of the 32-bit sum does not carry.  The code folds  *)
(* once and drops the carry of that fold: a packet whose halves add up to W *)
(* or more is sent with a checksum that is wrong by one.                    *)
(***************************************************************************)
THEOREM ChecksumRightIffNoCarry ==
  \A hi, lo \in Halves : Verifies(hi, lo, caludpcsum(hi, lo)) <=> hi + lo < W
<1>1. SUFFICES ASSUME NEW hi \in Halves, NEW lo \in Halves
               PROVE  Verifies(hi, lo, caludpcsum(hi, lo)) <=> hi + lo < W
  OBVIOUS
<1>2. CASE hi + lo < W
  <2>1. caludpcsum(hi, lo) = W - 1 - (lo + hi)
    BY <1>2, WAssumption DEF caludpcsum, not16, u16, Halves
  <2>2. OnesAdd(lo, hi) = lo + hi
    BY <1>2, WAssumption DEF OnesAdd, Halves
  <2>3. OnesAdd(lo + hi, W - 1 - (lo + hi)) = W - 1
    BY <1>2, WAssumption DEF OnesAdd, Halves
  <2> QED
    BY <1>2, <2>1, <2>2, <2>3 DEF Verifies
<1>3. CASE hi + lo >= W
  <2>1. caludpcsum(hi, lo) = 2 * W - 1 - (lo + hi)
    BY <1>3, WAssumption DEF caludpcsum, not16, u16, Halves
  <2>2. caludpcsum(hi, lo) # 0
    BY <2>1, WAssumption DEF Halves
  <2>3. OnesAdd(lo, hi) = lo + hi - W + 1
    BY <1>3, WAssumption DEF OnesAdd, Halves
  <2>4. OnesAdd(lo + hi - W + 1, 2 * W - 1 - (lo + hi)) = 1
    BY <1>3, WAssumption DEF OnesAdd, Halves
  <2>5. W - 1 # 1
    BY WAssumption
  <2> QED
    BY <1>3, <2>1, <2>2, <2>3, <2>4, <2>5, WAssumption DEF Verifies, Halves
<1> QED
  BY <1>2, <1>3, WAssumption DEF Halves

--------------------------------------------------------------------------------
(* The inductive invariant of the client, the servers and the network.       *)

\* The copies in a bag of datagrams, and the number of datagrams on their way.
Copies(bag) == UNION {{x} \X (1 .. bag[x]) : x \in DOMAIN bag}
InFlight == Cardinality(Copies(out)) + Cardinality(Copies(back))

\* How far the client is with the pass, in each of its phases.
PhaseInv ==
  /\ pc # "done" => rep < NR_REP
  /\ client.flood => rep = 0 /\ times = <<>> /\ pc \notin {"recv", "rows", "done"}
  /\ ~client.flood => pc # "listen"
  /\ pc = "open" => i = 0 /\ times = <<>>
  /\ pc \in {"send", "recv"} => i < CHUNKS /\ (~client.flood => Len(times) = i)
  /\ pc \in {"save", "rows"} /\ ~client.flood => Len(times) = CHUNKS

\* The rows of a paced client, printed and in the buffer, are numbered through.
RowsInv ==
  ~client.flood =>
    /\ pc # "rows" => buf = <<>>
    /\ pc \notin {"rows", "dead"} => Len(file) = rep * CHUNKS
    /\ pc = "rows" => Len(file) + Len(buf) = rep * CHUNKS + i
    /\ Len(file) >= rep * CHUNKS
    /\ \A k \in 1 .. Len(file) : file[k].chunk = k
    /\ \A k \in 1 .. Len(buf) : buf[k].chunk = Len(file) + k

\* What was sent, or came on top of it, was received, lost or is on its way.
BalanceInv ==
  /\ IsFiniteSet(Copies(out)) /\ IsFiniteSet(Copies(back))
  /\ ~client.flood /\ pc # "dead" =>
       InFlight + lost = extra + (IF pc = "recv" THEN 1 ELSE 0)

\* Only the current chunk and its answer are on their way.
CurrentInv ==
  extra = 0 /\ ~client.flood /\ pc = "recv" =>
    /\ \A n \in 1 .. Total : out[n] > 0 => n = Chunk
    /\ \A d \in Datagrams : back[d] > 0 => d.chunk = Chunk

RttInv ==
  /\ TypeOK /\ PhaseInv /\ RowsInv /\ BalanceInv /\ CurrentInv /\ OwnAnswer

USE RttAssumption, WAssumption

\* There is at least one pass of chunks.
LEMMA TotalType == Total \in Nat /\ Total >= CHUNKS
  <1>1. NR_REP * CHUNKS \in Nat
    OBVIOUS
  <1>2. PICK m \in Nat : NR_REP = m + 1
    BY NR_REP - 1 \in Nat
  <1>3. (m + 1) * CHUNKS = m * CHUNKS + CHUNKS /\ m * CHUNKS \in Nat
    OBVIOUS
  <1>4. QED
    BY <1>1, <1>2, <1>3 DEF Total

\* While a pass is under way the current chunk is one of the file.
LEMMA ChunkType ==
  ASSUME rep \in Nat, rep < NR_REP, i \in Nat, i < CHUNKS
  PROVE  /\ Chunk \in 1 .. Total /\ rep * CHUNKS \in Nat
         /\ Chunk = rep * CHUNKS + (i + 1)
  <1>1. rep * CHUNKS \in Nat
    OBVIOUS
  <1>2. PICK m \in Nat : NR_REP = rep + 1 + m
    BY NR_REP - rep - 1 \in Nat
  <1>3. (rep + 1 + m) * CHUNKS = rep * CHUNKS + CHUNKS + m * CHUNKS
    OBVIOUS
  <1>4. m * CHUNKS \in Nat
    OBVIOUS
  <1>5. QED
    BY <1>1, <1>2, <1>3, <1>4 DEF Chunk, Total

\* A bag of datagrams has one copy more, or less, after Add and Remove.
LEMMA CopiesAdd ==
  ASSUME NEW S, NEW bag \in [S -> Nat], NEW x \in S, IsFiniteSet(Copies(bag))
  PROVE  /\ Add(bag, x) \in [S -> Nat]
         /\ IsFiniteSet(Copies(Add(bag, x)))
         /\ Cardinality(Copies(Add(bag, x))) = Cardinality(Copies(bag)) + 1
  <1> DEFINE p == <<x, bag[x] + 1>>
             C == Copies(bag)
  <1>1. Add(bag, x) \in [S -> Nat]
    BY DEF Add
  <1>2. Copies(Add(bag, x)) = C \cup {p}
    BY DEF Copies, Add
  <1>3. p \notin C
    BY DEF Copies
  <1> HIDE DEF p, C
  <1>4. IsFiniteSet(C)
    BY DEF C
  <1>5. IsFiniteSet(C \cup {p}) /\ Cardinality(C \cup {p}) = Cardinality(C) + 1
    BY <1>3, <1>4, FS_AddElement
  <1>6. QED
    BY <1>1, <1>2, <1>5 DEF C

\* A datagram that leaves the network takes one copy with it.
LEMMA CopiesRemove ==
  ASSUME NEW S, NEW bag \in [S -> Nat], NEW x \in S, bag[x] > 0,
         IsFiniteSet(Copies(bag))
  PROVE  /\ Remove(bag, x) \in [S -> Nat]
         /\ IsFiniteSet(Copies(Remove(bag, x)))
         /\ Cardinality(Copies(Remove(bag, x))) = Cardinality(Copies(bag)) - 1
  <1> DEFINE p == <<x, bag[x]>>
             C == Copies(bag)
  <1>1. Remove(bag, x) \in [S -> Nat]
    BY DEF Remove
  <1>2. Copies(Remove(bag, x)) = C \ {p}
    BY DEF Copies, Remove
  <1>3. p \in C
    BY DEF Copies
  <1> HIDE DEF p, C
  <1>4. IsFiniteSet(C)
    BY DEF C
  <1>5. IsFiniteSet(C \ {p}) /\ Cardinality(C \ {p}) = Cardinality(C) - 1
    BY <1>3, <1>4, FS_RemoveElement
  <1>6. QED
    BY <1>1, <1>2, <1>5 DEF C

\* A bag without copies is empty.
LEMMA NoCopies ==
  ASSUME NEW S, NEW bag \in [S -> Nat], IsFiniteSet(Copies(bag)),
         Cardinality(Copies(bag)) = 0
  PROVE  \A x \in S : bag[x] = 0
  <1>1. Copies(bag) = {}
    BY FS_EmptySet
  <1>2. \A x \in S : bag[x] > 0 => <<x, 1>> \in Copies(bag)
    BY DEF Copies
  <1>3. QED
    BY <1>1, <1>2

\* The network starts without a datagram.
LEMMA EmptyBag ==
  ASSUME NEW S
  PROVE  /\ IsFiniteSet(Copies([x \in S |-> 0]))
         /\ Cardinality(Copies([x \in S |-> 0])) = 0
  <1>1. Copies([x \in S |-> 0]) = {}
    BY DEF Copies
  <1>2. QED
    BY <1>1, FS_EmptySet

\* Initially nothing was sent and nothing is on its way.
LEMMA RttInit == Init => RttInv
  <1> SUFFICES ASSUME Init PROVE RttInv
    OBVIOUS
  <1> USE DEF Init
  <1>1. TypeOK
    BY TotalType DEF TypeOK, PCs, Handles
  <1>2. PhaseInv /\ RowsInv
    BY DEF PhaseInv, RowsInv
  <1>3. BalanceInv
    <2>1. /\ IsFiniteSet(Copies(out)) /\ Cardinality(Copies(out)) = 0
          /\ IsFiniteSet(Copies(back)) /\ Cardinality(Copies(back)) = 0
      BY EmptyBag
    <2>2. InFlight = 0
      BY <2>1 DEF InFlight
    <2>3. QED
      BY <2>1, <2>2 DEF BalanceInv
  <1>4. CurrentInv
    BY DEF CurrentInv
  <1>5. Measured = {}
    BY DEF Measured
  <1>6. OwnAnswer
    BY <1>5 DEF OwnAnswer
  <1>7. QED
    BY <1>1, <1>2, <1>3, <1>4, <1>6 DEF RttInv

\* The parts of the state that a step of the server or the network leaves alone.
Outside == UNCHANGED <<rttVars, pc, rep, i, fileVars, times>>

\* The server and the network touch neither the client nor its files.
LEMMA OutsideSteps ==
  Serve \/ lose \/ duplicate \/ intrude => Outside
  BY DEF Serve, swap_and_send, stamp_and_send, echo, lose, duplicate, intrude, Outside

\* What the server and the network do to the two bags.
Delivered(n) ==
  /\ out[n] > 0 /\ out' = Remove(out, n) /\ Answered(n)
  /\ server.answer = "echo" => owner = "client"
  /\ UNCHANGED <<lost, extra>>
LostOut(n) ==
  out[n] > 0 /\ out' = Remove(out, n) /\ lost' = lost + 1 /\ UNCHANGED <<back, extra>>
LostBack(d) ==
  back[d] > 0 /\ back' = Remove(back, d) /\ lost' = lost + 1 /\ UNCHANGED <<out, extra>>
MoreOut(n) ==
  /\ out[n] > 0 /\ out' = Add(out, n)
  /\ extra < MaxExtra /\ extra' = extra + 1 /\ UNCHANGED <<back, lost>>
MoreBack(d) ==
  /\ back[d] > 0 \/ d.from = "other"
  /\ back' = Add(back, d)
  /\ extra < MaxExtra /\ extra' = extra + 1 /\ UNCHANGED <<out, lost>>

\* Each of their steps delivers, loses or adds one datagram, or does nothing.
LEMMA BagSteps ==
  ASSUME Serve \/ lose \/ duplicate \/ intrude
  PROVE  \/ \E n \in 1 .. Total : Delivered(n) \/ LostOut(n) \/ MoreOut(n)
         \/ \E d \in Datagrams : LostBack(d) \/ MoreBack(d)
         \/ UNCHANGED netVars
  <1> USE DEF Delivered, LostOut, LostBack, MoreOut, MoreBack
  <1>1. CASE Serve
    <2>1. PICK n \in 1 .. Total : swap_and_send(n) \/ stamp_and_send(n) \/ echo(n)
      BY <1>1 DEF Serve
    <2>2. CASE swap_and_send(n)
      BY <2>2 DEF swap_and_send
    <2>3. CASE stamp_and_send(n)
      BY <2>3 DEF stamp_and_send
    <2>4. CASE echo(n)
      BY <2>4 DEF echo, netVars
    <2>5. QED
      BY <2>1, <2>2, <2>3, <2>4
  <1>2. CASE lose
    BY <1>2 DEF lose
  <1>3. CASE duplicate
    BY <1>3 DEF duplicate
  <1>4. CASE intrude
    <2>1. [chunk |-> 0, from |-> "other"] \in Datagrams
      BY DEF Datagrams
    <2>2. QED
      BY <1>4, <2>1 DEF intrude
  <1>5. QED
    BY <1>1, <1>2, <1>3, <1>4

\* Where a chunk goes, in terms of the two bags.
LEMMA EmitStep ==
  ASSUME TypeOK, Emit, Chunk \in 1 .. Total
  PROVE  \/ /\ to_own_host /\ UNCHANGED out
            /\ [chunk |-> Chunk, from |-> "client"] \in Datagrams
            /\ back' = Add(back, [chunk |-> Chunk, from |-> "client"])
         \/ ~to_own_host /\ out' = Add(out, Chunk) /\ UNCHANGED back
  BY DEF Emit, Datagrams

\* Adding and removing datagrams gives numbers of copies.
LEMMA BagTypes ==
  ASSUME NEW S, NEW bag \in [S -> Nat], NEW x \in S
  PROVE  /\ Add(bag, x) \in [S -> Nat]
         /\ bag[x] > 0 => Remove(bag, x) \in [S -> Nat]
  BY DEF Add, Remove

\* The answer to a chunk is a datagram.
LEMMA AnswerType ==
  ASSUME NEW n \in 1 .. Total
  PROVE  [chunk |-> n, from |-> "server"] \in Datagrams
  BY DEF Datagrams

\* Every step keeps the types and how far the client is with the pass.
LEMMA TypeStep ==
  ASSUME RttInv, [Next]_vars
  PROVE  TypeOK' /\ PhaseInv'
  <1> USE DEF RttInv
  <1>t. TypeOK /\ PhaseInv
    OBVIOUS
  <1>c. client.flood \in BOOLEAN
    BY DEF TypeOK
  <1>b. /\ \A n \in 1 .. Total :
             /\ Add(out, n) \in [1 .. Total -> Nat]
             /\ out[n] > 0 => Remove(out, n) \in [1 .. Total -> Nat]
             /\ Add(back, [chunk |-> n, from |-> "server"]) \in [Datagrams -> Nat]
        /\ \A d \in Datagrams :
             /\ Add(back, d) \in [Datagrams -> Nat]
             /\ back[d] > 0 => Remove(back, d) \in [Datagrams -> Nat]
    <2>1. out \in [1 .. Total -> Nat] /\ back \in [Datagrams -> Nat]
      BY <1>t DEF TypeOK
    <2>2. QED
      BY <2>1, BagTypes, AnswerType
  <1>1. CASE UNCHANGED vars \/ Ended
    BY <1>1, <1>t DEF Ended, vars, rttVars, fileVars, netVars, TypeOK, PhaseInv
  <1>2. CASE fopen_read
    BY <1>2, <1>t DEF fopen_read, rttVars, netVars, TypeOK, PhaseInv, PCs, Handles
  <1>3. CASE sendto
    <2>1. Chunk \in 1 .. Total
      BY <1>3, <1>t, ChunkType DEF sendto, TypeOK, PhaseInv
    <2>2. out' \in [1 .. Total -> Nat] /\ back' \in [Datagrams -> Nat]
      <3>1. Emit /\ out \in [1 .. Total -> Nat] /\ back \in [Datagrams -> Nat]
        BY <1>3, <1>t DEF sendto, TypeOK
      <3>2. QED
        BY <1>b, <1>t, <2>1, <3>1, EmitStep
    <2>3. QED
      BY <1>3, <1>t, <1>c, <2>2
         DEF sendto, AfterChunk, rttVars, fileVars, TypeOK, PhaseInv, PCs
  <1>4. CASE recvfrom
    <2>1. PICK d \in Datagrams :
            back[d] > 0 /\ back' = Remove(back, d) /\ times' = Append(times, d)
      BY <1>4 DEF recvfrom
    <2>2. back' \in [Datagrams -> Nat]
      BY <1>t, <2>1, BagTypes DEF TypeOK
    <2>3. times' \in Seq(Datagrams) /\ Len(times') = Len(times) + 1
      BY <1>t, <2>1 DEF TypeOK
    <2>4. QED
      BY <1>4, <1>t, <1>c, <2>2, <2>3
         DEF recvfrom, AfterChunk, rttVars, fileVars, TypeOK, PhaseInv, PCs
  <1>5. CASE fopen_write
    BY <1>5, <1>t, <1>c DEF fopen_write, rttVars, netVars, TypeOK, PhaseInv, PCs, Handles
  <1>6. CASE fprintf
    <2>1. Chunk \in 1 .. Total /\ ~client.flood /\ times[i + 1] \in Datagrams
      <3>1. pc = "rows" /\ i < CHUNKS /\ ~client.flood /\ Len(times) = CHUNKS
        BY <1>6, <1>t DEF fprintf, PhaseInv
      <3>2. QED
        BY <1>t, <3>1, ChunkType DEF PhaseInv, TypeOK
    <2>2. Row(Chunk, times[i + 1]) \in Rows
      BY <2>1, TotalType DEF Row, Rows
    <2>3. QED
      BY <1>6, <1>t, <2>2 DEF fprintf, rttVars, netVars, TypeOK, PhaseInv
  <1>7. CASE flush
    BY <1>7, <1>t DEF flush, rttVars, netVars, TypeOK, PhaseInv
  <1>8. CASE fclose_write
    BY <1>8, <1>t DEF fclose_write, rttVars, netVars, TypeOK, PhaseInv, PCs, Handles
  <1>9. CASE listen
    <2>1. PICK d \in Datagrams :
            /\ back[d] > 0 /\ back' = Remove(back, d)
            /\ buf' = Append(buf, Row(0, d)) \/ UNCHANGED buf
      BY <1>9 DEF listen
    <2>2. back' \in [Datagrams -> Nat]
      BY <1>t, <2>1, BagTypes DEF TypeOK
    <2>3. Row(0, d) \in Rows
      BY TotalType DEF Row, Rows
    <2>4. buf' \in Seq(Rows)
      <3>1. buf \in Seq(Rows)
        BY <1>t DEF TypeOK
      <3>2. Append(buf, Row(0, d)) \in Seq(Rows)
        BY <2>3, <3>1
      <3>3. QED
        BY <2>1, <3>1, <3>2
    <2>5. QED
      BY <1>9, <1>t, <2>2, <2>4 DEF listen, rttVars, TypeOK, PhaseInv
  <1>10. CASE int_exit
    <2>1. file \in Seq(Rows) /\ buf \in Seq(Rows)
      BY <1>t DEF TypeOK
    <2>2. file \o buf \in Seq(Rows) /\ <<>> \in Seq(Rows)
      BY <2>1
    <2>3. /\ file' \in Seq(Rows) /\ buf' \in Seq(Rows) /\ pc' = "dead"
          /\ pc # "done"
          /\ UNCHANGED <<rttVars, rep, i, rfptr, wfptr, times, netVars>>
      BY <1>10, <2>1, <2>2 DEF int_exit
    <2>4. QED
      BY <1>t, <2>3 DEF rttVars, netVars, TypeOK, PhaseInv, PCs
  <1>11. CASE Serve \/ lose \/ duplicate \/ intrude
    <2>1. Outside
      BY <1>11, OutsideSteps
    <2>2. /\ out' \in [1 .. Total -> Nat] /\ back' \in [Datagrams -> Nat]
          /\ lost' \in Nat /\ extra' \in 0 .. MaxExtra
      <3>1. /\ out \in [1 .. Total -> Nat] /\ back \in [Datagrams -> Nat]
            /\ lost \in Nat /\ extra \in 0 .. MaxExtra
        BY <1>t DEF TypeOK
      <3> DEFINE Goal == /\ out' \in [1 .. Total -> Nat] /\ back' \in [Datagrams -> Nat]
                         /\ lost' \in Nat /\ extra' \in 0 .. MaxExtra
      <3>2. ASSUME NEW n \in 1 .. Total, Delivered(n) \/ LostOut(n) \/ MoreOut(n)
            PROVE  Goal
        <4>1. /\ Add(out, n) \in [1 .. Total -> Nat]
              /\ out[n] > 0 => Remove(out, n) \in [1 .. Total -> Nat]
              /\ Add(back, [chunk |-> n, from |-> "server"]) \in [Datagrams -> Nat]
          BY <1>b
        <4>2. CASE Delivered(n)
          BY <3>1, <4>1, <4>2 DEF Delivered, Answered
        <4>3. CASE LostOut(n) \/ MoreOut(n)
          BY <3>1, <4>1, <4>3 DEF LostOut, MoreOut
        <4>4. QED
          BY <3>2, <4>2, <4>3
      <3>3. ASSUME NEW d \in Datagrams, LostBack(d) \/ MoreBack(d)
            PROVE  Goal
        <4>1. /\ Add(back, d) \in [Datagrams -> Nat]
              /\ back[d] > 0 => Remove(back, d) \in [Datagrams -> Nat]
          BY <1>b
        <4>2. QED
          BY <3>1, <3>3, <4>1 DEF LostBack, MoreBack
      <3>4. CASE UNCHANGED netVars
        BY <3>1, <3>4 DEF netVars
      <3>5. QED
        BY <1>11, <3>2, <3>3, <3>4, BagSteps
    <2>3. QED
      BY <1>t, <2>1, <2>2 DEF Outside, rttVars, fileVars, TypeOK, PhaseInv
  <1>12. QED
    BY <1>1, <1>2, <1>3, <1>4, <1>5, <1>6, <1>7, <1>8, <1>9, <1>10, <1>11
       DEF Next, ClientStep

\* The buffer continues the file.
LEMMA Joined ==
  ASSUME file \in Seq(Rows), buf \in Seq(Rows),
         \A k \in 1 .. Len(file) : file[k].chunk = k,
         \A k \in 1 .. Len(buf) : buf[k].chunk = Len(file) + k
  PROVE  /\ file \o buf \in Seq(Rows) /\ Len(file \o buf) = Len(file) + Len(buf)
         /\ \A k \in 1 .. Len(file \o buf) : (file \o buf)[k].chunk = k
  <1>1. file \o buf \in Seq(Rows) /\ Len(file \o buf) = Len(file) + Len(buf)
    OBVIOUS
  <1>2. ASSUME NEW k \in 1 .. Len(file) + Len(buf)
        PROVE  (file \o buf)[k].chunk = k
    <2>1. CASE k <= Len(file)
      BY <2>1
    <2>2. CASE k > Len(file)
      <3>1. (file \o buf)[k] = buf[k - Len(file)] /\ k - Len(file) \in 1 .. Len(buf)
        BY <2>2
      <3>2. QED
        BY <3>1
    <2>3. QED
      BY <2>1, <2>2
  <1>3. QED
    BY <1>1, <1>2

\* Every step keeps the numbering of the rows in the file and the stdio buffer.
LEMMA RowsStep ==
  ASSUME RttInv, [Next]_vars
  PROVE  RowsInv'
  <1>t. /\ file \in Seq(Rows) /\ buf \in Seq(Rows) /\ i \in 0 .. CHUNKS
        /\ rep \in Nat /\ PhaseInv /\ RowsInv
    BY DEF RttInv, TypeOK
  <1>c. client' = client
    BY DEF Next, ClientStep, fopen_read, sendto, recvfrom, fopen_write, fprintf,
           fclose_write, listen, flush, int_exit, Serve, swap_and_send,
           stamp_and_send, echo, lose, duplicate, intrude, Ended, vars, rttVars
  <1> SUFFICES ASSUME ~client.flood PROVE RowsInv'
    BY <1>c DEF RowsInv
  <1>m. rep * CHUNKS \in Nat /\ (rep + 1) * CHUNKS = rep * CHUNKS + CHUNKS
    BY <1>t
  <1>r. /\ pc # "rows" => buf = <<>>
        /\ pc \notin {"rows", "dead"} => Len(file) = rep * CHUNKS
        /\ pc = "rows" => Len(file) + Len(buf) = rep * CHUNKS + i
        /\ Len(file) >= rep * CHUNKS
        /\ \A k \in 1 .. Len(file) : file[k].chunk = k
        /\ \A k \in 1 .. Len(buf) : buf[k].chunk = Len(file) + k
    BY <1>t DEF RowsInv
  <1>j. /\ file \o buf \in Seq(Rows) /\ Len(file \o buf) = Len(file) + Len(buf)
        /\ \A k \in 1 .. Len(file \o buf) : (file \o buf)[k].chunk = k
    BY <1>t, <1>r, Joined
  <1>1. CASE UNCHANGED vars \/ Ended
    BY <1>1, <1>r DEF Ended, vars, fileVars, RowsInv
  <1>2. CASE fopen_read \/ sendto \/ recvfrom
    <2>1. /\ UNCHANGED <<buf, file, rep>> /\ pc' \in {"send", "recv", "save", "dead"}
          /\ pc \in {"open", "send", "recv"}
      BY <1>2 DEF fopen_read, sendto, recvfrom, AfterChunk, fileVars
    <2>2. QED
      BY <1>r, <2>1 DEF RowsInv
  <1>3. CASE fopen_write
    <2>1. /\ UNCHANGED <<buf, file, rep>> /\ pc' \in {"rows", "dead"} /\ i' = 0
          /\ pc = "save"
      BY <1>3 DEF fopen_write
    <2>2. QED
      BY <1>r, <1>m, <1>t, <2>1 DEF RowsInv
  <1>4. CASE fprintf
    <2> DEFINE row == Row(Chunk, times[i + 1])
    <2>1. /\ pc = "rows" /\ i < CHUNKS /\ buf' = Append(buf, row) /\ i' = i + 1
          /\ UNCHANGED <<pc, rep, file>>
      BY <1>4 DEF fprintf
    <2>2. row.chunk = rep * CHUNKS + i + 1
      BY DEF Row, Chunk
    <2> HIDE DEF row
    <2>3. /\ Len(buf') = Len(buf) + 1 /\ buf'[Len(buf) + 1] = row
          /\ \A k \in 1 .. Len(buf) : buf'[k] = buf[k]
      BY <1>t, <2>1
    <2>4. \A k \in 1 .. Len(buf') : buf'[k].chunk = Len(file) + k
      <3> SUFFICES ASSUME NEW k \in 1 .. Len(buf) + 1
                   PROVE  buf'[k].chunk = Len(file) + k
        BY <2>3
      <3>1. CASE k \in 1 .. Len(buf)
        BY <1>r, <2>3, <3>1
      <3>2. CASE k = Len(buf) + 1
        BY <1>r, <1>m, <1>t, <2>1, <2>2, <2>3, <3>2
      <3>3. QED
        BY <1>t, <3>1, <3>2
    <2>5. QED
      <3>1. Len(file) + Len(buf') = rep * CHUNKS + i'
        BY <1>r, <1>m, <1>t, <2>1, <2>3
      <3>2. QED
        BY <1>r, <2>1, <2>4, <3>1 DEF RowsInv
  <1>5. CASE flush
    <2>1. file' = file \o buf /\ buf' = <<>> /\ UNCHANGED <<pc, rep, i>>
      BY <1>5 DEF flush
    <2>2. QED
      BY <1>r, <1>m, <1>t, <1>j, <2>1 DEF RowsInv
  <1>6. CASE fclose_write
    <2>1. /\ pc = "rows" /\ i = CHUNKS /\ file' = file \o buf /\ buf' = <<>>
          /\ rep' = rep + 1 /\ pc' \in {"done", "open"}
      BY <1>6 DEF fclose_write
    <2>2. Len(file') = rep' * CHUNKS
      BY <1>r, <1>m, <1>j, <2>1
    <2>3. QED
      BY <1>j, <1>m, <2>1, <2>2 DEF RowsInv
  <1>7. CASE listen
    BY <1>7, <1>t DEF listen, PhaseInv
  <1>8. CASE int_exit
    <2>1. /\ file' = file \o buf \/ file' = file
          /\ buf' = <<>> /\ pc' = "dead" /\ rep' = rep
      BY <1>8 DEF int_exit
    <2>2. QED
      BY <1>r, <1>m, <1>t, <1>j, <2>1, SMTT(30) DEF RowsInv
  <1>9. CASE Serve \/ lose \/ duplicate \/ intrude
    BY <1>9, <1>r, OutsideSteps DEF Outside, fileVars, RowsInv
  <1>10. QED
    BY <1>1, <1>2, <1>3, <1>4, <1>5, <1>6, <1>7, <1>8, <1>9 DEF Next, ClientStep

\* The number of datagrams on their way after a step.
LEMMA BalanceStep ==
  ASSUME RttInv, [Next]_vars
  PROVE  BalanceInv'
  <1>t. /\ out \in [1 .. Total -> Nat] /\ back \in [Datagrams -> Nat]
        /\ lost \in Nat /\ extra \in Nat /\ PhaseInv /\ BalanceInv /\ TypeOK
        /\ IsFiniteSet(Copies(out)) /\ IsFiniteSet(Copies(back))
    BY DEF RttInv, TypeOK, BalanceInv
  <1>c. client' = client
    BY DEF Next, ClientStep, fopen_read, sendto, recvfrom, fopen_write, fprintf,
           fclose_write, listen, flush, int_exit, Serve, swap_and_send,
           stamp_and_send, echo, lose, duplicate, intrude, Ended, vars, rttVars
  <1> DEFINE O == Cardinality(Copies(out))
             B == Cardinality(Copies(back))
             Fin == IsFiniteSet(Copies(out)) /\ IsFiniteSet(Copies(back))
  <1>n. O \in Nat /\ B \in Nat
    BY <1>t, FS_CardinalityType
  <1>i. InFlight = O + B /\ InFlight' = O' + B'
    BY DEF InFlight
  <1> HIDE DEF O, B
  <1> SUFFICES Fin' /\ (~client.flood /\ pc' # "dead" =>
                          O' + B' + lost' = extra' + (IF pc' = "recv" THEN 1 ELSE 0))
    BY <1>c, <1>i DEF BalanceInv
  <1> HIDE DEF Fin
  <1>b. ~client.flood /\ pc # "dead" =>
          O + B + lost = extra + (IF pc = "recv" THEN 1 ELSE 0)
    BY <1>t, <1>i DEF BalanceInv
  <1>s. UNCHANGED <<out, back>> => O' = O /\ B' = B /\ Fin'
    BY <1>t DEF O, B, Fin
  <1>ao. ASSUME NEW n \in 1 .. Total, out' = Add(out, n), back' = back
         PROVE  O' = O + 1 /\ B' = B /\ Fin'
    BY <1>t, <1>ao, CopiesAdd DEF O, B, Fin
  <1>ab. ASSUME NEW d \in Datagrams, back' = Add(back, d), out' = out
         PROVE  O' = O /\ B' = B + 1 /\ Fin'
    BY <1>t, <1>ab, CopiesAdd DEF O, B, Fin
  <1>ro. ASSUME NEW n \in 1 .. Total, out[n] > 0, out' = Remove(out, n), back' = back
         PROVE  O' = O - 1 /\ B' = B /\ Fin'
    BY <1>t, <1>ro, CopiesRemove DEF O, B, Fin
  <1>rb. ASSUME NEW d \in Datagrams, back[d] > 0, back' = Remove(back, d), out' = out
         PROVE  O' = O /\ B' = B - 1 /\ Fin'
    BY <1>t, <1>rb, CopiesRemove DEF O, B, Fin
  <1>1. CASE UNCHANGED vars \/ Ended \/ fopen_read \/ fopen_write \/ fprintf
             \/ flush \/ fclose_write \/ int_exit
    <2>1. /\ UNCHANGED netVars
          /\ pc' = "dead" \/ (pc # "dead" /\ (pc' = "recv" <=> pc = "recv"))
      BY <1>1 DEF Ended, fopen_read, fopen_write, fprintf, flush, fclose_write, int_exit, vars
    <2>2. QED
      BY <1>b, <1>s, <1>n, <1>t, <2>1 DEF netVars
  <1>2. CASE sendto
    <2>1. /\ Emit /\ Chunk \in 1 .. Total /\ UNCHANGED <<lost, extra>> /\ pc = "send"
          /\ ~client.flood => pc' = "recv"
      BY <1>2, <1>t, ChunkType DEF sendto, TypeOK, PhaseInv
    <2>2. O' + B' = O + B + 1 /\ Fin'
      <3> DEFINE d == [chunk |-> Chunk, from |-> "client"]
      <3>1. \/ d \in Datagrams /\ back' = Add(back, d) /\ out' = out
            \/ out' = Add(out, Chunk) /\ back' = back
        BY <1>t, <2>1, EmitStep
      <3> HIDE DEF d
      <3>2. CASE d \in Datagrams /\ back' = Add(back, d) /\ out' = out
        BY <1>n, <1>ab, <3>2
      <3>3. CASE out' = Add(out, Chunk) /\ back' = back
        BY <1>n, <1>ao, <2>1, <3>3
      <3>4. QED
        BY <3>1, <3>2, <3>3
    <2>3. ASSUME ~client.flood
          PROVE  O' + B' + lost' = extra' + (IF pc' = "recv" THEN 1 ELSE 0)
      <3>1. O + B + lost = extra + 0 /\ pc' = "recv"
        BY <1>b, <2>1, <2>3
      <3>2. QED
        BY <1>n, <1>t, <2>1, <2>2, <3>1
    <2>4. QED
      BY <2>2, <2>3
  <1>3. CASE recvfrom \/ listen
    <2>1. PICK d \in Datagrams : back[d] > 0 /\ back' = Remove(back, d)
      BY <1>3 DEF recvfrom, listen
    <2>2. UNCHANGED <<out, lost, extra>>
      BY <1>3 DEF recvfrom, listen
    <2>3. O' = O /\ B' = B - 1 /\ Fin'
      BY <1>rb, <2>1, <2>2
    <2>4. ~client.flood => pc = "recv" /\ pc' # "recv"
      BY <1>3, <1>t DEF recvfrom, listen, AfterChunk, PhaseInv
    <2>5. QED
      BY <1>b, <1>n, <1>t, <2>2, <2>3, <2>4
  <1>4. CASE Serve \/ lose \/ duplicate \/ intrude
    <2>1. pc' = pc
      BY <1>4, OutsideSteps DEF Outside
    <2> DEFINE Goal == Fin' /\ O' + B' + lost' + extra = O + B + lost + extra'
    <2>2. ASSUME NEW n \in 1 .. Total, Delivered(n) PROVE Goal
      <3> DEFINE a == [chunk |-> n, from |-> "server"]
      <3>1. /\ IsFiniteSet(Copies(Remove(out, n)))
            /\ Cardinality(Copies(Remove(out, n))) = O - 1
        BY <1>t, <2>2, CopiesRemove DEF Delivered, O
      <3>2. /\ IsFiniteSet(Copies(Add(back, a)))
            /\ Cardinality(Copies(Add(back, a))) = B + 1
        BY <1>t, AnswerType, CopiesAdd DEF B
      <3>3. out' = Remove(out, n) /\ back' = Add(back, a) /\ UNCHANGED <<lost, extra>>
        BY <2>2 DEF Delivered, Answered
      <3>4. O' = O - 1 /\ B' = B + 1 /\ Fin'
        BY <3>1, <3>2, <3>3 DEF O, B, Fin
      <3>5. QED
        BY <1>n, <1>t, <3>3, <3>4
    <2>3. ASSUME NEW n \in 1 .. Total, LostOut(n) \/ MoreOut(n) PROVE Goal
      <3>1. CASE LostOut(n)
        BY <1>n, <1>t, <1>ro, <3>1 DEF LostOut
      <3>2. CASE MoreOut(n)
        BY <1>n, <1>t, <1>ao, <3>2 DEF MoreOut
      <3>3. QED
        BY <2>3, <3>1, <3>2
    <2>4. ASSUME NEW d \in Datagrams, LostBack(d) \/ MoreBack(d) PROVE Goal
      <3>1. CASE LostBack(d)
        BY <1>n, <1>t, <1>rb, <3>1 DEF LostBack
      <3>2. CASE MoreBack(d)
        BY <1>n, <1>t, <1>ab, <3>2 DEF MoreBack
      <3>3. QED
        BY <2>4, <3>1, <3>2
    <2>5. ASSUME UNCHANGED netVars PROVE Goal
      BY <1>s, <2>5 DEF netVars
    <2>6. Goal /\ lost' \in Nat /\ extra' \in Nat /\ O' \in Nat /\ B' \in Nat
      <3>1. Goal
        BY <1>4, <2>2, <2>3, <2>4, <2>5, BagSteps
      <3>2. lost' \in Nat /\ extra' \in Nat
        BY TypeStep DEF TypeOK
      <3>3. O' \in Nat /\ B' \in Nat
        BY <3>1, FS_CardinalityType DEF O, B, Fin
      <3>4. QED
        BY <3>1, <3>2, <3>3
    <2>7. QED
      <3> SUFFICES ASSUME ~client.flood, pc' # "dead"
                   PROVE  O' + B' + lost' = extra' + (IF pc' = "recv" THEN 1 ELSE 0)
        BY <2>6
      <3> DEFINE e == IF pc = "recv" THEN 1 ELSE 0
      <3>1. O + B + lost = extra + e /\ e \in Nat
        BY <1>b, <2>1
      <3>2. e' = e
        BY <2>1
      <3> HIDE DEF e
      <3>3. O' + B' + lost' = extra' + e
        <4>1. \A o, b, l, x, oo, bb, ll, xx, c \in Nat :
                /\ oo + bb + ll + x = o + b + l + xx
                /\ o + b + l = x + c
                => oo + bb + ll = xx + c
          OBVIOUS
        <4>2. O' + B' + lost' + extra = O + B + lost + extra'
          BY <2>6
        <4>3. O \in Nat /\ B \in Nat /\ lost \in Nat /\ extra \in Nat
          BY <1>n, <1>t
        <4>4. O' \in Nat /\ B' \in Nat /\ lost' \in Nat /\ extra' \in Nat
          BY <2>6
        <4>5. QED
          BY <3>1, <4>1, <4>2, <4>3, <4>4
      <3>4. QED
        BY <3>2, <3>3 DEF e
  <1>5. QED
    BY <1>1, <1>2, <1>3, <1>4 DEF Next, ClientStep

\* Which datagrams are on their way after one was added or removed.
LEMMA BagAt ==
  ASSUME NEW S, NEW bag \in [S -> Nat], NEW x \in S, NEW y \in S
  PROVE  /\ Add(bag, x)[y] > 0 => bag[y] > 0 \/ y = x
         /\ Remove(bag, x)[y] > 0 => bag[y] > 0
  BY DEF Add, Remove

\* The programs and the addresses stay, and what was surplus stays surplus.
LEMMA Constant ==
  ASSUME TypeOK, [Next]_vars
  PROVE  /\ client' = client /\ server' = server /\ owner' = owner
         /\ extra' = 0 => extra = 0
  <1>1. extra \in Nat
    BY DEF TypeOK
  <1>2. QED
    BY <1>1 DEF Next, ClientStep, fopen_read, sendto, recvfrom, fopen_write, fprintf,
           fclose_write, listen, flush, int_exit, Serve, swap_and_send, netVars,
           stamp_and_send, echo, lose, duplicate, intrude, Ended, vars, rttVars

\* Without surplus datagrams only the current chunk and its answer stay on their way.
LEMMA CurrentStep ==
  ASSUME RttInv, [Next]_vars
  PROVE  CurrentInv'
  <1>t. /\ out \in [1 .. Total -> Nat] /\ back \in [Datagrams -> Nat]
        /\ lost \in Nat /\ extra \in Nat /\ PhaseInv /\ BalanceInv /\ TypeOK
        /\ CurrentInv
    BY DEF RttInv, TypeOK
  <1>1. SUFFICES ASSUME extra' = 0, ~client.flood, pc' = "recv"
                 PROVE  /\ \A n \in 1 .. Total : out'[n] > 0 => n = Chunk'
                        /\ \A d \in Datagrams : back'[d] > 0 => d.chunk = Chunk'
    BY <1>t, Constant DEF CurrentInv
  <1>2. extra = 0
    BY <1>1, <1>t, Constant
  <1>3. CASE sendto
    <2>1. /\ Emit /\ Chunk \in 1 .. Total /\ pc = "send" /\ Chunk' = Chunk
      BY <1>1, <1>3, <1>t, ChunkType DEF sendto, TypeOK, PhaseInv, Chunk
    <2>2. \A n \in 1 .. Total : out[n] = 0
      <3>1. /\ IsFiniteSet(Copies(out)) /\ IsFiniteSet(Copies(back))
            /\ InFlight + lost = 0
        BY <1>1, <1>2, <1>t, <2>1 DEF BalanceInv
      <3>2. Cardinality(Copies(out)) \in Nat /\ Cardinality(Copies(back)) \in Nat
        BY <3>1, FS_CardinalityType
      <3>3. Cardinality(Copies(out)) = 0
        BY <1>t, <3>1, <3>2 DEF InFlight
      <3>4. QED
        BY <1>t, <3>1, <3>3, NoCopies
    <2>3. \A d \in Datagrams : back[d] = 0
      <3>1. /\ IsFiniteSet(Copies(out)) /\ IsFiniteSet(Copies(back))
            /\ InFlight + lost = 0
        BY <1>1, <1>2, <1>t, <2>1 DEF BalanceInv
      <3>2. Cardinality(Copies(out)) \in Nat /\ Cardinality(Copies(back)) \in Nat
        BY <3>1, FS_CardinalityType
      <3>3. Cardinality(Copies(back)) = 0
        BY <1>t, <3>1, <3>2 DEF InFlight
      <3>4. QED
        BY <1>t, <3>1, <3>3, NoCopies
    <2> DEFINE c == [chunk |-> Chunk, from |-> "client"]
    <2>4. c.chunk = Chunk
      OBVIOUS
    <2>5. \/ c \in Datagrams /\ back' = Add(back, c) /\ out' = out
          \/ out' = Add(out, Chunk) /\ back' = back
      BY <1>t, <2>1, EmitStep
    <2> HIDE DEF c
    <2>6. CASE c \in Datagrams /\ back' = Add(back, c) /\ out' = out
      <3>1. \A d \in Datagrams : back'[d] > 0 => d = c
        BY <1>t, <2>3, <2>6, BagAt
      <3>2. QED
        BY <2>1, <2>2, <2>4, <2>6, <3>1
    <2>7. CASE out' = Add(out, Chunk) /\ back' = back
      <3>1. \A n \in 1 .. Total : out'[n] > 0 => n = Chunk
        <4>1. PICK m \in 1 .. Total : m = Chunk
          BY <2>1
        <4>2. out' = Add(out, m)
          BY <2>7, <4>1
        <4>3. \A n \in 1 .. Total : out'[n] > 0 => out[n] > 0 \/ n = m
          BY <1>t, <4>2, BagAt
        <4>4. QED
          BY <2>2, <4>1, <4>3
      <3>2. QED
        BY <2>1, <2>3, <2>7, <3>1
    <2>8. QED
      BY <2>5, <2>6, <2>7
  <1>4. CASE Serve \/ lose \/ duplicate \/ intrude
    <2>1. pc = "recv" /\ Chunk' = Chunk
      BY <1>1, <1>4, OutsideSteps DEF Outside, Chunk
    <2>2. /\ \A n \in 1 .. Total : out[n] > 0 => n = Chunk
          /\ \A d \in Datagrams : back[d] > 0 => d.chunk = Chunk
      BY <1>1, <1>2, <1>t, <2>1 DEF CurrentInv
    <2> DEFINE Goal == /\ \A n \in 1 .. Total : out'[n] > 0 => n = Chunk
                       /\ \A d \in Datagrams : back'[d] > 0 => d.chunk = Chunk
    <2>3. ASSUME NEW n \in 1 .. Total, Delivered(n) PROVE Goal
      <3> DEFINE a == [chunk |-> n, from |-> "server"]
      <3>1. n = Chunk /\ out' = Remove(out, n) /\ back' = Add(back, a)
        BY <2>2, <2>3 DEF Delivered, Answered
      <3>2. a \in Datagrams /\ a.chunk = Chunk
        BY <3>1, AnswerType
      <3> HIDE DEF a
      <3>3. \A d \in Datagrams : back'[d] > 0 => back[d] > 0 \/ d = a
        BY <1>t, <3>1, <3>2, BagAt
      <3>4. \A m \in 1 .. Total : out'[m] > 0 => out[m] > 0
        BY <1>t, <3>1, BagAt
      <3>5. QED
        BY <2>2, <3>2, <3>3, <3>4
    <2>4. ASSUME NEW n \in 1 .. Total, LostOut(n) PROVE Goal
      <3>1. out' = Remove(out, n) /\ back' = back
        BY <2>4 DEF LostOut
      <3>2. \A m \in 1 .. Total : out'[m] > 0 => out[m] > 0
        BY <1>t, <3>1, BagAt
      <3>3. QED
        BY <2>2, <3>1, <3>2
    <2>5. ASSUME NEW d \in Datagrams, LostBack(d) PROVE Goal
      <3>1. back' = Remove(back, d) /\ out' = out
        BY <2>5 DEF LostBack
      <3>2. \A m \in Datagrams : back'[m] > 0 => back[m] > 0
        BY <1>t, <3>1, BagAt
      <3>3. QED
        BY <2>2, <3>1, <3>2
    <2>6. \A n \in 1 .. Total : ~MoreOut(n)
      BY <1>1, <1>2 DEF MoreOut
    <2>7. \A d \in Datagrams : ~MoreBack(d)
      BY <1>1, <1>2 DEF MoreBack
    <2>8. ASSUME UNCHANGED netVars PROVE Goal
      BY <2>2, <2>8 DEF netVars
    <2>9. Goal
      BY <1>4, <2>3, <2>4, <2>5, <2>6, <2>7, <2>8, BagSteps
    <2>10. QED
      BY <2>1, <2>9
  <1>5. CASE flush \/ UNCHANGED vars \/ Ended
    <2>1. UNCHANGED <<pc, rep, i, out, back>>
      BY <1>5 DEF flush, vars, netVars, Ended
    <2>2. QED
      BY <1>1, <1>2, <1>t, <2>1 DEF CurrentInv, Chunk
  <1>6. CASE fopen_read \/ recvfrom \/ fopen_write \/ fprintf \/ fclose_write
             \/ listen \/ int_exit
    BY <1>1, <1>6 DEF fopen_read, recvfrom, AfterChunk, fopen_write, fprintf,
                      fclose_write, listen, int_exit
  <1>7. QED
    BY <1>3, <1>4, <1>5, <1>6 DEF Next, ClientStep

\* A measurement is an earlier one, the one recvfrom makes, or a row of the
\* flooding client.
LEMMA MeasuredStep ==
  ASSUME RttInv, [Next]_vars, NEW r \in Measured'
  PROVE  \/ r \in Measured
         \/ /\ pc = "recv" /\ ~client.flood
            /\ \E d \in Datagrams : back[d] > 0 /\ r = Row(Chunk, d)
         \/ /\ client.flood
            /\ \E d \in Datagrams : back[d] > 0 /\ r = Row(0, d)
  <1>t. /\ times \in Seq(Datagrams) /\ buf \in Seq(Rows) /\ file \in Seq(Rows)
        /\ rep \in Nat /\ i \in Nat /\ rep * CHUNKS \in Nat /\ PhaseInv
    BY DEF RttInv, TypeOK
  <1> DEFINE InTimes == \E k \in 1 .. Len(times) : r = Row(rep * CHUNKS + k, times[k])
             InBuf == \E k \in 1 .. Len(buf) : r = buf[k]
             InFile == \E k \in 1 .. Len(file) : r = file[k]
  <1>m. InTimes \/ InBuf \/ InFile => r \in Measured
    BY DEF Measured
  <1>n. InTimes' \/ InBuf' \/ InFile'
    BY DEF Measured
  <1>j. ASSUME file' = file \o buf PROVE InFile' => InFile \/ InBuf
    <2> SUFFICES ASSUME NEW k \in 1 .. Len(file \o buf), r = (file \o buf)[k]
                 PROVE  InFile \/ InBuf
      BY <1>j
    <2>1. Len(file \o buf) = Len(file) + Len(buf)
      BY <1>t
    <2>2. CASE k <= Len(file)
      BY <1>t, <2>2
    <2>3. CASE k > Len(file)
      <3>1. r = buf[k - Len(file)] /\ k - Len(file) \in 1 .. Len(buf)
        BY <1>t, <2>1, <2>3
      <3>2. QED
        BY <3>1
    <2>4. QED
      BY <1>t, <2>2, <2>3
  <1>e. /\ buf' = <<>> => ~InBuf'
        /\ times' = <<>> => ~InTimes'
    OBVIOUS
  <1>s. /\ UNCHANGED <<times, rep>> => (InTimes' => InTimes)
        /\ UNCHANGED buf => (InBuf' => InBuf)
        /\ UNCHANGED file => (InFile' => InFile)
    OBVIOUS
  <1>p. ASSUME NEW x, buf' = Append(buf, x) PROVE InBuf' => InBuf \/ r = x
    <2>1. /\ Len(buf') = Len(buf) + 1 /\ buf'[Len(buf) + 1] = x
          /\ \A k \in 1 .. Len(buf) : buf'[k] = buf[k]
      BY <1>t, <1>p
    <2>2. QED
      BY <1>t, <2>1
  <1>1. CASE recvfrom
    <2>1. PICK d \in Datagrams : back[d] > 0 /\ times' = Append(times, d)
      BY <1>1 DEF recvfrom
    <2>2. /\ pc = "recv" /\ ~client.flood /\ Len(times) = i
          /\ UNCHANGED <<rep, buf, file>>
      BY <1>1, <1>t DEF recvfrom, fileVars, PhaseInv
    <2>3. /\ Len(times') = Len(times) + 1 /\ times'[Len(times) + 1] = d
          /\ \A k \in 1 .. Len(times) : times'[k] = times[k]
      BY <1>t, <2>1
    <2>4. ASSUME InTimes' PROVE InTimes \/ r = Row(Chunk, d)
      <3>1. PICK k \in 1 .. Len(times) + 1 : r = Row(rep * CHUNKS + k, times'[k])
        BY <2>2, <2>3, <2>4
      <3>2. CASE k \in 1 .. Len(times)
        BY <2>3, <3>1, <3>2
      <3>3. CASE k = Len(times) + 1
        <4>1. Chunk = rep * CHUNKS + k
          BY <1>t, <2>2, <3>3 DEF Chunk
        <4>2. QED
          BY <2>3, <3>1, <3>3, <4>1
      <3>4. QED
        BY <1>t, <3>2, <3>3
    <2>5. QED
      BY <1>m, <1>n, <1>s, <2>1, <2>2, <2>4
  <1>2. CASE fprintf
    <2>1. /\ buf' = Append(buf, Row(Chunk, times[i + 1]))
          /\ UNCHANGED <<rep, times, file>>
      BY <1>2 DEF fprintf
    <2>2. i + 1 \in 1 .. Len(times) /\ Chunk = rep * CHUNKS + (i + 1)
      BY <1>2, <1>t DEF fprintf, PhaseInv, Chunk
    <2>3. InBuf' => InBuf \/ InTimes
      BY <1>p, <2>1, <2>2
    <2>4. QED
      BY <1>m, <1>n, <1>s, <2>1, <2>3
  <1>3. CASE flush
    BY <1>3, <1>m, <1>n, <1>s, <1>j, <1>e DEF flush
  <1>4. CASE fclose_write
    BY <1>4, <1>m, <1>n, <1>j, <1>e DEF fclose_write
  <1>5. CASE listen
    <2>1. PICK d \in Datagrams :
            back[d] > 0 /\ (buf' = Append(buf, Row(0, d)) \/ UNCHANGED buf)
      BY <1>5 DEF listen
    <2>2. client.flood /\ UNCHANGED <<rep, times, file>>
      BY <1>5, <1>t DEF listen, PhaseInv
    <2>3. InBuf' => InBuf \/ r = Row(0, d)
      BY <1>p, <1>s, <2>1
    <2>4. QED
      BY <1>m, <1>n, <1>s, <2>1, <2>2, <2>3
  <1>6. CASE int_exit
    <2>1. /\ file' = file \o buf \/ file' = file
          /\ buf' = <<>> /\ UNCHANGED <<rep, times>>
      BY <1>6 DEF int_exit
    <2>2. QED
      BY <1>m, <1>n, <1>s, <1>j, <1>e, <2>1
  <1>7. CASE \/ fopen_read \/ sendto \/ fopen_write \/ Serve \/ lose \/ duplicate
             \/ intrude \/ Ended \/ UNCHANGED vars
    <2>1. UNCHANGED <<rep, times, buf, file>>
      BY <1>7, OutsideSteps DEF fopen_read, sendto, fopen_write, Ended, Outside,
                                fileVars, vars
    <2>2. QED
      BY <1>m, <1>n, <1>s, <2>1
  <1>8. QED
    BY <1>1, <1>2, <1>3, <1>4, <1>5, <1>6, <1>7 DEF Next, ClientStep

\* Every step keeps the invariant.
LEMMA RttStep == RttInv /\ [Next]_vars => RttInv'
  <1> SUFFICES ASSUME RttInv, [Next]_vars PROVE RttInv'
    OBVIOUS
  <1>1. TypeOK /\ CurrentInv /\ OwnAnswer
    BY DEF RttInv
  <1>2. OwnAnswer'
    <2> SUFFICES ASSUME extra' = 0, ~client.flood, NEW r \in Measured'
                 PROVE  r.dgram.chunk = r.chunk
      BY <1>1, Constant DEF OwnAnswer
    <2>1. extra = 0
      BY <1>1, Constant
    <2>2. CASE r \in Measured
      BY <1>1, <2>1, <2>2 DEF OwnAnswer
    <2>3. ASSUME pc = "recv", NEW d \in Datagrams, back[d] > 0, r = Row(Chunk, d)
          PROVE  r.dgram.chunk = r.chunk
      <3>1. d.chunk = Chunk
        BY <1>1, <2>1, <2>3 DEF CurrentInv
      <3>2. QED
        BY <2>3, <3>1 DEF Row
    <2>4. QED
      BY <2>2, <2>3, MeasuredStep
  <1>3. QED
    BY <1>2, TypeStep, RowsStep, BalanceStep, CurrentStep DEF RttInv

--------------------------------------------------------------------------------
\* The inductive invariant holds in every reachable state.
THEOREM RttInvariance == Spec => []RttInv
  BY RttInit, RttStep, PTL DEF Spec

\* The variables of X_stats.c, its files and the network keep their types, for
\* any number of chunks, passes and datagrams.
THEOREM RttTypeCorrect == Spec => []TypeOK
  <1>1. RttInv => TypeOK
    BY DEF RttInv
  <1>2. QED
    BY <1>1, RttInvariance, PTL

(***************************************************************************)
(* poll_stats takes any datagram for the answer to the chunk it sent, and   *)
(* as long as nothing is duplicated and nobody else sends, it is: a paced   *)
(* client never measures one chunk with the answer to another.              *)
(***************************************************************************)
THEOREM AnswersMatch == Spec => []OwnAnswer
  <1>1. RttInv => OwnAnswer
    BY DEF RttInv
  <1>2. QED
    BY <1>1, RttInvariance, PTL

(***************************************************************************)
(* A paced client that finishes has lost no more datagrams than it was sent *)
(* too many: recvfrom without a timeout lets no loss go by.                 *)
(***************************************************************************)
THEOREM LossBlocks == Spec => []LossIsFatal
  <1>1. RttInv => LossIsFatal
    <2> SUFFICES ASSUME RttInv, pc = "done" PROVE lost <= extra
      BY DEF LossIsFatal
    <2>1. ~client.flood
      BY DEF RttInv, PhaseInv
    <2>2. /\ IsFiniteSet(Copies(out)) /\ IsFiniteSet(Copies(back))
          /\ InFlight + lost = extra
          /\ lost \in Nat /\ extra \in Nat
      BY <2>1 DEF RttInv, BalanceInv, TypeOK
    <2>3. InFlight \in Nat
      BY <2>2, FS_CardinalityType DEF InFlight
    <2>4. QED
      BY <2>2, <2>3
  <1>2. QED
    BY <1>1, RttInvariance, PTL

(***************************************************************************)
(* The rows of the completed passes are in the results file, complete and   *)
(* in order, whatever int_exit does to the pass that follows.               *)
(***************************************************************************)
THEOREM ResultsKept == Spec => []PassesKept
  <1>1. RttInv => PassesKept
    BY DEF RttInv, RowsInv, PassesKept
  <1>2. QED
    BY <1>1, RttInvariance, PTL
================================================================================
