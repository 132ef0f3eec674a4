---------------------------------- MODULE Zuc ----------------------------------
(***************************************************************************)
(* The ZUC programs: each packet carries a key and a message, and is sent   *)
(* back with the message encrypted.  Workers (the lcores of the DPDK        *)
(* program, the HPUs of a PsPIN cluster) all run the cipher of zuc.h on the *)
(* same globals: the LFSR cells, F_R1 and F_R2, and BRC_X0 .. BRC_X3.       *)
(*                                                                          *)
(* The cipher is symbolic.  A register group holds a token: the run (key    *)
(* and garbage, see LFSRWithInitialisationMode) it belongs to and how many  *)
(* rounds of that run led to it; values of different runs or rounds that    *)
(* are worked into one another give Junk.  A word is the set of the tokens  *)
(* that were XORed into it, so that equal ones cancel.                      *)
(***************************************************************************)
EXTENDS Integers, Sequences, FiniteSets, ZucArith

CONSTANTS
  Workers,      (* lcores or HPUs                                           *)
  Programs,     (* the programs to consider                                 *)
  WORDS,        (* 32-bit words of a payload: 256                           *)
  KEY_WORDS,    (* words of the key: 4                                      *)
  INIT_ROUNDS,  (* rounds of the initialisation: 32                         *)
  HEAP,         (* blocks rte_malloc can give                               *)
  Contents,     (* what a client may send                                   *)
  Garbage,      (* what the uninitialised f may hold                        *)
  Junk,         (* a register value that belongs to no run                  *)
  Zero,         (* F_R1 = F_R2 = 0                                          *)
  MaxPkt        (* bound: packets received in one behaviour                 *)

dpdk_zuc  == "dpdk"
pspin_zuc == "pspin"

ASSUME ZucAssumption ==
  /\ Programs \subseteq {dpdk_zuc, pspin_zuc}
  /\ KEY_WORDS \in Nat \ {0} /\ WORDS \in Nat /\ WORDS > KEY_WORDS
  /\ INIT_ROUNDS \in Nat \ {0}
  /\ HEAP \in Nat
  /\ MaxPkt \in Nat

VARIABLES
  prog,      (* the program that runs; never changes                        *)
  lfsr,      (* LFSR_S0 .. LFSR_S15                                         *)
  fr,        (* F_R1, F_R2                                                  *)
  brc,       (* BRC_X0 .. BRC_X3                                            *)
  pc,        (* where each worker is                                        *)
  payload,   (* the packet it works on                                      *)
  origin,    (* what that packet is the answer to, if it is an answer       *)
  run,       (* key and garbage of its run of the cipher                    *)
  count,     (* rounds it has done                                          *)
  w,         (* what F returned to it                                       *)
  z,         (* its keystream                                               *)
  heap,      (* free blocks                                                 *)
  crashed,   (* the process was ended by a NULL pointer                     *)
  pkts,      (* packets received (bound)                                    *)
  answered,  (* history: packets sent back                                  *)
  last,      (* history: the last of them                                   *)
  solo       (* history: no other worker used the cipher during the run     *)

registers == <<lfsr, fr, brc>>
locals == <<payload, origin, run, count, w, z>>
history == <<answered, last>>
vars == <<prog, registers, pc, locals, heap, crashed, pkts, history, solo>>

WordIndex == 0 .. WORDS - 1
PCs == {"idle", "init", "reorganise", "f", "shift", "xor", "write"}

\* A message word, a keystream word, and a word whose value is not known: what
\* mixed-up registers yield, and what memory holds that the cipher did not write
\* for this packet, the words of other packets not excluded.
Plain(c, k) == {<<"m", c, k>>}
Key(r, n) == {<<"z", r, n>>}
Unknown == {<<"u">>}

Xor(a, b) == IF Unknown \subseteq a \cup b THEN Unknown ELSE (a \ b) \cup (b \ a)

NoRun == [key |-> <<>>, garbage |-> Junk]
NoPayload == [k \in WordIndex |-> Unknown]
NoAnswer == [request |-> NoPayload, answer |-> NoPayload, origin |-> NoPayload]
Token(r, n) == [run |-> r, rounds |-> n]

\* u32 LENGTH = payload_size - sizeof(u32), in bytes
LENGTH == 4 * (WORDS - 1)

\* EEA3 expects LENGTH in bits: L = (LENGTH+31)/32 words are encrypted.
L == (LENGTH + 31) \div 32

TypeOK ==
  /\ prog \in Programs
  /\ DOMAIN lfsr \subseteq {"run", "rounds"} /\ DOMAIN brc \subseteq {"run", "rounds"}
  /\ pc \in [Workers -> PCs]
  /\ \A v \in Workers : DOMAIN payload[v] = WordIndex
  /\ \A v \in Workers : DOMAIN run[v] = {"key", "garbage"}
  /\ count \in [Workers -> 0 .. INIT_ROUNDS + 1 + L]
  /\ \A v \in Workers : Len(z[v]) <= L
  /\ heap \in 0 .. HEAP
  /\ crashed \in BOOLEAN
  /\ pkts \in 0 .. MaxPkt
  /\ answered \in 0 .. MaxPkt
  /\ solo \in [Workers -> BOOLEAN]

NoToken == Token(NoRun, 0)

Init ==
  /\ prog \in Programs
  /\ lfsr = NoToken /\ fr = Zero /\ brc = NoToken
  /\ pc = [v \in Workers |-> "idle"]
  /\ payload = [v \in Workers |-> NoPayload]
  /\ origin = [v \in Workers |-> NoPayload]
  /\ run = [v \in Workers |-> NoRun]
  /\ count = [v \in Workers |-> 0]
  /\ w = [v \in Workers |-> NoToken]
  /\ z = [v \in Workers |-> <<>>]
  /\ heap = HEAP
  /\ crashed = FALSE
  /\ pkts = 0
  /\ answered = 0
  /\ last = NoAnswer
  /\ solo = [v \in Workers |-> FALSE]

--------------------------------------------------------------------------------
At(v, at) == ~crashed /\ pc[v] = at
Goto(v, at) == pc' = [pc EXCEPT ![v] = at]
Ciphering == {"init", "reorganise", "f", "shift"}

\* What a client sends: a message of its own, or the answer it got last.
Receive(v) ==
  \/ /\ \E c \in Contents :
          payload' = [payload EXCEPT ![v] = [k \in WordIndex |-> Plain(c, k)]]
     /\ UNCHANGED origin
  \/ /\ answered > 0
     /\ payload' = [payload EXCEPT ![v] = last.answer]
     /\ origin' = [origin EXCEPT ![v] = last.request]

\* A bug: only M and C are thought of.
rte_malloc_two(v) ==
  /\ prog = dpdk_zuc /\ At(v, "idle") /\ pkts < MaxPkt
  /\ pkts' = pkts + 1
  /\ IF heap >= 2
       THEN /\ heap' = heap - 3
            /\ Receive(v)
            /\ Goto(v, "init")
            /\ UNCHANGED crashed
       ELSE crashed' = TRUE /\ UNCHANGED <<heap, payload, origin, pc>>
  /\ UNCHANGED <<prog, registers, run, count, w, z, history, solo>>

\* A packet that passes the gate: M, C and, in EEA3, z are allocated, which
\* nobody checks.  The first missing block is written to and ends the process.
rte_malloc(v) ==
  /\ prog = dpdk_zuc /\ At(v, "idle") /\ pkts < MaxPkt
  /\ pkts' = pkts + 1
  /\ IF heap >= 3
       THEN /\ heap' = heap - 3
            /\ Receive(v)
            /\ Goto(v, "init")
            /\ UNCHANGED crashed
       ELSE crashed' = TRUE /\ UNCHANGED <<heap, payload, origin, pc>>
  /\ UNCHANGED <<prog, registers, run, count, w, z, history, solo>>

\* zuc_ph: C and z are places of the HPU's part of the scratchpad.
zuc_ph(v) ==
  /\ prog = pspin_zuc /\ At(v, "idle") /\ pkts < MaxPkt
  /\ pkts' = pkts + 1
  /\ Receive(v)
  /\ Goto(v, "init")
  /\ UNCHANGED <<prog, registers, run, count, w, z, heap, crashed, history, solo>>

\* Somebody enters the cipher: from now on nobody who is in it is alone.
Enter(v) ==
  LET others == {x \in Workers \ {v} : pc[x] \in {"reorganise", "f", "shift"}} IN
  solo' = [x \in Workers |-> IF x = v THEN others = {}
                             ELSE solo[x] /\ x \notin others]

\* A bug: F_R1 and F_R2 keep what the last run left.
Initialization_no_reset(v) ==
  /\ At(v, "init")
  /\ \E g \in Garbage :
       LET r == [key |-> [k \in 1 .. KEY_WORDS |-> payload[v][k - 1]],
                 garbage |-> g] IN
       run' = [run EXCEPT ![v] = r] /\ lfsr' = Token(r, 0)
  /\ count' = [count EXCEPT ![v] = 0]
  /\ Enter(v)
  /\ Goto(v, "reorganise")
  /\ UNCHANGED <<prog, fr, brc, payload, origin, w, z, heap, crashed, pkts, history>>

\* The key is expanded into the LFSR and F is cleared.  The values f will have
\* in LFSRWithInitialisationMode are chosen here.
Initialization(v) ==
  /\ At(v, "init")
  /\ \E g \in Garbage :
       LET r == [key |-> [k \in 1 .. KEY_WORDS |-> payload[v][k - 1]],
                 garbage |-> g] IN
       run' = [run EXCEPT ![v] = r] /\ lfsr' = Token(r, 0)
  /\ fr' = Zero
  /\ count' = [count EXCEPT ![v] = 0]
  /\ Enter(v)
  /\ Goto(v, "reorganise")
  /\ UNCHANGED <<prog, brc, payload, origin, w, z, heap, crashed, pkts, history>>

BitReorganization(v) ==
  /\ At(v, "reorganise")
  /\ brc' = lfsr
  /\ Goto(v, "f")
  /\ UNCHANGED <<prog, lfsr, fr, locals, heap, crashed, pkts, history, solo>>

JunkToken == Token(NoRun, -1)

\* F's registers go with the words BitReorganization took from the LFSR: zero in
\* the first round, later what F left in the round before.
Fits(x, f) == x # JunkToken /\ f = IF x.rounds = 0 THEN Zero ELSE x

NextRound(x) == [x EXCEPT !.rounds = @ + 1]

\* Rounds after the initialisation and the one whose output is discarded yield
\* a word: F() ^ BRC_X3.
F(v) ==
  LET ok == Fits(brc, fr) IN
  /\ At(v, "f")
  /\ fr' = IF ok THEN NextRound(brc) ELSE JunkToken
  /\ w' = [w EXCEPT ![v] = IF ok THEN brc ELSE JunkToken]
  /\ z' = IF count[v] <= INIT_ROUNDS THEN z
          ELSE [z EXCEPT ![v] = Append(@, IF ok THEN Key(brc.run, brc.rounds)
                                                ELSE Unknown)]
  /\ Goto(v, "shift")
  /\ UNCHANGED <<prog, lfsr, brc, payload, origin, run, count, heap, crashed, pkts, history, solo>>

Shifted(v) ==
  /\ count' = [count EXCEPT ![v] = @ + 1]
  /\ w' = [w EXCEPT ![v] = NoToken]
  /\ Goto(v, IF count[v] = INIT_ROUNDS + L THEN "xor" ELSE "reorganise")
  /\ UNCHANGED <<prog, fr, brc, payload, origin, run, z, heap, crashed, pkts, history, solo>>

\* The first summand of the new cell is the uninitialised f, not LFSR_S0: the
\* new state depends on what was on the stack.
LFSRWithInitialisationMode(v) ==
  /\ At(v, "shift") /\ count[v] < INIT_ROUNDS
  /\ lfsr' = IF lfsr # JunkToken /\ w[v] = lfsr /\ lfsr.run.garbage = run[v].garbage
               THEN NextRound(lfsr) ELSE JunkToken
  /\ Shifted(v)

LFSRWithWorkMode(v) ==
  /\ At(v, "shift") /\ count[v] >= INIT_ROUNDS
  /\ lfsr' = IF lfsr # JunkToken THEN NextRound(lfsr) ELSE JunkToken
  /\ Shifted(v)

\* M[k] is payload[k+1].  The first L words of C are M XOR z.  The rest of C is not
\* written, nor is the word behind it that memcpy also reads: they hold whatever
\* the heap, the neighbouring block or the scratchpad held there before.
C(v, k) == IF k < L THEN Xor(payload[v][k + 1], z[v][k + 1]) ELSE Unknown

\* A bug: the keystream is not freed.
EEA3_leak(v) ==
  /\ prog = dpdk_zuc /\ At(v, "xor")
  /\ Goto(v, "write")
  /\ UNCHANGED <<prog, registers, locals, heap, crashed, pkts, history, solo>>

\* The end of EEA3: C is computed and the keystream freed.
EEA3(v) ==
  /\ prog = dpdk_zuc /\ At(v, "xor")
  /\ heap' = heap + 1
  /\ Goto(v, "write")
  /\ UNCHANGED <<prog, registers, locals, crashed, pkts, history, solo>>

\* In the scratchpad there is nothing to free.
pspin_EEA3(v) ==
  /\ prog = pspin_zuc /\ At(v, "xor")
  /\ Goto(v, "write")
  /\ UNCHANGED <<prog, registers, locals, heap, crashed, pkts, history, solo>>

\* The answer is in the packet, which is sent.  M and C are not freed.
Reply(v, answer) ==
  /\ answered' = answered + 1
  /\ last' = [request |-> payload[v], answer |-> answer, origin |-> origin[v]]
  /\ payload' = [payload EXCEPT ![v] = NoPayload]
  /\ origin' = [origin EXCEPT ![v] = NoPayload]
  /\ run' = [run EXCEPT ![v] = NoRun]
  /\ count' = [count EXCEPT ![v] = 0]
  /\ z' = [z EXCEPT ![v] = <<>>]
  /\ solo' = [solo EXCEPT ![v] = FALSE]
  /\ Goto(v, "idle")
  /\ UNCHANGED <<prog, registers, w, heap, crashed, pkts>>

\* memcpy(payload + 1, C + 1, LENGTH): the word after payload[0] gets C[1].
lcore_main(v) ==
  /\ prog = dpdk_zuc /\ At(v, "write")
  /\ Reply(v, [k \in WordIndex |-> IF k = 0 THEN payload[v][0] ELSE C(v, k)])

\* spin__memcpy(C, M, LENGTH): "Write resulting-data to existing packet".  The
\* function is external; the comment says which way it copies.
spin_memcpy(v) ==
  /\ prog = pspin_zuc /\ At(v, "write")
  /\ Reply(v, [k \in WordIndex |-> IF k = 0 THEN payload[v][0] ELSE C(v, k - 1)])

Handle(v) ==
  \/ rte_malloc(v) \/ zuc_ph(v)
  \/ Initialization(v) \/ BitReorganization(v) \/ F(v)
  \/ LFSRWithInitialisationMode(v) \/ LFSRWithWorkMode(v)
  \/ EEA3(v) \/ pspin_EEA3(v) \/ lcore_main(v) \/ spin_memcpy(v)

\* The process is gone, or no more packets come.
Ended ==
  /\ crashed \/ (pkts = MaxPkt /\ \A v \in Workers : pc[v] = "idle")
  /\ UNCHANGED vars

Next == (\E v \in Workers : Handle(v)) \/ Ended

Spec == Init /\ [][Next]_vars

--------------------------------------------------------------------------------
(* Properties.                                                               *)

(***************************************************************************)
(* A worker that was alone in the cipher from Initialization on has the     *)
(* words of the keystream of its own key, in order and from the second word *)
(* on, whatever state earlier packets, or runs that were cut across one     *)
(* another, have left in the shared registers.                              *)
(***************************************************************************)
SoloKeystream ==
  \A v \in Workers : solo[v] /\ pc[v] \in {"xor", "write"} =>
    z[v] = [k \in 1 .. L |-> Key(run[v], INIT_ROUNDS + k)]

Holding(at) == Cardinality({v \in Workers : pc[v] \in at})

(***************************************************************************)
(* Every answer of the DPDK program costs two blocks of the heap for ever,  *)
(* M and C, and nothing else is lost: the keystream is given back.  The     *)
(* program therefore serves less than HEAP/2 packets before it crashes.     *)
(***************************************************************************)
HeapConserved ==
  prog = dpdk_zuc =>
    heap + 2 * answered + 3 * Holding(Ciphering \cup {"xor"})
         + 2 * Holding({"write"}) = HEAP

(***************************************************************************)
(* Encrypting is decrypting: an answer that is sent in again comes back as  *)
(* the message it was made from ("No need to specify encrypt/decrypt since  *)
(* we are encrypting with a stream cypher", zuc.c).                         *)
(***************************************************************************)
RoundTrip ==
  last.origin # NoPayload =>
    \A k \in 1 .. WORDS - 1 : last.answer[k] = last.origin[k]
================================================================================
