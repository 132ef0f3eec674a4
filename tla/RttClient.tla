------------------------------- MODULE RttClient -------------------------------
(***************************************************************************)
(* The clients X_stats.c that measure round-trip times, the servers that    *)
(* answer them, and the network between them.                               *)
(*                                                                          *)
(* A paced client sends a chunk of the test file, waits in recvfrom for any *)
(* datagram, takes the time between the two for the round trip of that      *)
(* chunk, and appends the times of a whole pass over the file to the        *)
(* results.  The flooding client sends all chunks and then logs what comes. *)
(*                                                                          *)
(* The network loses, duplicates and reorders datagrams, and brings others. *)
(* The clients of the XDP programs and the user-space echo both send to the *)
(* address IP of helpers.h; owner says which end has that address.          *)
(***************************************************************************)
EXTENDS Sequences, UdpChecksum

CONSTANTS
  CHUNKS,     (* chunks of the test file                                    *)
  NR_REP,     (* passes over the file                                       *)
  Clients,    (* the clients to consider                                    *)
  Servers,    (* the servers to consider                                    *)
  MaxLost,    (* bound: datagrams the network loses                         *)
  MaxExtra    (* bound: duplicates and datagrams of others                  *)

Total == NR_REP * CHUNKS
Archs == {"dpdk", "xdp"}

ASSUME RttAssumption ==
  /\ CHUNKS \in Nat \ {0} /\ NR_REP \in Nat \ {0}
  /\ Clients \subseteq [arch : Archs, flood : BOOLEAN]
  /\ Servers \subseteq [arch : Archs, answer : {"swap", "stamp", "echo"}]
  /\ MaxLost \in Nat /\ MaxExtra \in Nat

(* The clients.                                                              *)
kvstore_stats     == [arch |-> "dpdk", flood |-> FALSE]
zuc_stats         == [arch |-> "dpdk", flood |-> FALSE]
fw_back_stats     == [arch |-> "xdp", flood |-> FALSE]
fw_back_ov_stats  == [arch |-> "xdp", flood |-> FALSE]
xdp_pass_stats    == [arch |-> "xdp", flood |-> FALSE]
xdp_no_pass_stats == [arch |-> "xdp", flood |-> FALSE]
xdp_zuc_stats     == [arch |-> "xdp", flood |-> TRUE]

(* The servers: they swap the addresses of the packet, do so and write times *)
(* into it, or send a copy of it to a fixed address.                         *)
dpdk_server    == [arch |-> "dpdk", answer |-> "swap"]
fw_back        == [arch |-> "xdp", answer |-> "swap"]
fw_back_ov     == [arch |-> "xdp", answer |-> "swap"]
ping_pong      == [arch |-> "xdp", answer |-> "stamp"]
ping_pong_no_t == [arch |-> "xdp", answer |-> "swap"]
xdp_pass       == [arch |-> "xdp", answer |-> "echo"]
xdp_no_pass    == [arch |-> "xdp", answer |-> "echo"]

VARIABLES
  client,  (* the client that runs; never changes                           *)
  server,  (* the server it was started against; never changes              *)
  owner,   (* who has the address IP of helpers.h; never changes            *)
  pc,      (* where the client is                                           *)
  rep,     (* passes completed                                              *)
  i,       (* loop index: chunks sent, or rows printed                      *)
  rfptr,   (* the two FILE pointers                                         *)
  wfptr,
  times,   (* time_diff: for each chunk the datagram that stopped its clock *)
  buf,     (* rows in the stdio buffer of wfptr                             *)
  file,    (* rows in the results file                                      *)
  out,     (* copies of each chunk on the way to the server                 *)
  back,    (* copies of each datagram on the way to, or in, the socket      *)
  lost,    (* datagrams lost by the network or rejected by the receiver     *)
  extra    (* duplicates and datagrams of others                            *)

rttVars == <<client, server, owner>>
fileVars == <<rfptr, wfptr, buf, file>>
netVars == <<out, back, lost, extra>>
vars == <<rttVars, pc, rep, i, fileVars, times, netVars>>

PCs == {"open", "send", "recv", "save", "rows", "listen", "done", "dead"}
Handles == {"null", "open", "closed"}

(* A datagram: the chunk it carries, 0 if it is of somebody else, and who    *)
(* sent it.                                                                  *)
Datagrams == [chunk : 1 .. Total, from : {"client", "server"}] \cup
             {[chunk |-> 0, from |-> "other"]}
Chunk == rep * CHUNKS + i + 1
Row(n, d) == [chunk |-> n, dgram |-> d]
Rows == [chunk : 0 .. Total, dgram : Datagrams]

TypeOK ==
  /\ client \in Clients /\ server \in Servers /\ owner \in {"client", "server"}
  /\ pc \in PCs
  /\ rep \in 0 .. NR_REP
  /\ i \in 0 .. CHUNKS
  /\ rfptr \in Handles /\ wfptr \in Handles
  /\ times \in Seq(Datagrams) /\ Len(times) <= CHUNKS
  /\ buf \in Seq(Rows) /\ file \in Seq(Rows)
  /\ out \in [1 .. Total -> Nat]
  /\ back \in [Datagrams -> Nat]
  /\ lost \in Nat
  /\ extra \in 0 .. MaxExtra

Init ==
  /\ client \in Clients
  /\ server \in {s \in Servers : s.arch = client.arch}
  /\ owner \in {"client", "server"}
  /\ pc = "open"
  /\ rep = 0 /\ i = 0
  /\ rfptr = "null" /\ wfptr = "null"
  /\ times = <<>> /\ buf = <<>> /\ file = <<>>
  /\ out = [n \in 1 .. Total |-> 0]
  /\ back = [d \in Datagrams |-> 0]
  /\ lost = 0 /\ extra = 0

Add(bag, x) == [bag EXCEPT ![x] = @ + 1]
Remove(bag, x) == [bag EXCEPT ![x] = @ - 1]

--------------------------------------------------------------------------------
(* The client.                                                               *)

\* rfptr = fopen(F_READ, "rb")
fopen_read ==
  /\ pc = "open"
  /\ \/ rfptr' = "open" /\ pc' = "send"
     \/ rfptr' = "null" /\ pc' = "dead"
  /\ UNCHANGED <<rttVars, rep, i, wfptr, buf, file, times, netVars>>

\* create_vnet.sh gives the client's end the address the XDP clients send to.
to_own_host == client.arch = "xdp" /\ owner = "client"

\* Where a chunk goes.
Emit ==
  IF to_own_host
    THEN back' = Add(back, [chunk |-> Chunk, from |-> "client"]) /\ UNCHANGED out
    ELSE out' = Add(out, Chunk) /\ UNCHANGED back

\* A bug: the loop over the chunks ends one too late.
AfterChunk_one_more == IF i = CHUNKS THEN "save" ELSE "send"

AfterChunk == IF i + 1 = CHUNKS THEN "save" ELSE "send"

\* A bug: a chunk whose answer is late is sent again.
sendto_again ==
  /\ \/ pc = "send"
     \/ pc = "recv" /\ back = [d \in Datagrams |-> 0] /\ out[Chunk] < 2
  /\ Emit
  /\ IF client.flood THEN pc' = AfterChunk /\ i' = i + 1
                     ELSE pc' = "recv" /\ UNCHANGED i
  /\ UNCHANGED <<rttVars, rep, fileVars, times, lost, extra>>

\* fread and sendto; its result is not looked at.
sendto ==
  /\ pc = "send"
  /\ Emit
  /\ IF client.flood THEN pc' = AfterChunk /\ i' = i + 1
                     ELSE pc' = "recv" /\ UNCHANGED i
  /\ UNCHANGED <<rttVars, rep, fileVars, times, lost, extra>>

\* A bug: recvfrom gives up after a while and the chunk is skipped.
recvfrom_or_skip ==
  /\ pc = "recv"
  /\ \/ \E d \in Datagrams :
          back[d] > 0 /\ back' = Remove(back, d) /\ times' = Append(times, d)
     \/ /\ back' = back
        /\ times' = Append(times, [chunk |-> 0, from |-> "other"])
  /\ pc' = AfterChunk
  /\ i' = i + 1
  /\ UNCHANGED <<rttVars, rep, fileVars, out, lost, extra>>

\* The blocking recvfrom takes whatever datagram is there.
recvfrom ==
  /\ pc = "recv"
  /\ \E d \in Datagrams :
       back[d] > 0 /\ back' = Remove(back, d) /\ times' = Append(times, d)
  /\ pc' = AfterChunk
  /\ i' = i + 1
  /\ UNCHANGED <<rttVars, rep, fileVars, out, lost, extra>>

\* A bug: the file is opened with "w".
fopen_write_anew ==
  /\ pc = "save"
  /\ rfptr' = "closed"
  /\ wfptr' = "open" /\ pc' = (IF client.flood THEN "listen" ELSE "rows")
  /\ file' = <<>>
  /\ i' = 0
  /\ UNCHANGED <<rttVars, rep, buf, times, netVars>>

\* fclose(rfptr); wfptr = fopen(F_WRITE, "a")
fopen_write ==
  /\ pc = "save"
  /\ rfptr' = "closed"
  /\ \/ wfptr' = "open" /\ pc' = IF client.flood THEN "listen" ELSE "rows"
     \/ wfptr' = "null" /\ pc' = "dead"
  /\ i' = 0
  /\ UNCHANGED <<rttVars, rep, buf, file, times, netVars>>

\* fprintf of one row.
fprintf ==
  /\ pc = "rows"
  /\ i < CHUNKS
  /\ buf' = Append(buf, Row(Chunk, times[i + 1]))
  /\ i' = i + 1
  /\ UNCHANGED <<rttVars, pc, rep, rfptr, wfptr, file, times, netVars>>

\* stdio writes its buffer out when it is full.  external
flush ==
  /\ buf # <<>>
  /\ file' = file \o buf
  /\ buf' = <<>>
  /\ UNCHANGED <<rttVars, pc, rep, i, rfptr, wfptr, times, netVars>>

\* fclose(wfptr), and the next pass, which has a time_diff of its own.
fclose_write ==
  /\ pc = "rows"
  /\ i = CHUNKS
  /\ wfptr' = "closed"
  /\ file' = file \o buf
  /\ buf' = <<>>
  /\ rep' = rep + 1
  /\ pc' = IF rep + 1 = NR_REP THEN "done" ELSE "open"
  /\ i' = 0
  /\ times' = <<>>
  /\ UNCHANGED <<rttVars, rfptr, netVars>>

\* The flooding client logs every datagram of BUFLEN bytes.
listen ==
  /\ pc = "listen"
  /\ \E d \in Datagrams :
       /\ back[d] > 0 /\ back' = Remove(back, d)
       /\ \/ buf' = Append(buf, Row(0, d))
          \/ d.chunk = 0 /\ UNCHANGED buf
  /\ UNCHANGED <<rttVars, pc, rep, i, rfptr, wfptr, file, times, out, lost, extra>>

\* SIGINT or SIGTERM: fclose(rfptr); fclose(wfptr); exit(0).  To close NULL is a
\* crash, to close a closed FILE is undefined: the process may crash there or
\* go on.  A crash loses what is in the buffer.
int_exit ==
  /\ pc \notin {"done", "dead"}
  /\ \/ /\ "null" \notin {rfptr, wfptr}
        /\ file' = file \o buf
     \/ /\ rfptr # "open" \/ wfptr # "open"
        /\ UNCHANGED file
  /\ buf' = <<>>
  /\ pc' = "dead"
  /\ UNCHANGED <<rttVars, rep, i, rfptr, wfptr, times, netVars>>

--------------------------------------------------------------------------------
(* The servers.                                                              *)

Answered(n) == back' = Add(back, [chunk |-> n, from |-> "server"])

\* A bug: a packet is not counted in nb_tx and never sent.
swap_and_send_not(n) ==
  /\ server.answer = "swap" /\ out[n] > 0
  /\ out' = Remove(out, n)
  /\ UNCHANGED <<rttVars, pc, rep, i, fileVars, times, back, lost, extra>>

\* The packet goes back as it came; the checksum stays right because a swap
\* does not change the sum (XDP), or because it is computed again (DPDK).
swap_and_send(n) ==
  /\ server.answer = "swap" /\ out[n] > 0
  /\ out' = Remove(out, n)
  /\ Answered(n)
  /\ UNCHANGED <<rttVars, pc, rep, i, fileVars, times, lost, extra>>

\* The times are written into the packet and its checksum computed again; the
\* client's stack drops the packet when that checksum is wrong.
stamp_and_send(n) ==
  /\ server.answer = "stamp" /\ out[n] > 0
  /\ out' = Remove(out, n)
  /\ \E hi, lo \in Halves :
       IF Verifies(hi, lo, caludpcsum(hi, lo))
         THEN Answered(n) /\ UNCHANGED lost
         ELSE lost' = lost + 1 /\ UNCHANGED back
  /\ UNCHANGED <<rttVars, pc, rep, i, fileVars, times, extra>>

\* The loader's socket: recvfrom, and sendto the address IP, which may be its
\* own; then it receives the datagram again.
echo(n) ==
  /\ server.answer = "echo" /\ out[n] > 0
  /\ IF owner = "client" THEN out' = Remove(out, n) /\ Answered(n)
                         ELSE UNCHANGED <<out, back>>
  /\ UNCHANGED <<rttVars, pc, rep, i, fileVars, times, lost, extra>>

Serve == \E n \in 1 .. Total : swap_and_send(n) \/ stamp_and_send(n) \/ echo(n)

--------------------------------------------------------------------------------
(* The network.  external                                                    *)

lose ==
  /\ lost < MaxLost
  /\ lost' = lost + 1
  /\ \/ \E n \in 1 .. Total : out[n] > 0 /\ out' = Remove(out, n) /\ UNCHANGED back
     \/ \E d \in Datagrams : back[d] > 0 /\ back' = Remove(back, d) /\ UNCHANGED out
  /\ UNCHANGED <<rttVars, pc, rep, i, fileVars, times, extra>>

duplicate ==
  /\ extra < MaxExtra
  /\ extra' = extra + 1
  /\ \/ \E n \in 1 .. Total : out[n] > 0 /\ out' = Add(out, n) /\ UNCHANGED back
     \/ \E d \in Datagrams : back[d] > 0 /\ back' = Add(back, d) /\ UNCHANGED out
  /\ UNCHANGED <<rttVars, pc, rep, i, fileVars, times, lost>>

\* Somebody else sends to the client's port.
intrude ==
  /\ extra < MaxExtra
  /\ extra' = extra + 1
  /\ back' = Add(back, [chunk |-> 0, from |-> "other"])
  /\ UNCHANGED <<rttVars, pc, rep, i, fileVars, times, out, lost>>

--------------------------------------------------------------------------------
ClientStep ==
  \/ fopen_read \/ sendto \/ recvfrom \/ fopen_write
  \/ fprintf \/ fclose_write \/ listen

Ended == pc \in {"done", "dead"} /\ UNCHANGED vars

Next == ClientStep \/ flush \/ int_exit \/ Serve
        \/ lose \/ duplicate \/ intrude \/ Ended

Spec == Init /\ [][Next]_vars

\* The client and the server are scheduled; nothing else needs to happen.
Fairness == WF_vars(ClientStep) /\ WF_vars(Serve)
FairSpec == Spec /\ Fairness

--------------------------------------------------------------------------------
(* Properties.                                                               *)

\* The rows that say which datagram stopped the clock of which chunk: those of
\* the current pass and those already printed.
Measured ==
  {Row(rep * CHUNKS + k, times[k]) : k \in 1 .. Len(times)}
  \cup {buf[k] : k \in 1 .. Len(buf)} \cup {file[k] : k \in 1 .. Len(file)}

(***************************************************************************)
(* Without a duplicate or a foreign datagram a paced client never measures  *)
(* one chunk with the answer to another, whatever is lost or reordered and  *)
(* across passes: poll_stats takes any datagram for the answer, and is      *)
(* right because at most one chunk is outstanding.                          *)
(***************************************************************************)
OwnAnswer ==
  extra = 0 /\ ~client.flood => \A r \in Measured : r.dgram.chunk = r.chunk

(***************************************************************************)
(* A paced client gets through all its passes only if every lost datagram   *)
(* was made up for by one too many: a lost answer is never skipped, it      *)
(* blocks recvfrom for good (there is no timeout), and a surplus datagram   *)
(* hides a loss.                                                            *)
(***************************************************************************)
LossIsFatal == pc = "done" => lost <= extra

(***************************************************************************)
(* The results of the completed passes are in the file, in order and        *)
(* complete, whatever a signal, or the crash int_exit causes by closing a   *)
(* FILE twice, does to the pass that follows.                               *)
(***************************************************************************)
PassesKept ==
  ~client.flood =>
    /\ Len(file) >= rep * CHUNKS
    /\ \A k \in 1 .. Len(file) : file[k].chunk = k

(***************************************************************************)
(* If nothing is lost, or rejected for its checksum, a paced client whose   *)
(* answers can reach it finishes all its passes, unless it is killed.       *)
(***************************************************************************)
FinishesUnlessLost ==
  ~client.flood /\ (server.answer = "echo" => owner = "client") =>
    <>(pc \in {"done", "dead"} \/ lost > 0)
================================================================================
