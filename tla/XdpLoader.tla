------------------------------- MODULE XdpLoader -------------------------------
(***************************************************************************)
(* The user-space side of an XDP program: X_loader.c attaches the program   *)
(* to the interface and, in the timed programs, reads from a UDP socket the *)
(* packets the program passed up the stack and appends one latency per      *)
(* packet to the results file.  The loaders of the _no_t programs return    *)
(* from main as soon as the program is attached.                            *)
(*                                                                          *)
(* A datagram waiting in the socket is "stamped" (its first two words are   *)
(* the times the XDP program wrote), "raw" (passed up unchanged) or "short" *)
(* (less than BUFLEN bytes).                                                *)
(***************************************************************************)
EXTENDS Integers

VARIABLES
  attached,  (* the XDP program is attached to the interface                *)
  loader,    (* where the loader is                                         *)
  sock,      (* datagrams of each kind waiting in the socket                *)
  lines      (* latencies written for datagrams of each kind                *)

loaderVars == <<attached, loader, sock, lines>>

LoaderStates == {"start", "attached", "bound", "listening", "exited"}
Kinds == {"stamped", "raw", "short"}
NoDatagrams == [k \in Kinds |-> 0]

LoaderTypeOK ==
  /\ attached \in BOOLEAN
  /\ loader \in LoaderStates
  /\ sock \in [Kinds -> Nat]
  /\ lines \in [Kinds -> Nat]

LoaderInit ==
  /\ attached = FALSE
  /\ loader = "start"
  /\ sock = NoDatagrams
  /\ lines = NoDatagrams

\* main up to xdp_program__attach; a failure before it returns.
main_attach ==
  /\ loader = "start"
  /\ \/ attached' = TRUE /\ loader' = "attached"
     \/ loader' = "exited" /\ UNCHANGED attached
  /\ UNCHANGED <<sock, lines>>

\* poll_stats: socket() and bind().
poll_stats_bind ==
  /\ loader = "attached"
  /\ loader' = "bound"
  /\ UNCHANGED <<attached, sock, lines>>

\* poll_stats: the rest of the preparation, up to the loop.
poll_stats_listen ==
  /\ loader = "bound"
  /\ loader' = "listening"
  /\ UNCHANGED <<attached, sock, lines>>

\* recvfrom returns a datagram; what has BUFLEN bytes is taken for two times.
recvfrom(k) ==
  /\ loader = "listening"
  /\ sock[k] > 0
  /\ sock' = [sock EXCEPT ![k] = @ - 1]
  /\ lines' = IF k = "short" THEN lines ELSE [lines EXCEPT ![k] = @ + 1]
  /\ UNCHANGED <<attached, loader>>

\* The process ends: int_exit on a signal, exit(1) on an error, return from
\* main.  xdp_program__close() frees the handle; nothing detaches the program.
int_exit ==
  /\ loader \in {"attached", "bound", "listening"}
  /\ loader' = "exited"
  /\ sock' = NoDatagrams
  /\ UNCHANGED <<attached, lines>>

\* The network stack puts a datagram into the socket, or has to drop it (no
\* socket, full buffer, bad checksum).  external
deliver(k) ==
  /\ \/ loader \in {"bound", "listening"} /\ sock' = [sock EXCEPT ![k] = @ + 1]
     \/ UNCHANGED sock
  /\ UNCHANGED <<attached, loader, lines>>
===============================================================================
