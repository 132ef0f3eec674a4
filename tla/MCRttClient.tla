------------------------------ MODULE MCRttClient ------------------------------
(* A small instance of RttClient: two passes over a file of two chunks.        *)
EXTENDS RttClient

AllClients == {kvstore_stats, zuc_stats, fw_back_stats, fw_back_ov_stats,
               xdp_pass_stats, xdp_no_pass_stats, xdp_zuc_stats}
AllServers == {dpdk_server, fw_back, fw_back_ov, ping_pong, ping_pong_no_t,
               xdp_pass, xdp_no_pass}
================================================================================
