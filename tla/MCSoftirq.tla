------------------------------ MODULE MCSoftirq ------------------------------
(* Instances of Softirq for TLC: HI_SOFTIRQ (0), served synchronously, and   *)
(* NET_RX_SOFTIRQ (3), left to a running ksoftirqd.                          *)
EXTENDS Softirq

=============================================================================
