--------------------------- MODULE MCDaemonStart ----------------------------
(* Instances of DaemonStart for TLC. *)
EXTENDS DaemonStart, TLC

CONSTANTS s1, s2,  \* two invocations of ukb_wsd --daemon
          k1, k2   \* two clients

=============================================================================
