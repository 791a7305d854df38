---------------------------- MODULE MCSentASDUs -----------------------------
(* The k-buffer with a small k and a small sequence number space, so that  *)
(* both the ring index and the sequence number wrap many times.            *)
EXTENDS SentASDUs

MCK == 4
MCSeqMod == 5
=============================================================================
