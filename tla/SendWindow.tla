----------------------------- MODULE SendWindow -----------------------------
(***************************************************************************)
(* What the k-buffer of an IEC 60870-5-104 station promises.               *)
(*                                                                         *)
(* I frames carry a send sequence number counted modulo SeqMod.  The       *)
(* station remembers only two numbers: una, the number of the oldest frame *)
(* the peer has not acknowledged, and nxt, the number of the next frame.   *)
(* The frames una .. nxt-1 (modulo SeqMod) are outstanding and there are   *)
(* never more than K of them.  An acknowledgement N(R) names the frame the *)
(* peer expects next; it is legal exactly when it lies in una .. nxt.      *)
(***************************************************************************)
EXTENDS Integers

CONSTANTS K, SeqMod

VARIABLES una, nxt, open

wvars == <<una, nxt, open>>

(* The number of frames from sequence number a up to, not including, b. *)
Dist(a, b) == IF b >= a THEN b - a ELSE b - a + SeqMod

Outstanding == Dist(una, nxt)

InWindow(n) == Dist(una, n) <= Outstanding

WInit == una = 0 /\ nxt = 0 /\ open = TRUE

(* One more frame goes out; the window is not full. *)
Transmit ==
  /\ open
  /\ Outstanding < K
  /\ nxt' = (nxt + 1) % SeqMod
  /\ UNCHANGED <<una, open>>

(* The window's lower edge moves up to a number inside the window. *)
Acknowledge ==
  /\ open
  /\ \E n \in 0..(SeqMod - 1) : InWindow(n) /\ una' = n
  /\ UNCHANGED <<nxt, open>>

(* The connection is given up; its numbers mean nothing any more. *)
Abort == open /\ open' = FALSE /\ una' = 0 /\ nxt' = 0

(* A new connection starts from zero. *)
Reopen == ~open /\ una' = 0 /\ nxt' = 0 /\ open' = TRUE

WNext == Transmit \/ Acknowledge \/ Abort \/ Reopen

WSpec == WInit /\ [][WNext]_wvars
=============================================================================
