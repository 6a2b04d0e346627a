------------------------- MODULE MCWebSocketClient -------------------------
(* Instances of WebSocketClient for TLC. *)
EXTENDS WebSocketClientInvariant, TLC

(* Texts and timer objects are only compared, so they may be permuted in the
   runs that check no liveness property. *)
Symmetry == Permutations(Messages) \cup Permutations(Timers)

=============================================================================
