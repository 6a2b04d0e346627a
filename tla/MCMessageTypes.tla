--------------------------- MODULE MCMessageTypes ---------------------------
(* An instance of MessageTypes for TLC. *)
EXTENDS MessageTypes

\* Each number of the enum's range, and its neighbours outside.
AllTypes == (Invalid - 1)..(MaxMessage + 1)

=============================================================================
