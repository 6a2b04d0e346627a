-------------------------- MODULE ConnectionPhases --------------------------
(***************************************************************************)
(* The life of a connection as Send and the heartbeat timer may rely on    *)
(* it: when Send tries the connection, when the connection takes what is   *)
(* sent, and when the timer ticks.  The client implements it with its      *)
(* handlers, its flags and its timer.  It holds until the extension is     *)
(* unloaded.                                                               *)
(***************************************************************************)
VARIABLES
    phase,
    available,  \* Send tries the connection
    takes,      \* the connection takes what is sent
    ticking,    \* a heartbeat timer is alive
    over        \* unloading has begun: nothing is promised

Agrees ==
    /\ available = (phase \in {"flagged", "pushing", "open", "closing"})
    /\ takes     = (phase \in {"pushing", "open"})
    /\ ticking   = (phase \in {"open", "closing", "lost"})

Init == phase = "down" /\ Agrees /\ over = FALSE

Goes(from, to) == phase = from /\ phase' = to

\* A connection is opened in three steps; the timer comes last.
Opens == Goes("down", "flagged") \/ Goes("flagged", "pushing") \/ Goes("pushing", "open")

\* It is lost with a close frame or without one; the timer goes last.
Ends == \/ Goes("open", "closing") \/ Goes("open", "lost") \/ Goes("closing", "lost")
        \/ Goes("lost", "down")

Next == over' \/ (UNCHANGED over /\ (Opens \/ Ends) /\ Agrees')

Spec == Init /\ [][Next]_<<phase, available, takes, ticking, over>>

=============================================================================
