------------------------------ MODULE Mailbox ------------------------------
(***************************************************************************)
(* What the extension promises plugins about incoming frames: each frame   *)
(* the server sends leaves the mailbox once, in the order of arrival; one  *)
(* that is a message is handed to OnMessageReceived, one at a time, and    *)
(* only one that is none is discarded.  This holds until the mailbox is    *)
(* torn.                                                                   *)
(***************************************************************************)
EXTENDS Sequences

CONSTANTS
    Arrivals,   \* what the server sends
    Payloads,   \* the messages among them
    None

VARIABLES
    pending,    \* frames received and not taken out
    current,    \* the message plugins are looking at
    torn        \* two threads changed the mailbox at once: nothing is promised

Init == pending = <<>> /\ current = None /\ torn = FALSE

Receive == \E f \in Arrivals :
              pending' = Append(pending, f) /\ UNCHANGED current

Deliver ==
    /\ current = None /\ pending # <<>> /\ Head(pending) \in Payloads
    /\ current' = Head(pending)
    /\ pending' = Tail(pending)

Discard ==
    /\ current = None /\ pending # <<>> /\ Head(pending) \notin Payloads
    /\ pending' = Tail(pending) /\ UNCHANGED current

Finish == current # None /\ current' = None /\ UNCHANGED pending

Next == torn' \/ (UNCHANGED torn /\ (Receive \/ Deliver \/ Discard \/ Finish))

Spec == Init /\ [][Next]_<<pending, current, torn>>

=============================================================================
