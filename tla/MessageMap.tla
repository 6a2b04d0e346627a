----------------------------- MODULE MessageMap -----------------------------
(***************************************************************************)
(* A message as plugins may think of it: scalars at places, and a position *)
(* at the top or in one element of an array.  A write changes one place,   *)
(* and clears what was above or below it; a read changes nothing.          *)
(***************************************************************************)
EXTENDS Naturals, Sequences

CONSTANTS
    Keys, EmptyKey, Indices,
    Values,     \* scalars
    Nothing     \* what is at a place that holds no scalar

VARIABLES
    content,    \* the scalar at each place
    position    \* <<>>, or the array and the index plugins are in

Places ==
    {<<k>> : k \in Keys} \cup (Keys \X Indices)
                         \cup (Keys \X Indices \X (Keys \ {EmptyKey}))

\* The place a key names.
Place(k) ==
    IF position # <<>> /\ k = EmptyKey THEN position ELSE Append(position, k)

Within(p, q) == Len(p) <= Len(q) /\ p = SubSeq(q, 1, Len(p))

Put ==
    /\ UNCHANGED position
    /\ \E k \in Keys, v \in Values :
          LET place == Place(k)
          IN  content' = [q \in Places |->
                  IF q = place THEN v
                  ELSE IF Within(place, q) \/ Within(q, place) THEN Nothing
                  ELSE content[q]]

Move ==
    /\ \/ position' = <<>>
       \/ \E k \in Keys : position' = <<k, 0>>
       \/ position # <<>> /\ \E i \in Indices : position' = <<position[1], i>>
    /\ UNCHANGED content

Next == Move \/ Put

Spec == [][Next]_<<content, position>>

=============================================================================
