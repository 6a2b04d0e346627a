----------------------------- MODULE MCKMessage -----------------------------
(* Instances of KMessage for TLC. *)
EXTENDS KMessage, TLC

Uncut == [k \in Keys |-> k]

\* "longer" is a key of more than 31 characters that begins with "a...".
CutLong == [k \in Keys |-> IF k = "longer" THEN "a" ELSE k]

MCJumps == {-1}

Input(kind, n, form) == [kind |-> kind, n |-> n, form |-> form]

\* A short that is too wide, an int64 beyond int32, and a text.
MapInputs ==
    {Input("Short", 2, "plain"), Input("Int64", 5, "plain"),
     Input("String", 0, "true")}

\* What a server may put below "Message_Data": nothing of use, a scalar, or an
\* object with an array of two elements.
ServerData ==
    {Scalar("string", 0, "plain"),
     Container("object", "a" :> Container("array",
        0 :> Scalar("real", 1, "fraction")
        @@ 1 :> Container("object", "a" :> Scalar("bool", 1, "plain"))))}

\* The same array below the key that is cut.
LongData == {Container("object", "longer" :> Container("array", 0 :> Scalar("int", 1, "plain")))}

=============================================================================
