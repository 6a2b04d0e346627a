----------------------------- MODULE JsonValue -----------------------------
(***************************************************************************)
(* The parts of JsonCpp that message.h relies on, as json/value.h declares *)
(* them and the library's documentation describes them: what operator[]    *)
(* does to a value that is not constant, what size() counts and which      *)
(* conversions throw.                                                      *)
(*                                                                         *)
(* A scalar keeps what the conversions tell apart: its number (what atoi   *)
(* reads of a string), and whether it is a fraction or the text "true".    *)
(***************************************************************************)
EXTENDS Integers, FiniteSets, Sequences

CONSTANTS
    Width,      \* ArrayIndex is an unsigned integer below Width (2^32)
    MaxInt      \* the largest int32

Null == [type |-> "null"]
Scalar(t, number, form) == [type |-> t, n |-> number, form |-> form]
Container(t, f) == [type |-> t, of |-> f]

NoMembers == [x \in {} |-> Null]

-----------------------------------------------------------------------------
(***************************************************************************)
(* A path is a key, a key and an index, or a key, an index and a key: the  *)
(* second step goes into an array, the others into objects.                *)
(***************************************************************************)
Has(v, t, c) == v.type = t /\ c \in DOMAIN v.of

\* The child a step into an object or array leads to; a missing one reads as null.
Child(v, t, c) == IF Has(v, t, c) THEN v.of[c] ELSE Null

\* root[p1], root[p1][p2] and root[p1][p2][p3].
First(root, p) == Child(root, "object", p[1])
Second(root, p) == Child(First(root, p), "array", p[2])
Third(root, p) == Child(Second(root, p), "object", p[3])

Lookup(root, p) ==
    CASE Len(p) = 1 -> First(root, p)
      [] Len(p) = 2 -> Second(root, p)
      [] Len(p) = 3 -> Third(root, p)

\* operator[] makes a null value an object or an array, and throws on any value
\* of another type than the one it needs.
Reachable(root, p) ==
    /\ root.type \in {"null", "object"}
    /\ Len(p) >= 2 => First(root, p).type \in {"null", "array"}
    /\ Len(p) = 3 => Second(root, p).type \in {"null", "object"}

Children(v, t) == IF v.type = t THEN v.of ELSE NoMembers

SetChild(v, t, c, w) ==
    Container(t, [x \in DOMAIN Children(v, t) \cup {c} |->
                     IF x = c THEN w ELSE Children(v, t)[x]])

\* The root after root[p1][p2]... = w.  A read is the assignment of what is
\* there: it leaves the values and arrays behind that operator[] made.
Assign(root, p, w) ==
    LET third  == IF Len(p) = 3 THEN SetChild(Second(root, p), "object", p[3], w) ELSE w
        second == IF Len(p) >= 2 THEN SetChild(First(root, p), "array", p[2], third) ELSE w
    IN  SetChild(root, "object", p[1], second)

\* Is there a value at the end of the path, be it null?
Exists(root, p) ==
    CASE Len(p) = 1 -> Has(root, "object", p[1])
      [] Len(p) = 2 -> Has(First(root, p), "array", p[2])
      [] Len(p) = 3 -> Has(Second(root, p), "object", p[3])

Last(indices) == CHOOSE i \in indices : \A j \in indices : j <= i

\* An array ends at its largest index; the addition is one of ArrayIndex.
Size(v) ==
    IF v.type = "object" THEN Cardinality(DOMAIN v.of)
    ELSE IF v.type # "array" \/ DOMAIN v.of = {} THEN 0
    ELSE (Last(DOMAIN v.of) + 1) % Width

-----------------------------------------------------------------------------
(***************************************************************************)
(* Conversions                                                             *)
(***************************************************************************)
IsNumeric(v) == v.type \in {"int", "real"}
IsInt64(v) == v.type = "int" \/ (v.type = "real" /\ v.form # "fraction")

Number(v) == IF v.type = "null" THEN 0 ELSE v.n
InInt32(n) == n \in -(MaxInt + 1)..MaxInt

AsBoolOK(v) == IsNumeric(v) \/ v.type \in {"bool", "null"}
AsBool(v) == v # Null /\ (v.n # 0 \/ v.form = "fraction")

AsIntOK(v) == AsBoolOK(v) /\ InInt32(Number(v))

\* asCString() is for strings only; asString() converts every scalar.
AsCStringOK(v) == v.type = "string"
AsStringOK(v) == v.type \notin {"array", "object"}
AsString(v) ==
    IF v.type = "string" THEN v
    ELSE IF v.type = "bool"
         THEN Scalar("string", 0, IF v.n = 1 THEN "true" ELSE "plain")
         ELSE Scalar("string", Number(v), "plain")

=============================================================================
