------------------------------ MODULE KMessage ------------------------------
(***************************************************************************)
(* One KMessage (message.h) under any sequence of the natives of           *)
(* natives.cpp that read, write and walk it.  All plugins that know the    *)
(* handle share the object, its array mode and its cursor.  The value      *)
(* below "Message_Data" is the one natives can reach.                      *)
(*                                                                         *)
(* A read is an assignment of what is there: operator[] of a value that is *)
(* not constant makes what it does not find.  JsonCpp throws where a value *)
(* has the wrong type, nothing catches the exception, and the process ends *)
(* (crashed).                                                              *)
(***************************************************************************)
EXTENDS JsonValue

CONSTANTS
    Keys,       \* keys plugins use
    EmptyKey,   \* "": in array mode, the element itself
    Cut,        \* what strncpy leaves of each key in m_ArrayKey (31 characters)
    Received,   \* values of "Message_Data" in messages from the server
    Inputs,     \* what plugins write: a kind and the value they give
    Jumps,      \* what plugins assign to ArrayIndex
    MaxShort,   \* the largest int16
    MaxWrites,  \* bound: how often plugins write
    MaxPlaces   \* bound: how many places of the message exist

ASSUME MessageOK ==
    /\ Cut \in [Keys -> Keys] /\ EmptyKey \in Keys
    /\ Width \in Nat \ {0}
    /\ Jumps \subseteq Int
    /\ Inputs \subseteq [kind : {"Bool", "Short", "Int32", "Int64", "Float", "String"},
                        n : Int, form : {"plain", "fraction", "true"}]
    /\ \A v \in Received, k \in Keys :
          LET child == Lookup(v, <<k>>)
          IN  child.type = "array" => DOMAIN child.of \subseteq 0..(Width - 1)
    /\ MaxWrites \in Nat /\ MaxPlaces \in Nat

\* What WriteInt32 is given is a cell, an int32; an int16 is narrower.
ASSUME CellsOK ==
    /\ MaxShort \in Nat /\ MaxInt \in Nat /\ MaxShort <= MaxInt
    /\ \A i \in Inputs : i.kind = "Int32" => InInt32(i.n)

VARIABLES
    Message_Data,
    m_ArrayMode,
    m_ArrayKey,
    m_ArrayIndex,
    ret,            \* what the last ReadX returned
    crashed,        \* an exception of JsonCpp has ended the process
    \* History:
    writes,         \* how often plugins have written
    loop,           \* ReadArrayBegin was called, then only reads and ReadArrayNext
    seen            \* the indices the cursor was at since ReadArrayBegin

cursor == <<m_ArrayMode, m_ArrayKey, m_ArrayIndex>>
history == <<loop, seen>>
vars == <<Message_Data, cursor, ret, crashed, writes, history>>

\* The constructors: an empty message, or one that was parsed.  m_ArrayKey is
\* not initialised: it may hold the bytes of any key.
Init ==
    /\ Message_Data \in {Null} \cup Received
    /\ m_ArrayMode = FALSE /\ m_ArrayKey \in Keys /\ m_ArrayIndex = 0
    /\ ret = Null /\ crashed = FALSE
    /\ writes = 0 /\ loop = FALSE /\ seen = {}

-----------------------------------------------------------------------------
TopOnly(k) == <<k>>                       \* Mutant: array mode is not looked at.

\* The place every ReadX and WriteX works on.
PathOf(k) ==
    IF ~m_ArrayMode THEN <<k>>
    ELSE IF k = EmptyKey THEN <<m_ArrayKey, m_ArrayIndex>>
         ELSE <<m_ArrayKey, m_ArrayIndex, k>>

ArrayAt(k) == Lookup(Message_Data, <<k>>)

\* root[p1][p2]... = w, or the exception.
Access(p, w) ==
    IF Reachable(Message_Data, p)
    THEN Message_Data' = Assign(Message_Data, p, w) /\ UNCHANGED crashed
    ELSE crashed' = TRUE /\ UNCHANGED Message_Data

NoLoop == loop' = FALSE /\ seen' = {}

(***************************************************************************)
(* Writes                                                                  *)
(***************************************************************************)
\* The conversion of a cell to int16.
ToShort(n) == ((n + MaxShort + 1) % (2 * (MaxShort + 1))) - (MaxShort + 1)

\* What each WriteX stores.
Stored(i) ==
    CASE i.kind = "Bool"   -> Scalar("bool", IF i.n = 0 THEN 0 ELSE 1, "plain")
      [] i.kind = "Short"  -> Scalar("int", ToShort(i.n), "plain")
      [] i.kind = "Int32"  -> Scalar("int", i.n, "plain")
      [] i.kind = "Int64"  -> Scalar("int", i.n, "plain")
      [] i.kind = "Float"  -> Scalar("real", i.n, i.form)
      [] i.kind = "String" -> Scalar("string", i.n, i.form)

Write(k, i) ==
    /\ writes < MaxWrites /\ writes' = writes + 1
    /\ Access(PathOf(k), Stored(i))
    /\ ret' = Null
    /\ NoLoop
    /\ UNCHANGED cursor

(***************************************************************************)
(* Reads                                                                   *)
(***************************************************************************)
Kinds == {"Bool", "Short", "Int32", "Int64", "Float", "String"}

\* ReadBool never throws; the others do where the conversion they end in does.
Converts(kind, v) ==
    CASE kind = "Bool"   -> TRUE
      [] kind = "Short"  -> AsIntOK(v) \/ v.type = "string"
      [] kind = "Int32"  -> AsIntOK(v) \/ v.type = "string"
      [] kind = "Int64"  -> IsInt64(v) \/ AsCStringOK(v)
      [] kind = "Float"  -> AsBoolOK(v)
      [] kind = "String" -> AsStringOK(v)

\* ReadInt64 through asInt(): a mutant of the next definition.
Narrowed(kind, v) ==
    IF kind \in {"Short", "Int64"} THEN Scalar("int", ToShort(Number(v)), "plain") ELSE v

\* What each ReadX returns.
Returned(kind, v) ==
    CASE kind = "Bool"   -> Scalar("bool", IF \/ AsBoolOK(v) /\ AsBool(v)
                                              \/ v.type = "string" /\ v.form = "true"
                                           THEN 1 ELSE 0, "plain")
      [] kind = "Short"  -> Scalar("int", ToShort(Number(v)), "plain")
      [] kind = "Int32"  -> Scalar("int", Number(v), "plain")
      [] kind = "Int64"  -> Scalar("int", Number(v), "plain")
      [] kind = "Float"  -> Scalar("real", Number(v),
                                   IF v.type = "real" THEN v.form ELSE "plain")
      [] kind = "String" -> AsString(v)

Read(kind, k) ==
    LET p == PathOf(k)
        v == Lookup(Message_Data, p)
    IN  /\ IF Reachable(Message_Data, p) /\ Converts(kind, v)
           THEN Access(p, v) /\ ret' = Returned(kind, v)
           ELSE crashed' = TRUE /\ UNCHANGED <<Message_Data, ret>>
        /\ UNCHANGED <<cursor, writes, history>>

\* ArraySize and IsChildArray look at a key of the top.
Inspect(k) ==
    /\ Access(<<k>>, ArrayAt(k))
    /\ UNCHANGED <<cursor, ret, writes, history>>

(***************************************************************************)
(* The cursor                                                              *)
(***************************************************************************)
BeginArray(k) ==
    m_ArrayMode' = TRUE /\ m_ArrayKey' = Cut[k] /\ m_ArrayIndex' = 0

WriteArrayBegin(k) ==
    /\ BeginArray(k)
    /\ NoLoop
    /\ ret' = Null
    /\ UNCHANGED <<Message_Data, crashed, writes>>

AnyChild(k) == TRUE                       \* Mutant: IsChildArray is not asked.
IsChildArray(k) == ArrayAt(k).type = "array"

\* Native_ReadArrayBegin asks IsChildArray, which makes the key, and reports an
\* error to the plugin if there is no array.
ReadArrayBegin(k) ==
    /\ Access(<<k>>, ArrayAt(k))
    /\ IF crashed' \/ ~IsChildArray(k)
       THEN UNCHANGED <<cursor, ret, history>>
       ELSE BeginArray(k) /\ ret' = Null /\ loop' = TRUE /\ seen' = {0}
    /\ UNCHANGED writes

IndexBefore == m_ArrayIndex                       \* Mutant: m_ArrayIndex++.
IndexAfter == (m_ArrayIndex + 1) % Width

\* isValidIndex(++m_ArrayIndex); the cursor moves even if the answer is false.
IsNext == IndexAfter < Size(ArrayAt(m_ArrayKey))
ReadArrayNext ==
    /\ Access(<<m_ArrayKey>>, ArrayAt(m_ArrayKey))
    /\ m_ArrayIndex' = (m_ArrayIndex + 1) % Width
    /\ IF loop /\ IsNext
       THEN loop' = TRUE /\ seen' = seen \cup {m_ArrayIndex'}
       ELSE NoLoop
    /\ ret' = Null
    /\ UNCHANGED <<m_ArrayMode, m_ArrayKey, writes>>

\* ReadArrayEnd and WriteArrayEnd.
ArrayEnd ==
    /\ m_ArrayMode' = FALSE
    /\ NoLoop
    /\ ret' = Null
    /\ UNCHANGED <<Message_Data, m_ArrayKey, m_ArrayIndex, crashed, writes>>

Signed(i) == i                            \* Mutant: the cell is not converted.
ToIndex(i) == i % Width

\* ArrayIndex.set: a cell becomes an unsigned index.
SetArrayIndex(i) ==
    /\ m_ArrayIndex' = ToIndex(i)
    /\ NoLoop
    /\ ret' = Null
    /\ UNCHANGED <<Message_Data, m_ArrayMode, m_ArrayKey, crashed, writes>>

-----------------------------------------------------------------------------
Places == {<<k>> : k \in Keys} \cup (Keys \X (0..(Width - 1)))
          \cup (Keys \X (0..(Width - 1)) \X (Keys \ {EmptyKey}))

Next ==
    /\ ~crashed
    /\ \/ \E k \in Keys : \/ \E i \in Inputs : Write(k, i)
                          \/ \E kind \in Kinds : Read(kind, k)
                          \/ Inspect(k)
                          \/ WriteArrayBegin(k)
                          \/ ReadArrayBegin(k)
       \/ ReadArrayNext
       \/ ArrayEnd
       \/ \E i \in Jumps : SetArrayIndex(i)
    /\ Cardinality({p \in Places : Exists(Message_Data', p)}) <= MaxPlaces

Spec == Init /\ [][Next]_vars

-----------------------------------------------------------------------------
\* The cursor's index stays an unsigned one, whatever a plugin assigns to it and
\* however far ReadArrayNext takes it; its key is one that plugins gave.
TypeOK ==
    /\ m_ArrayMode \in BOOLEAN /\ m_ArrayKey \in Keys
    /\ m_ArrayIndex \in 0..(Width - 1)
    /\ crashed \in BOOLEAN /\ writes \in 0..MaxWrites /\ loop \in BOOLEAN
    /\ seen \subseteq 0..(Width - 1)

\* From ReadArrayBegin on, through all reads and ReadArrayNext, the cursor is in
\* an array: no read of the loop replaces it or finds another value.
CursorOnArray ==
    loop => m_ArrayMode /\ ArrayAt(m_ArrayKey).type = "array"

\* A loop that reads until ReadArrayNext answers false has been at each element
\* of the array, and at no index past its end other than 0 (the loop visits an
\* empty array once).  An array that reaches the last index counts as empty.
IterationVisitsAll ==
    [][ loop /\ ReadArrayNext /\ ~loop' /\ ~crashed' =>
          LET array == ArrayAt(m_ArrayKey)
          IN  Width - 1 \in DOMAIN array.of
              \/ /\ DOMAIN array.of \subseteq seen
                 /\ seen \subseteq {0} \cup 0..(Size(array) - 1) ]_vars

Scalars == {"bool", "int", "real", "string"}

ValueAt(p) ==
    LET v == Lookup(Message_Data, p) IN IF v.type \in Scalars THEN v ELSE Null

StoredValues == {Stored(i) : i \in Inputs}

\* What WriteX stored, ReadX finds and returns, without an exception.
ReadsBackWrites ==
    [][ \A k \in Keys, i \in Inputs :
          Read(i.kind, k) /\ ValueAt(PathOf(k)) = Stored(i)
          => ~crashed' /\ ret' = Stored(i) ]_vars

\* The natives together implement the map that MessageMap describes: a write
\* changes the one place its key names, through all reads and cursor calls
\* before it; a read changes no place, though it makes what it does not find.
Map == INSTANCE MessageMap WITH
           Indices <- 0..(Width - 1), Values <- StoredValues, Nothing <- Null,
           content <- [p \in Places |-> ValueAt(p)],
           position <- IF m_ArrayMode THEN <<m_ArrayKey, m_ArrayIndex>> ELSE <<>>
ImplementsMap == Map!Spec

=============================================================================
