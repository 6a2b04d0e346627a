--------------------------- MODULE KMessageProofs ---------------------------
(***************************************************************************)
(* Theorems about KMessage, for any keys, any width of an index, any data  *)
(* from the server and any number of writes.                               *)
(***************************************************************************)
EXTENDS KMessage, WellFoundedInduction, TLAPS

-----------------------------------------------------------------------------
(***************************************************************************)
(* The inductive invariant                                                 *)
(***************************************************************************)
\* Every array at the top has indices of ArrayIndex.
DataInv ==
    \A k \in Keys : ArrayAt(k).type = "array" => DOMAIN ArrayAt(k).of \subseteq 0..(Width - 1)

\* A loop has been at all indices up to the cursor's, and the cursor is past the
\* first one only if the array is.
LoopInv ==
    loop => /\ seen = 0..m_ArrayIndex
            /\ m_ArrayIndex = 0 \/ m_ArrayIndex < Size(ArrayAt(m_ArrayKey))

IInv == TypeOK /\ DataInv /\ CursorOnArray /\ LoopInv

ShortKeys == \A k \in Keys : Cut[k] = k

-----------------------------------------------------------------------------
(***************************************************************************)
(* Arrays                                                                  *)
(***************************************************************************)
\* Indices have a last one.
LEMMA LastIsLast ==
    ASSUME NEW D \in SUBSET (0..(Width - 1)), D # {}
    PROVE  Last(D) \in D /\ \A j \in D : j <= Last(D)
<1> DEFINE Back == {Width - i : i \in D}
<1> USE MessageOK
<1>1. Back \subseteq Nat /\ Back # {}
  OBVIOUS
<1>2. IsWellFoundedOn(OpToRel(<, Nat), Nat)
  BY NatLessThanWellFounded
<1>3. PICK b \in Back : \A c \in Back : <<c, b>> \notin OpToRel(<, Nat)
  BY <1>1, <1>2, WFMin
<1>4. PICK i \in D : b = Width - i
  OBVIOUS
<1>5. ASSUME NEW j \in D PROVE j <= i
  <2>1. Width - j \in Back /\ Width - j \in Nat /\ b \in Nat
    BY <1>1, <1>4
  <2>2. ~(Width - j < b)
    BY <1>3, <2>1 DEF OpToRel
  <2> QED
    BY <1>4, <2>1, <2>2
<1> QED
  BY <1>5 DEF Last

LEMMA SizeIs ==
    ASSUME NEW v, v.type = "array", DOMAIN v.of \subseteq 0..(Width - 1)
    PROVE  /\ Size(v) \in 0..(Width - 1)
           /\ DOMAIN v.of = {} => Size(v) = 0
           /\ DOMAIN v.of # {} => /\ Last(DOMAIN v.of) \in DOMAIN v.of
                                  /\ \A j \in DOMAIN v.of : j <= Last(DOMAIN v.of)
                                  /\ Size(v) = (Last(DOMAIN v.of) + 1) % Width
<1>1. CASE DOMAIN v.of = {}
  BY <1>1, MessageOK DEF Size
<1>2. CASE DOMAIN v.of # {}
  <2>1. Last(DOMAIN v.of) \in DOMAIN v.of /\ \A j \in DOMAIN v.of : j <= Last(DOMAIN v.of)
    BY <1>2, LastIsLast
  <2>2. Last(DOMAIN v.of) \in 0..(Width - 1)
    BY <2>1
  <2>3. Size(v) = (Last(DOMAIN v.of) + 1) % Width
    BY <1>2 DEF Size
  <2> QED
    BY <1>2, <2>1, <2>2, <2>3, MessageOK
<1> QED
  BY <1>1, <1>2

-----------------------------------------------------------------------------
(***************************************************************************)
(* Assignments                                                             *)
(***************************************************************************)
\* What is below one key of the top afterwards.
LEMMA ChildOfSetChild ==
    ASSUME NEW v, NEW t, NEW c, NEW w, NEW x
    PROVE  /\ x = c => Child(SetChild(v, t, c, w), t, x) = w
           /\ x # c => Child(SetChild(v, t, c, w), t, x) = Child(v, t, x)
<1> DEFINE new == [y \in DOMAIN Children(v, t) \cup {c} |->
                      IF y = c THEN w ELSE Children(v, t)[y]]
<1>1. SetChild(v, t, c, w).type = t /\ SetChild(v, t, c, w).of = new
  BY DEF SetChild, Container
<1>2. CASE x = c
  <2>1. x \in DOMAIN new /\ new[x] = w
    BY <1>2
  <2> QED
    BY <1>1, <1>2, <2>1 DEF Child, Has
<1>3. CASE x # c
  <2>1. CASE v.type = t
    <3>1. x \in DOMAIN new <=> x \in DOMAIN v.of
      BY <1>3, <2>1 DEF Children
    <3>2. x \in DOMAIN new => new[x] = v.of[x]
      BY <1>3, <2>1 DEF Children
    <3> QED
      BY <1>1, <1>3, <2>1, <3>1, <3>2 DEF Child, Has
  <2>2. CASE v.type # t
    <3>1. x \notin DOMAIN new
      BY <1>3, <2>2 DEF Children, NoMembers
    <3> QED
      BY <1>1, <1>3, <2>2, <3>1 DEF Child, Has
  <2> QED
    BY <2>1, <2>2
<1> QED
  BY <1>2, <1>3

LEMMA TopAfterAssign ==
    ASSUME NEW root, NEW j, NEW k, NEW w
    PROVE  Lookup(Assign(root, <<j>>, w), <<k>>) = IF k = j THEN w ELSE Lookup(root, <<k>>)
<1>1. Assign(root, <<j>>, w) = SetChild(root, "object", j, w)
  BY DEF Assign
<1>2. Lookup(root, <<k>>) = Child(root, "object", k)
  BY DEF Lookup, First
<1>3. Lookup(Assign(root, <<j>>, w), <<k>>) = Child(SetChild(root, "object", j, w), "object", k)
  BY <1>1 DEF Lookup, First
<1> QED
  BY <1>2, <1>3, ChildOfSetChild

\* A path into an array makes it one, with the index of the path.
LEMMA ArrayAfterAssign ==
    ASSUME NEW root, NEW p, NEW w, NEW k, Len(p) \in {2, 3}
    PROVE  /\ k # p[1] => Lookup(Assign(root, p, w), <<k>>) = Lookup(root, <<k>>)
           /\ Lookup(Assign(root, p, w), <<p[1]>>).type = "array"
           /\ DOMAIN Lookup(Assign(root, p, w), <<p[1]>>).of =
                 DOMAIN Children(Lookup(root, <<p[1]>>), "array") \cup {p[2]}
<1> DEFINE top == Child(root, "object", p[1])
<1>1. PICK u : Assign(root, p, w) = SetChild(root, "object", p[1], SetChild(top, "array", p[2], u))
  BY DEF Assign, First
<1>2. \A v, x : Lookup(v, <<x>>) = Child(v, "object", x)
  BY DEF Lookup, First
<1>3. /\ SetChild(top, "array", p[2], u).type = "array"
      /\ DOMAIN SetChild(top, "array", p[2], u).of = DOMAIN Children(top, "array") \cup {p[2]}
  BY DEF SetChild, Container
<1> HIDE DEF top
<1>4. /\ k # p[1] => Lookup(Assign(root, p, w), <<k>>) = Child(root, "object", k)
      /\ Lookup(Assign(root, p, w), <<p[1]>>) = SetChild(top, "array", p[2], u)
  BY <1>1, <1>2, ChildOfSetChild
<1> QED
  BY <1>2, <1>3, <1>4 DEF top

-----------------------------------------------------------------------------
(***************************************************************************)
(* What the accesses of the natives do to arrays at the top                *)
(***************************************************************************)
\* ArraySize, IsChildArray and ReadArrayNext change nothing that is there.
LEMMA TopAccess ==
    ASSUME NEW j, Access(<<j>>, ArrayAt(j))
    PROVE  \A k : ArrayAt(k)' = ArrayAt(k)
BY TopAfterAssign DEF Access, ArrayAt

LEMMA StoredIsScalar ==
    ASSUME NEW i \in Inputs
    PROVE  Stored(i).type \in Scalars
BY MessageOK DEF Stored, Scalar, Scalars

\* An access through the cursor leaves the top as it is, or an array there with
\* the cursor's index.
LEMMA CursorAccess ==
    ASSUME m_ArrayMode, NEW k, NEW w, Access(PathOf(k), w)
    PROVE  \/ UNCHANGED Message_Data
           \/ /\ \A x : x # m_ArrayKey => ArrayAt(x)' = ArrayAt(x)
              /\ Lookup(Message_Data', <<m_ArrayKey>>).type = "array"
              /\ DOMAIN Lookup(Message_Data', <<m_ArrayKey>>).of =
                    DOMAIN Children(ArrayAt(m_ArrayKey), "array") \cup {m_ArrayIndex}
<1> DEFINE p == PathOf(k)
<1>1. Len(p) \in {2, 3} /\ p[1] = m_ArrayKey /\ p[2] = m_ArrayIndex
  BY DEF PathOf
<1>2. CASE UNCHANGED Message_Data
  BY <1>2
<1>3. CASE Message_Data' = Assign(Message_Data, p, w)
  <2> HIDE DEF p
  <2> DEFINE new == Assign(Message_Data, p, w)
  <2>0. ASSUME NEW x
        PROVE  /\ x # p[1] => Lookup(new, <<x>>) = Lookup(Message_Data, <<x>>)
               /\ Lookup(new, <<p[1]>>).type = "array"
               /\ DOMAIN Lookup(new, <<p[1]>>).of =
                     DOMAIN Children(Lookup(Message_Data, <<p[1]>>), "array") \cup {p[2]}
    BY <1>1, ArrayAfterAssign
  <2>1. \A x : x # m_ArrayKey => ArrayAt(x)' = ArrayAt(x)
    BY <1>1, <1>3, <2>0 DEF ArrayAt
  <2>2. /\ Lookup(Message_Data', <<m_ArrayKey>>).type = "array"
        /\ DOMAIN Lookup(Message_Data', <<m_ArrayKey>>).of =
              DOMAIN Children(ArrayAt(m_ArrayKey), "array") \cup {m_ArrayIndex}
    BY <1>1, <1>3, <2>0 DEF ArrayAt
  <2> QED
    BY <2>1, <2>2
<1> QED
  BY <1>2, <1>3 DEF Access

\* No access gives an array an index that is none.
LEMMA AccessKeepsData ==
    ASSUME TypeOK, DataInv, NEW k \in Keys, NEW w, Access(PathOf(k), w),
           w.type # "array" \/ w = Lookup(Message_Data, PathOf(k))
    PROVE  DataInv'
<1>1. CASE ~m_ArrayMode
  <2>1. PathOf(k) = <<k>>
    BY <1>1 DEF PathOf
  <2>2. w.type # "array" \/ w = ArrayAt(k)
    BY <2>1 DEF ArrayAt
  <2>3. UNCHANGED Message_Data \/ Message_Data' = Assign(Message_Data, <<k>>, w)
    BY <2>1 DEF Access
  <2>4. ASSUME NEW x
        PROVE  \/ Lookup(Message_Data', <<x>>) = Lookup(Message_Data, <<x>>)
               \/ Lookup(Message_Data', <<x>>) = w /\ x = k
    BY <2>3, TopAfterAssign
  <2>5. ASSUME NEW x \in Keys, Lookup(Message_Data', <<x>>).type = "array"
        PROVE  DOMAIN Lookup(Message_Data', <<x>>).of \subseteq 0..(Width - 1)
    BY <2>2, <2>4, <2>5 DEF DataInv, ArrayAt
  <2> QED
    BY <2>5 DEF DataInv, ArrayAt
<1>2. CASE m_ArrayMode
  <2>1. CASE UNCHANGED Message_Data
    BY <2>1 DEF DataInv, ArrayAt
  <2>2. CASE Message_Data' # Message_Data
    <3> DEFINE old == ArrayAt(m_ArrayKey)
    <3>1. DOMAIN Children(old, "array") \subseteq 0..(Width - 1)
      BY DEF Children, NoMembers, DataInv, TypeOK
    <3>2. m_ArrayIndex \in 0..(Width - 1)
      BY DEF TypeOK
    <3>3. DOMAIN Lookup(Message_Data', <<m_ArrayKey>>).of \subseteq 0..(Width - 1)
      BY <1>2, <2>2, <3>1, <3>2, CursorAccess
    <3>4. \A x : x # m_ArrayKey => ArrayAt(x)' = ArrayAt(x)
      BY <1>2, <2>2, CursorAccess
    <3>5. ASSUME NEW x \in Keys, ArrayAt(x)'.type = "array"
          PROVE  DOMAIN ArrayAt(x)'.of \subseteq 0..(Width - 1)
      BY <3>3, <3>4, <3>5 DEF DataInv, ArrayAt
    <3> QED
      BY <3>5 DEF DataInv
  <2> QED
    BY <2>1, <2>2
<1> QED
  BY <1>1, <1>2

\* A read in a loop makes the array no longer, except an empty one.
LEMMA AccessKeepsLoop ==
    ASSUME IInv, loop, NEW k, NEW w, Access(PathOf(k), w), UNCHANGED <<cursor, history>>
    PROVE  CursorOnArray' /\ LoopInv'
<1> DEFINE old == ArrayAt(m_ArrayKey)
           new == Lookup(Message_Data', <<m_ArrayKey>>)
<1>1. m_ArrayMode /\ old.type = "array" /\ m_ArrayKey \in Keys
  BY DEF IInv, CursorOnArray, TypeOK
<1>2. m_ArrayKey' = m_ArrayKey /\ m_ArrayIndex' = m_ArrayIndex /\ m_ArrayMode' = m_ArrayMode
      /\ loop' = loop /\ seen' = seen
  BY DEF cursor, history
<1>3. ArrayAt(m_ArrayKey)' = new
  BY <1>2 DEF ArrayAt
<1>4. new.type = "array"
      /\ \/ new = old
         \/ DOMAIN new.of = DOMAIN old.of \cup {m_ArrayIndex}
  BY <1>1, CursorAccess DEF ArrayAt, Children
<1>5. m_ArrayIndex = 0 \/ m_ArrayIndex < Size(new)
  <2>1. CASE m_ArrayIndex = 0 \/ new = old
    BY <2>1 DEF IInv, LoopInv
  <2>2. CASE m_ArrayIndex # 0 /\ DOMAIN new.of = DOMAIN old.of \cup {m_ArrayIndex}
    <3> DEFINE D == DOMAIN old.of
    <3>1. D \subseteq 0..(Width - 1) /\ m_ArrayIndex \in 0..(Width - 1)
      BY <1>1 DEF IInv, DataInv, TypeOK
    <3>2. m_ArrayIndex < Size(old)
      BY <2>2 DEF IInv, LoopInv
    <3>3. /\ D # {} /\ Last(D) \in D /\ \A j \in D : j <= Last(D)
          /\ Size(old) = (Last(D) + 1) % Width
      BY <1>1, <3>1, <3>2, SizeIs, Z3
    <3>4. Last(D) \in 0..(Width - 1) /\ Width \in Nat \ {0}
      BY <3>1, <3>3, MessageOK
    <3>5. m_ArrayIndex <= Last(D)
      BY <3>1, <3>2, <3>3, <3>4
    <3>6. D \cup {m_ArrayIndex} \subseteq 0..(Width - 1)
      BY <3>1
    <3>7. /\ Last(D \cup {m_ArrayIndex}) \in D \cup {m_ArrayIndex}
          /\ \A j \in D \cup {m_ArrayIndex} : j <= Last(D \cup {m_ArrayIndex})
      BY <3>6, LastIsLast
    <3>8. Last(D \cup {m_ArrayIndex}) = Last(D)
      <4> DEFINE E == D \cup {m_ArrayIndex}
      <4>1. Last(E) \in Int /\ Last(D) \in Int
        BY <3>4, <3>6, <3>7
      <4>2. Last(E) <= Last(D)
        BY <3>3, <3>5, <3>7
      <4>3. Last(D) <= Last(E)
        BY <3>3, <3>7
      <4>4. Last(E) = Last(D)
        BY <4>1, <4>2, <4>3
      <4> QED
        BY <4>4
    <3>9. Size(new) = (Last(DOMAIN new.of) + 1) % Width
      BY <1>4, <2>2, <3>6, SizeIs
    <3> QED
      BY <2>2, <3>2, <3>3, <3>8, <3>9
  <2> QED
    BY <1>4, <2>1, <2>2
<1>6. CursorOnArray'
  BY <1>1, <1>2, <1>3, <1>4 DEF CursorOnArray
<1>7. LoopInv'
  BY <1>2, <1>3, <1>5 DEF LoopInv, IInv
<1> QED
  BY <1>6, <1>7

-----------------------------------------------------------------------------
(***************************************************************************)
(* Theorems                                                                *)
(***************************************************************************)
LEMMA Constants ==
    /\ Width \in Nat \ {0} /\ MaxWrites \in Nat /\ Jumps \subseteq Int
    /\ \A k \in Keys : Cut[k] \in Keys
    /\ 0 \in 0..(Width - 1) /\ 0 \in 0..MaxWrites
    /\ \A n \in Int : n % Width \in 0..(Width - 1)
<1>1. Width \in Nat \ {0} /\ MaxWrites \in Nat /\ Jumps \subseteq Int /\ Cut \in [Keys -> Keys]
  BY MessageOK
<1> QED
  BY <1>1

\* The cursor's index stays an index and its key a key, under any sequence of
\* natives (KMessage's array fields, message.h:186-190).
THEOREM TypeCorrect == Spec => []TypeOK
<1>1. Init => TypeOK
  BY Constants DEF Init, TypeOK
<1>2. TypeOK /\ [Next]_vars => TypeOK'
  <2> SUFFICES ASSUME TypeOK, [Next]_vars PROVE TypeOK'
    OBVIOUS
  <2> USE Constants DEF TypeOK, NoLoop, cursor, history, BeginArray
  <2>1. ASSUME NEW k \in Keys, NEW i \in Inputs, Write(k, i) PROVE TypeOK'
    <3>0. writes \in 0..MaxWrites /\ writes < MaxWrites /\ writes' = writes + 1
      BY <2>1 DEF Write
    <3>1. writes' \in 0..MaxWrites
      BY <3>0
    <3> QED
      BY <2>1, <3>1 DEF Write, Access
  <2>2. ASSUME NEW k \in Keys, NEW kind \in Kinds, Read(kind, k) PROVE TypeOK'
    BY <2>2 DEF Read, Access
  <2>3. ASSUME NEW k \in Keys, Inspect(k) PROVE TypeOK'
    BY <2>3 DEF Inspect, Access
  <2>4. ASSUME NEW k \in Keys, WriteArrayBegin(k) PROVE TypeOK'
    BY <2>4 DEF WriteArrayBegin
  <2>5. ASSUME NEW k \in Keys, ReadArrayBegin(k) PROVE TypeOK'
    BY <2>5 DEF ReadArrayBegin, Access
  <2>6. CASE ReadArrayNext
    <3>1. m_ArrayIndex' \in 0..(Width - 1)
      BY <2>6 DEF ReadArrayNext
    <3> QED
      BY <2>6, <3>1 DEF ReadArrayNext, Access
  <2>7. CASE ArrayEnd
    BY <2>7 DEF ArrayEnd
  <2>8. ASSUME NEW i \in Jumps, SetArrayIndex(i) PROVE TypeOK'
    BY <2>8 DEF SetArrayIndex, ToIndex
  <2>9. CASE UNCHANGED vars
    BY <2>9 DEF vars
  <2> QED
    BY <2>1, <2>2, <2>3, <2>4, <2>5, <2>6, <2>7, <2>8, <2>9 DEF Next
<1> QED
  BY <1>1, <1>2, PTL DEF Spec

LEMMA InitIInv == Init => IInv
<1> SUFFICES ASSUME Init PROVE IInv
  OBVIOUS
<1>1. TypeOK /\ CursorOnArray /\ LoopInv
  BY Constants DEF Init, TypeOK, CursorOnArray, LoopInv
<1>2. ASSUME NEW k \in Keys, ArrayAt(k).type = "array"
      PROVE  DOMAIN ArrayAt(k).of \subseteq 0..(Width - 1)
  <2>1. CASE Message_Data = Null
    <3>1. ArrayAt(k) = Null
      BY <2>1 DEF ArrayAt, Lookup, First, Child, Has, Null
    <3> QED
      BY <1>2, <3>1 DEF Null
  <2>2. CASE Message_Data \in Received
    BY <1>2, <2>2, MessageOK DEF ArrayAt
  <2> QED
    BY <2>1, <2>2 DEF Init
<1> QED
  BY <1>1, <1>2 DEF IInv, DataInv

\* ReadArrayNext moves on inside the array as long as it answers true.
LEMMA NextKeepsLoop ==
    ASSUME IInv, ReadArrayNext
    PROVE  CursorOnArray' /\ LoopInv'
<1> DEFINE array == ArrayAt(m_ArrayKey)
<1> USE MessageOK
<1>1. CASE ~(loop /\ IsNext)
  BY <1>1 DEF ReadArrayNext, NoLoop, CursorOnArray, LoopInv
<1>2. CASE loop /\ IsNext
  <2>1. m_ArrayMode /\ array.type = "array" /\ m_ArrayKey \in Keys
        /\ m_ArrayIndex \in 0..(Width - 1) /\ Width \in Nat \ {0}
    BY <1>2 DEF IInv, CursorOnArray, TypeOK
  <2>2. /\ m_ArrayMode' = m_ArrayMode /\ m_ArrayKey' = m_ArrayKey
        /\ m_ArrayIndex' = (m_ArrayIndex + 1) % Width
        /\ loop' /\ seen' = seen \cup {m_ArrayIndex'}
    BY <1>2 DEF ReadArrayNext
  <2>3. ArrayAt(m_ArrayKey)' = array
    <3>1. \A k : ArrayAt(k)' = ArrayAt(k)
      BY TopAccess DEF ReadArrayNext
    <3>2. Lookup(Message_Data', <<m_ArrayKey>>) = array
      BY <3>1 DEF ArrayAt
    <3> QED
      BY <2>2, <3>2 DEF ArrayAt
  <2>4. Size(array) \in 0..(Width - 1)
    BY <2>1, SizeIs DEF IInv, DataInv
  <2>5. m_ArrayIndex' < Size(array)
    BY <1>2, <2>2 DEF IsNext, IndexAfter
  <2>6. m_ArrayIndex' = m_ArrayIndex + 1
    <3>1. m_ArrayIndex + 1 # Width
      BY <1>2, <2>1, <2>4, <2>5, <2>2 DEF IInv, LoopInv
    <3> QED
      BY <2>1, <2>2, <3>1
  <2>7. seen' = 0..m_ArrayIndex'
    BY <1>2, <2>1, <2>2, <2>6 DEF IInv, LoopInv
  <2> HIDE DEF array
  <2> QED
    BY <2>1, <2>2, <2>3, <2>5, <2>7 DEF CursorOnArray, LoopInv
<1> QED
  BY <1>1, <1>2

LEMMA StepIInv ==
    ASSUME ShortKeys, IInv, TypeOK', [Next]_vars
    PROVE  IInv'
<1>1. ASSUME NEW k \in Keys, NEW i \in Inputs, Write(k, i) PROVE IInv'
  <2>1. PICK w : w = Stored(i)
    OBVIOUS
  <2>2. Access(PathOf(k), w) /\ w.type # "array"
    BY <1>1, <2>1, StoredIsScalar DEF Write, Scalars
  <2>3. DataInv'
    BY <2>2, AccessKeepsData DEF IInv
  <2> QED
    BY <1>1, <2>3 DEF IInv, Write, NoLoop, CursorOnArray, LoopInv
<1>2. ASSUME NEW k \in Keys, NEW kind \in Kinds, Read(kind, k) PROVE IInv'
  <2>1. PICK w : w = Lookup(Message_Data, PathOf(k))
    OBVIOUS
  <2>2. CASE Access(PathOf(k), w)
    <3>1. DataInv'
      BY <2>1, <2>2, AccessKeepsData DEF IInv
    <3>2. CASE loop
      BY <1>2, <2>2, <3>1, <3>2, AccessKeepsLoop DEF IInv, Read
    <3>3. CASE ~loop
      BY <1>2, <3>1, <3>3 DEF IInv, Read, history, CursorOnArray, LoopInv
    <3> QED
      BY <3>2, <3>3
  <2>3. CASE UNCHANGED Message_Data
    BY <1>2, <2>3 DEF IInv, Read, cursor, history, DataInv, CursorOnArray, LoopInv, ArrayAt
  <2> QED
    BY <1>2, <2>1, <2>2, <2>3 DEF Read
<1>3. ASSUME NEW k \in Keys, Inspect(k) PROVE IInv'
  <2>1. \A j : ArrayAt(j)' = ArrayAt(j)
    BY <1>3, TopAccess DEF Inspect
  <2>2. ArrayAt(m_ArrayKey)' = ArrayAt(m_ArrayKey)
    BY <1>3, <2>1 DEF Inspect, cursor, ArrayAt
  <2> QED
    BY <1>3, <2>1, <2>2 DEF IInv, Inspect, cursor, history, DataInv, CursorOnArray, LoopInv
<1>4. ASSUME NEW k \in Keys, WriteArrayBegin(k) PROVE IInv'
  BY <1>4 DEF IInv, WriteArrayBegin, NoLoop, DataInv, CursorOnArray, LoopInv, ArrayAt
<1>5. ASSUME NEW k \in Keys, ReadArrayBegin(k) PROVE IInv'
  <2>1. \A j : ArrayAt(j)' = ArrayAt(j)
    BY <1>5, TopAccess DEF ReadArrayBegin
  <2>2. DataInv'
    BY <2>1 DEF IInv, DataInv
  <2>3. CASE crashed' \/ ~IsChildArray(k)
    <3>1. UNCHANGED <<cursor, history>>
      BY <1>5, <2>3 DEF ReadArrayBegin
    <3>2. ArrayAt(m_ArrayKey)' = ArrayAt(m_ArrayKey)
      BY <2>1, <3>1 DEF cursor, ArrayAt
    <3> QED
      BY <2>2, <3>1, <3>2 DEF IInv, cursor, history, CursorOnArray, LoopInv
  <2>4. CASE ~crashed' /\ IsChildArray(k)
    <3>1. /\ m_ArrayMode' /\ m_ArrayKey' = k /\ m_ArrayIndex' = 0
          /\ loop' /\ seen' = {0}
      BY <1>5, <2>4 DEF ReadArrayBegin, BeginArray, ShortKeys
    <3>2. Lookup(Message_Data', <<k>>).type = "array"
      BY <2>1, <2>4 DEF IsChildArray, ArrayAt
    <3> QED
      BY <2>2, <3>1, <3>2 DEF IInv, CursorOnArray, LoopInv, ArrayAt
  <2> QED
    BY <2>3, <2>4
<1>6. CASE ReadArrayNext
  <2>1. \A j : ArrayAt(j)' = ArrayAt(j)
    BY <1>6, TopAccess DEF ReadArrayNext
  <2> QED
    BY <1>6, <2>1, NextKeepsLoop DEF IInv, DataInv
<1>7. CASE ArrayEnd
  BY <1>7 DEF IInv, ArrayEnd, NoLoop, DataInv, CursorOnArray, LoopInv, ArrayAt
<1>8. ASSUME NEW i \in Jumps, SetArrayIndex(i) PROVE IInv'
  BY <1>8 DEF IInv, SetArrayIndex, NoLoop, DataInv, CursorOnArray, LoopInv, ArrayAt
<1>9. CASE UNCHANGED vars
  BY <1>9 DEF IInv, vars, cursor, history, DataInv, CursorOnArray, LoopInv, ArrayAt
<1> QED
  BY <1>1, <1>2, <1>3, <1>4, <1>5, <1>6, <1>7, <1>8, <1>9 DEF Next

\* With keys that m_ArrayKey holds, a loop over an array never leaves it.
THEOREM CursorStaysOnArray ==
    ASSUME ShortKeys
    PROVE  Spec => []CursorOnArray
<1>1. IInv /\ TypeOK' /\ [Next]_vars => IInv'
  BY ShortKeys, StepIInv
<1>2. IInv => CursorOnArray
  BY DEF IInv
<1> QED
  BY <1>1, <1>2, InitIInv, TypeCorrect, PTL DEF Spec

LEMMA LoopEnds ==
    ASSUME IInv, loop, ReadArrayNext, ~loop', ~crashed',
           Width - 1 \notin DOMAIN ArrayAt(m_ArrayKey).of
    PROVE  /\ DOMAIN ArrayAt(m_ArrayKey).of \subseteq seen
           /\ seen \subseteq {0} \cup 0..(Size(ArrayAt(m_ArrayKey)) - 1)
<1> DEFINE array == ArrayAt(m_ArrayKey)
           D == DOMAIN array.of
<1>1. /\ array.type = "array" /\ m_ArrayKey \in Keys /\ m_ArrayIndex \in 0..(Width - 1)
      /\ seen = 0..m_ArrayIndex
      /\ m_ArrayIndex = 0 \/ m_ArrayIndex < Size(array)
  BY DEF IInv, CursorOnArray, LoopInv, TypeOK
<1>2. D \subseteq 0..(Width - 1) /\ Width \in Nat \ {0} /\ Width - 1 \notin D
  BY <1>1, MessageOK DEF IInv, DataInv
<1>3. ~((m_ArrayIndex + 1) % Width < Size(array))
  BY DEF ReadArrayNext, IsNext, IndexAfter
<1> SUFFICES D \subseteq seen /\ seen \subseteq {0} \cup 0..(Size(array) - 1)
  OBVIOUS
<1> HIDE DEF array
<1>4. CASE D = {}
  <2>1. Size(array) = 0
    BY <1>1, <1>2, <1>4, SizeIs
  <2>2. m_ArrayIndex = 0
    BY <1>1, <2>1
  <2> QED
    BY <1>1, <1>4, <2>2
<1>5. CASE D # {}
  <2>1. /\ Last(D) \in D /\ \A j \in D : j <= Last(D)
        /\ Size(array) = (Last(D) + 1) % Width
    BY <1>1, <1>2, <1>5, SizeIs
  <2>2. Last(D) \in 0..(Width - 1) /\ Last(D) # Width - 1
    BY <1>2, <2>1
  <2>3. Size(array) = Last(D) + 1
    BY <1>2, <2>1, <2>2
  <2>4. m_ArrayIndex >= Last(D)
    BY <1>1, <1>2, <1>3, <2>2, <2>3
  <2>5. D \subseteq 0..m_ArrayIndex
    BY <1>1, <1>2, <2>1, <2>2, <2>4
  <2>6. 0..m_ArrayIndex \subseteq {0} \cup 0..(Size(array) - 1)
    BY <1>1, <2>2, <2>3
  <2> QED
    BY <1>1, <2>5, <2>6
<1> QED
  BY <1>4, <1>5

\* With such keys, a loop that ends has been at every element.
THEOREM LoopsVisitAll ==
    ASSUME ShortKeys
    PROVE  Spec => IterationVisitsAll
<1> DEFINE Ends ==
        loop /\ ReadArrayNext /\ ~loop' /\ ~crashed' =>
          LET array == ArrayAt(m_ArrayKey)
          IN  Width - 1 \in DOMAIN array.of
              \/ /\ DOMAIN array.of \subseteq seen
                 /\ seen \subseteq {0} \cup 0..(Size(array) - 1)
<1>1. IInv /\ TypeOK' /\ [Next]_vars => IInv'
  BY ShortKeys, StepIInv
<1>2. IInv => Ends
  BY LoopEnds
<1>3. IInv => [Ends]_vars
  BY <1>2
<1>4. Spec => [][Ends]_vars
  BY <1>1, <1>3, InitIInv, TypeCorrect, PTL DEF Spec
<1> QED
  BY <1>4 DEF IterationVisitsAll

=============================================================================
