------------------------- MODULE KMessageMapProofs -------------------------
(***************************************************************************)
(* KMessage implements MessageMap, and what a native wrote is what the     *)
(* native of the same kind reads: for any keys (also keys that m_ArrayKey  *)
(* cuts), any width of an index, any data from the server.                 *)
(***************************************************************************)
EXTENDS KMessageProofs, SequenceTheorems

-----------------------------------------------------------------------------
(***************************************************************************)
(* Places: a place is one, two or three steps                              *)
(***************************************************************************)
Indices == 0..(Width - 1)

Steps1(p) == \E a \in Keys : p = <<a>>
Steps2(p) == \E a \in Keys, i \in Indices : p = <<a, i>>
Steps3(p) == \E a \in Keys, i \in Indices, b \in Keys \ {EmptyKey} : p = <<a, i, b>>

LEMMA PlaceShapes ==
    ASSUME NEW p
    PROVE  p \in Places <=> Steps1(p) \/ Steps2(p) \/ Steps3(p)
BY DEF Places, Indices, Steps1, Steps2, Steps3

\* Natives reach places only.
LEMMA PathIsPlace ==
    ASSUME TypeOK, NEW k \in Keys
    PROVE  PathOf(k) \in Places
BY PlaceShapes DEF PathOf, TypeOK, Steps1, Steps2, Steps3, Indices

-----------------------------------------------------------------------------
(***************************************************************************)
(* Assignments                                                             *)
(***************************************************************************)
\* What an assignment makes of the value at the first key of its path.
NewSecond(root, p, w) ==
    IF Len(p) = 1 THEN w
    ELSE SetChild(First(root, p), "array", p[2],
            IF Len(p) = 3 THEN SetChild(Second(root, p), "object", p[3], w) ELSE w)

\* The three levels of a value after an assignment, one at a time.
LEMMA FirstAfter ==
    ASSUME NEW root, NEW p, NEW w, Len(p) \in {1, 2, 3}, NEW q
    PROVE  First(Assign(root, p, w), q) =
              IF q[1] = p[1] THEN NewSecond(root, p, w) ELSE First(root, q)
<1>1. Assign(root, p, w) = SetChild(root, "object", p[1], NewSecond(root, p, w))
  BY DEF Assign, NewSecond
<1> QED
  BY <1>1, ChildOfSetChild DEF First

LEMMA SecondAfter ==
    ASSUME NEW root, NEW p, NEW w, Len(p) \in {1, 2, 3}, NEW q
    PROVE  Second(Assign(root, p, w), q) =
              IF q[1] # p[1] THEN Second(root, q)
              ELSE IF Len(p) = 1 THEN Child(w, "array", q[2])
              ELSE IF q[2] # p[2] THEN Second(root, q)
              ELSE IF Len(p) = 3 THEN SetChild(Second(root, p), "object", p[3], w)
              ELSE w
<1> DEFINE third == IF Len(p) = 3 THEN SetChild(Second(root, p), "object", p[3], w) ELSE w
<1>1. Second(Assign(root, p, w), q) = Child(First(Assign(root, p, w), q), "array", q[2])
  BY DEF Second
<1>2. CASE q[1] # p[1]
  BY <1>1, <1>2, FirstAfter DEF Second
<1>3. CASE q[1] = p[1] /\ Len(p) = 1
  BY <1>1, <1>3, FirstAfter DEF NewSecond
<1>4. CASE q[1] = p[1] /\ Len(p) # 1
  <2>1. First(Assign(root, p, w), q) = SetChild(First(root, p), "array", p[2], third)
    BY <1>4, FirstAfter DEF NewSecond
  <2>2. First(root, q) = First(root, p)
    BY <1>4 DEF First
  <2> HIDE DEF third
  <2>3. Child(SetChild(First(root, p), "array", p[2], third), "array", q[2]) =
           IF q[2] = p[2] THEN third ELSE Child(First(root, p), "array", q[2])
    BY ChildOfSetChild
  <2> QED
    BY <1>1, <1>4, <2>1, <2>2, <2>3 DEF Second, third
<1> QED
  BY <1>2, <1>3, <1>4

LEMMA ThirdAfter ==
    ASSUME NEW root, NEW p, NEW w, Len(p) \in {1, 2, 3}, NEW q
    PROVE  Third(Assign(root, p, w), q) =
              IF q[1] # p[1] THEN Third(root, q)
              ELSE IF Len(p) = 1 THEN Child(Child(w, "array", q[2]), "object", q[3])
              ELSE IF q[2] # p[2] THEN Third(root, q)
              ELSE IF Len(p) = 2 THEN Child(w, "object", q[3])
              ELSE IF q[3] = p[3] THEN w ELSE Third(root, q)
<1>1. Third(Assign(root, p, w), q) = Child(Second(Assign(root, p, w), q), "object", q[3])
  BY DEF Third
<1>2. CASE q[1] # p[1] \/ Len(p) = 1 \/ q[2] # p[2] \/ Len(p) = 2
  BY <1>1, <1>2, SecondAfter DEF Third
<1>3. CASE q[1] = p[1] /\ Len(p) = 3 /\ q[2] = p[2]
  <2>1. Second(Assign(root, p, w), q) = SetChild(Second(root, p), "object", p[3], w)
    BY <1>3, SecondAfter
  <2>2. Second(root, q) = Second(root, p)
    BY <1>3 DEF Second, First
  <2> QED
    BY <1>1, <1>3, <2>1, <2>2, ChildOfSetChild DEF Third
<1> QED
  BY <1>2, <1>3

-----------------------------------------------------------------------------
(***************************************************************************)
(* What is a scalar after an assignment                                    *)
(***************************************************************************)
\* ValueAt of any value, not only of Message_Data.
ScalarAt(root, p) ==
    LET v == Lookup(root, p) IN IF v.type \in Scalars THEN v ELSE Null

\* Nothing is below a scalar or null, and a container is no scalar.
LEMMA BelowScalar ==
    ASSUME NEW v, v.type \in Scalars \cup {"null"}, NEW t \in {"array", "object"}, NEW c
    PROVE  Child(v, t, c) = Null
BY DEF Child, Has, Scalars

LEMMA ContainerIsNoScalar ==
    ASSUME NEW v, NEW t \in {"array", "object"}, NEW c, NEW w
    PROVE  SetChild(v, t, c, w).type \notin Scalars
BY DEF SetChild, Container, Scalars

LEMMA LookupCases ==
    ASSUME NEW root
    PROVE  /\ \A p : Steps1(p) => Len(p) = 1 /\ Lookup(root, p) = First(root, p)
           /\ \A p : Steps2(p) => Len(p) = 2 /\ Lookup(root, p) = Second(root, p)
           /\ \A p : Steps3(p) => Len(p) = 3 /\ Lookup(root, p) = Third(root, p)
BY DEF Steps1, Steps2, Steps3, Lookup

-----------------------------------------------------------------------------
(***************************************************************************)
(* Writes and reads, place by place                                        *)
(***************************************************************************)
LEMMA Prefix ==
    ASSUME NEW p \in Places, NEW q \in Places
    PROVE  Map!Within(p, q) <=> /\ Len(p) <= Len(q) /\ p[1] = q[1]
                                /\ Len(p) >= 2 => p[2] = q[2]
                                /\ Len(p) = 3 => p[3] = q[3]
<1> USE DEF Map!Within
<1>1. ASSUME Steps1(q)
      PROVE  Map!Within(p, q) <=> /\ Len(p) <= Len(q) /\ p[1] = q[1]
                                  /\ Len(p) >= 2 => p[2] = q[2]
                                  /\ Len(p) = 3 => p[3] = q[3]
  BY <1>1, PlaceShapes DEF Steps1, Steps2, Steps3
<1>2. ASSUME Steps2(q)
      PROVE  Map!Within(p, q) <=> /\ Len(p) <= Len(q) /\ p[1] = q[1]
                                  /\ Len(p) >= 2 => p[2] = q[2]
                                  /\ Len(p) = 3 => p[3] = q[3]
  BY <1>2, PlaceShapes DEF Steps1, Steps2, Steps3
<1>3. ASSUME Steps3(q)
      PROVE  Map!Within(p, q) <=> /\ Len(p) <= Len(q) /\ p[1] = q[1]
                                  /\ Len(p) >= 2 => p[2] = q[2]
                                  /\ Len(p) = 3 => p[3] = q[3]
  BY <1>3, PlaceShapes DEF Steps1, Steps2, Steps3
<1> QED
  BY <1>1, <1>2, <1>3, PlaceShapes

LEMMA PlaceEquality ==
    ASSUME NEW p \in Places, NEW q \in Places
    PROVE  p = q <=> /\ Len(p) = Len(q) /\ p[1] = q[1]
                     /\ Len(p) >= 2 => p[2] = q[2]
                     /\ Len(p) = 3 => p[3] = q[3]
BY PlaceShapes DEF Steps1, Steps2, Steps3

\* A scalar that is assigned is at its place, clears what is above and below it,
\* and leaves all other places.
LEMMA WriteIsPut ==
    ASSUME NEW root, NEW p \in Places, NEW w, w.type \in Scalars, NEW q \in Places
    PROVE  ScalarAt(Assign(root, p, w), q) =
              IF q = p THEN w
              ELSE IF Map!Within(p, q) \/ Map!Within(q, p) THEN Null
              ELSE ScalarAt(root, q)
<1> DEFINE new == Assign(root, p, w)
<1>0. Len(p) \in {1, 2, 3}
  BY LookupCases, PlaceShapes
<1>1. /\ Child(w, "array", q[2]) = Null /\ Child(w, "object", q[3]) = Null
      /\ Child(Child(w, "array", q[2]), "object", q[3]) = Null
      /\ Null.type \notin Scalars
  BY BelowScalar DEF Null, Scalars
<1>2. CASE Steps1(q)
  <2>1. Lookup(new, q) = First(new, q) /\ Lookup(root, q) = First(root, q) /\ Len(q) = 1
    BY <1>2, LookupCases
  <2>2. First(new, q) = IF q[1] = p[1] THEN NewSecond(root, p, w) ELSE First(root, q)
    BY <1>0, FirstAfter
  <2>3. Len(p) # 1 => NewSecond(root, p, w).type \notin Scalars
    BY <1>0, ContainerIsNoScalar DEF NewSecond
  <2>4. Len(p) = 1 => NewSecond(root, p, w) = w
    BY DEF NewSecond
  <2>5. q = p <=> Len(p) = 1 /\ q[1] = p[1]
    BY <1>0, <2>1, PlaceEquality
  <2>6. Map!Within(p, q) \/ Map!Within(q, p) <=> q[1] = p[1]
    BY <1>0, <2>1, Prefix
  <2> QED
    BY <1>0, <2>1, <2>2, <2>3, <2>4, <2>5, <2>6 DEF ScalarAt
<1>3. CASE Steps2(q)
  <2>1. Lookup(new, q) = Second(new, q) /\ Lookup(root, q) = Second(root, q) /\ Len(q) = 2
    BY <1>3, LookupCases
  <2>2. Second(new, q) = IF q[1] # p[1] THEN Second(root, q)
              ELSE IF Len(p) = 1 THEN Child(w, "array", q[2])
              ELSE IF q[2] # p[2] THEN Second(root, q)
              ELSE IF Len(p) = 3 THEN SetChild(Second(root, p), "object", p[3], w)
              ELSE w
    BY <1>0, SecondAfter
  <2>3. SetChild(Second(root, p), "object", p[3], w).type \notin Scalars
    BY ContainerIsNoScalar
  <2>4. q = p <=> Len(p) = 2 /\ q[1] = p[1] /\ q[2] = p[2]
    BY <1>0, <2>1, PlaceEquality
  <2>5. Map!Within(p, q) \/ Map!Within(q, p) <=>
           q[1] = p[1] /\ (Len(p) = 1 \/ q[2] = p[2])
    BY <1>0, <2>1, Prefix
  <2> QED
    BY <1>0, <1>1, <2>1, <2>2, <2>3, <2>4, <2>5 DEF ScalarAt
<1>4. CASE Steps3(q)
  <2>1. Lookup(new, q) = Third(new, q) /\ Lookup(root, q) = Third(root, q) /\ Len(q) = 3
    BY <1>4, LookupCases
  <2>2. Third(new, q) = IF q[1] # p[1] THEN Third(root, q)
              ELSE IF Len(p) = 1 THEN Child(Child(w, "array", q[2]), "object", q[3])
              ELSE IF q[2] # p[2] THEN Third(root, q)
              ELSE IF Len(p) = 2 THEN Child(w, "object", q[3])
              ELSE IF q[3] = p[3] THEN w ELSE Third(root, q)
    BY <1>0, ThirdAfter
  <2>3. q = p <=> Len(p) = 3 /\ q[1] = p[1] /\ q[2] = p[2] /\ q[3] = p[3]
    BY <1>0, <2>1, PlaceEquality
  <2>4. Map!Within(p, q) \/ Map!Within(q, p) <=>
           /\ q[1] = p[1] /\ (Len(p) = 1 \/ q[2] = p[2])
           /\ Len(p) = 3 => q[3] = p[3]
    BY <1>0, <2>1, Prefix
  <2> QED
    BY <1>0, <1>1, <2>1, <2>2, <2>3, <2>4 DEF ScalarAt
<1> QED
  BY <1>2, <1>3, <1>4, PlaceShapes

\* An assignment of what is there leaves all places, although operator[] makes
\* the values and arrays on the way.
LEMMA ReadIsStutter ==
    ASSUME NEW root, NEW p \in Places, Reachable(root, p), NEW q \in Places,
           NEW w, w = Lookup(root, p)
    PROVE  ScalarAt(Assign(root, p, w), q) = ScalarAt(root, q)
<1> DEFINE new == Assign(root, p, w)
<1>0. Len(p) \in {1, 2, 3}
  BY LookupCases, PlaceShapes
<1>1. \A v, t, c, u : t \in {"array", "object"} => SetChild(v, t, c, u).type \notin Scalars
  BY ContainerIsNoScalar
<1>2. /\ Len(p) = 1 => w = First(root, p)
      /\ Len(p) = 2 => w = Second(root, p)
      /\ Len(p) = 3 => w = Third(root, p)
  BY DEF Lookup
<1>3. /\ Len(p) >= 2 => First(root, p).type \notin Scalars
      /\ Len(p) = 3 => Second(root, p).type \notin Scalars
  BY DEF Reachable, Scalars
<1>4. CASE Steps1(q)
  <2>1. Lookup(new, q) = First(new, q) /\ Lookup(root, q) = First(root, q)
    BY <1>4, LookupCases
  <2>2. First(new, q) = IF q[1] = p[1] THEN NewSecond(root, p, w) ELSE First(root, q)
    BY <1>0, FirstAfter
  <2>3. q[1] = p[1] => First(root, q) = First(root, p)
    BY DEF First
  <2>4. Len(p) = 1 => NewSecond(root, p, w) = First(root, p)
    BY <1>2 DEF NewSecond
  <2>5. Len(p) # 1 => NewSecond(root, p, w).type \notin Scalars
    BY <1>1 DEF NewSecond
  <2> QED
    BY <1>0, <1>3, <2>1, <2>2, <2>3, <2>4, <2>5 DEF ScalarAt
<1>5. CASE Steps2(q)
  <2>1. Lookup(new, q) = Second(new, q) /\ Lookup(root, q) = Second(root, q)
    BY <1>5, LookupCases
  <2>2. Second(new, q) = IF q[1] # p[1] THEN Second(root, q)
              ELSE IF Len(p) = 1 THEN Child(w, "array", q[2])
              ELSE IF q[2] # p[2] THEN Second(root, q)
              ELSE IF Len(p) = 3 THEN SetChild(Second(root, p), "object", p[3], w)
              ELSE w
    BY <1>0, SecondAfter
  <2>3. q[1] = p[1] => Second(root, q) = Child(First(root, p), "array", q[2])
    BY DEF Second, First
  <2>4. q[1] = p[1] /\ q[2] = p[2] => Second(root, q) = Second(root, p)
    BY DEF Second, First
  <2>5. SetChild(Second(root, p), "object", p[3], w).type \notin Scalars
    BY <1>1
  <2> QED
    BY <1>0, <1>2, <1>3, <2>1, <2>2, <2>3, <2>4, <2>5 DEF ScalarAt
<1>6. CASE Steps3(q)
  <2>1. Lookup(new, q) = Third(new, q) /\ Lookup(root, q) = Third(root, q)
    BY <1>6, LookupCases
  <2>2. Third(new, q) = IF q[1] # p[1] THEN Third(root, q)
              ELSE IF Len(p) = 1 THEN Child(Child(w, "array", q[2]), "object", q[3])
              ELSE IF q[2] # p[2] THEN Third(root, q)
              ELSE IF Len(p) = 2 THEN Child(w, "object", q[3])
              ELSE IF q[3] = p[3] THEN w ELSE Third(root, q)
    BY <1>0, ThirdAfter
  <2>3. q[1] = p[1] => Third(root, q) = Child(Child(First(root, p), "array", q[2]), "object", q[3])
    BY DEF Third, Second, First
  <2>4. q[1] = p[1] /\ q[2] = p[2] => Third(root, q) = Child(Second(root, p), "object", q[3])
    BY DEF Third, Second, First
  <2>5. q[1] = p[1] /\ q[2] = p[2] /\ q[3] = p[3] => Third(root, q) = Third(root, p)
    BY DEF Third, Second, First
  <2> QED
    BY <1>0, <1>2, <2>1, <2>2, <2>3, <2>4, <2>5 DEF ScalarAt
<1> QED
  BY <1>4, <1>5, <1>6, PlaceShapes

-----------------------------------------------------------------------------
(***************************************************************************)
(* Natives are steps of the map                                            *)
(***************************************************************************)
content == [p \in Places |-> ValueAt(p)]
position == IF m_ArrayMode THEN <<m_ArrayKey, m_ArrayIndex>> ELSE <<>>

LEMMA ContentIs ==
    /\ content = [q \in Places |-> ScalarAt(Message_Data, q)]
    /\ content' = [q \in Places |-> ScalarAt(Message_Data', q)]
BY DEF content, ValueAt, ScalarAt

\* Reads, and the looks that ArraySize, IsChildArray and the cursor take at a key
\* of the top.
LEMMA ReadKeepsContent ==
    ASSUME NEW p \in Places, Access(p, Lookup(Message_Data, p))
    PROVE  content' = content
<1>1. CASE Message_Data' = Message_Data
  BY <1>1, ContentIs
<1>2. CASE Reachable(Message_Data, p)
           /\ Message_Data' = Assign(Message_Data, p, Lookup(Message_Data, p))
  <2>1. \A q \in Places : ScalarAt(Message_Data', q) = ScalarAt(Message_Data, q)
    BY <1>2, ReadIsStutter
  <2> QED
    BY <2>1, ContentIs
<1> QED
  BY <1>1, <1>2 DEF Access

LEMMA TopKeepsContent ==
    ASSUME NEW k \in Keys, Access(<<k>>, ArrayAt(k))
    PROVE  content' = content
<1>1. <<k>> \in Places
  BY DEF Places
<1> QED
  BY <1>1, ReadKeepsContent DEF ArrayAt

LEMMA PairAppend ==
    ASSUME NEW a, NEW i, NEW k
    PROVE  <<a, i>> # <<>> /\ Append(<<a, i>>, k) = <<a, i, k>>
<1> DEFINE S == {a, i, k}
           pair == <<a, i>>
           triple == <<a, i, k>>
<1>1. Len(pair) = 2 /\ Len(<<>>) = 0 /\ pair \in Seq(S) /\ k \in S
  OBVIOUS
<1>2. triple \in Seq(S) /\ Len(triple) = 3
  OBVIOUS
<1>3. /\ Append(pair, k) \in Seq(S) /\ Len(Append(pair, k)) = 3
      /\ \A n \in 1..2 : Append(pair, k)[n] = pair[n]
      /\ Append(pair, k)[3] = k
  BY <1>1, AppendProperties
<1>4. \A n \in 1..3 : Append(pair, k)[n] = triple[n]
  BY <1>3
<1>5. Append(pair, k) = triple
  BY <1>2, <1>3, <1>4, SeqEqual
<1> QED
  BY <1>1, <1>5

\* A key names the same place for KMessage and for the map.
LEMMA SamePlace ==
    ASSUME NEW k \in Keys
    PROVE  Map!Place(k) = PathOf(k)
<1>1. CASE m_ArrayMode
  <2>1. <<m_ArrayKey, m_ArrayIndex>> # <<>>
        /\ Append(<<m_ArrayKey, m_ArrayIndex>>, k) = <<m_ArrayKey, m_ArrayIndex, k>>
    BY PairAppend
  <2> QED
    BY <1>1, <2>1, Zenon DEF Map!Place, PathOf
<1>2. CASE ~m_ArrayMode
  <2>1. Append(<<>>, k) = <<k>>
    OBVIOUS
  <2> QED
    BY <1>2, <2>1, Zenon DEF Map!Place, PathOf
<1> QED
  BY <1>1, <1>2

LEMMA WritePuts ==
    ASSUME TypeOK, NEW k \in Keys, NEW i \in Inputs, Write(k, i)
    PROVE  Map!Put \/ UNCHANGED <<content, position>>
<1> DEFINE p == PathOf(k)
           v == Stored(i)
<1>1. position' = position
  BY DEF Write, cursor, position
<1>2. CASE Message_Data' = Message_Data
  BY <1>1, <1>2, ContentIs
<1>3. CASE Message_Data' = Assign(Message_Data, p, v)
  <2>1. p \in Places /\ v.type \in Scalars /\ v \in StoredValues
    BY PathIsPlace, StoredIsScalar DEF StoredValues
  <2>2. \A q \in Places : ScalarAt(Message_Data', q) =
              IF q = p THEN v
              ELSE IF Map!Within(p, q) \/ Map!Within(q, p) THEN Null
              ELSE ScalarAt(Message_Data, q)
    BY <1>3, <2>1, WriteIsPut
  <2>3. content' = [q \in Places |->
              IF q = p THEN v
              ELSE IF Map!Within(p, q) \/ Map!Within(q, p) THEN Null
              ELSE content[q]]
    BY <2>2, ContentIs
  <2>4. Map!Place(k) = p
    BY SamePlace
  <2>5. Map!Places = Places
    BY DEF Map!Places, Places
  <2> QED
    BY <1>1, <2>1, <2>3, <2>4, <2>5 DEF Map!Put, content, position
<1> QED
  BY <1>2, <1>3 DEF Write, Access

LEMMA NativeIsMapStep ==
    ASSUME TypeOK, TypeOK', [Next]_vars
    PROVE  Map!Next \/ UNCHANGED <<content, position>>
<1>0. m_ArrayIndex' \in 0..(Width - 1) /\ m_ArrayIndex \in 0..(Width - 1)
  BY DEF TypeOK
<1>1. ASSUME NEW k \in Keys, NEW i \in Inputs, Write(k, i)
      PROVE  Map!Next \/ UNCHANGED <<content, position>>
  BY <1>1, WritePuts DEF Map!Next
<1>2. ASSUME NEW k \in Keys, NEW kind \in Kinds, Read(kind, k)
      PROVE  UNCHANGED <<content, position>>
  <2>1. position' = position
    BY <1>2 DEF Read, cursor, position
  <2>2. CASE Message_Data' = Message_Data
    BY <2>1, <2>2, ContentIs
  <2>3. CASE Access(PathOf(k), Lookup(Message_Data, PathOf(k)))
    BY <2>1, <2>3, PathIsPlace, ReadKeepsContent
  <2> QED
    BY <1>2, <2>2, <2>3 DEF Read
<1>3. ASSUME NEW k \in Keys, Inspect(k)
      PROVE  UNCHANGED <<content, position>>
  BY <1>3, TopKeepsContent DEF Inspect, cursor, position
<1>4. ASSUME NEW k \in Keys, BeginArray(k), content' = content
      PROVE  Map!Next
  <2>1. Cut[k] \in Keys
    BY Constants
  <2>2. position' = <<Cut[k], 0>>
    BY <1>4 DEF BeginArray, position
  <2> QED
    BY <1>4, <2>1, <2>2 DEF Map!Next, Map!Move, position, content
<1>5. ASSUME NEW k \in Keys, WriteArrayBegin(k)
      PROVE  Map!Next
  BY <1>4, <1>5, ContentIs DEF WriteArrayBegin
<1>6. ASSUME NEW k \in Keys, ReadArrayBegin(k)
      PROVE  Map!Next \/ UNCHANGED <<content, position>>
  <2>1. content' = content
    BY <1>6, TopKeepsContent DEF ReadArrayBegin
  <2> QED
    BY <1>4, <1>6, <2>1 DEF ReadArrayBegin, cursor, position
<1>7. ASSUME content' = content, m_ArrayMode' = m_ArrayMode, m_ArrayKey' = m_ArrayKey
      PROVE  Map!Next \/ UNCHANGED <<content, position>>
  <2>1. CASE ~m_ArrayMode
    BY <1>7, <2>1 DEF position
  <2>2. CASE m_ArrayMode
    <3>1. position = <<m_ArrayKey, m_ArrayIndex>> /\ position' = <<m_ArrayKey, m_ArrayIndex'>>
      BY <1>7, <2>2 DEF position
    <3>2. position # <<>> /\ position' = <<position[1], m_ArrayIndex'>>
      BY <3>1
    <3> QED
      BY <1>0, <1>7, <3>2 DEF Map!Next, Map!Move, position, content
  <2> QED
    BY <2>1, <2>2
<1>8. CASE ReadArrayNext
  <2>1. m_ArrayKey \in Keys
    BY DEF TypeOK
  <2>2. content' = content
    BY <1>8, <2>1, TopKeepsContent DEF ReadArrayNext
  <2> QED
    BY <1>7, <1>8, <2>2 DEF ReadArrayNext
<1>9. CASE ArrayEnd
  <2>1. content' = content /\ position' = <<>>
    BY <1>9, ContentIs DEF ArrayEnd, position
  <2> QED
    BY <2>1 DEF Map!Next, Map!Move, position, content
<1>10. ASSUME NEW i \in Jumps, SetArrayIndex(i)
       PROVE  Map!Next \/ UNCHANGED <<content, position>>
  BY <1>7, <1>10, ContentIs DEF SetArrayIndex
<1>11. CASE UNCHANGED vars
  BY <1>11, ContentIs DEF vars, cursor, position
<1> QED
  BY <1>1, <1>2, <1>3, <1>5, <1>6, <1>8, <1>9, <1>10, <1>11 DEF Next

\* The natives of one message (natives.cpp, message.h) implement a map from
\* places to scalars, whatever the order in which plugins read, write and move
\* the cursor, until JsonCpp throws.
THEOREM MessageIsMap == Spec => ImplementsMap
<1>1. TypeOK /\ TypeOK' /\ [Next]_vars =>
         [Map!Next]_<<[p \in Places |-> ValueAt(p)],
                      IF m_ArrayMode THEN <<m_ArrayKey, m_ArrayIndex>> ELSE <<>>>>
  <2> SUFFICES ASSUME TypeOK, TypeOK', [Next]_vars
               PROVE  [Map!Next]_<<[p \in Places |-> ValueAt(p)],
                                   IF m_ArrayMode THEN <<m_ArrayKey, m_ArrayIndex>> ELSE <<>>>>
    OBVIOUS
  <2>1. Map!Next \/ UNCHANGED <<content, position>>
    BY NativeIsMapStep
  <2> QED
    BY <2>1 DEF content, position
<1> QED
  BY <1>1, TypeCorrect, PTL DEF Spec, ImplementsMap, Map!Spec

-----------------------------------------------------------------------------
(***************************************************************************)
(* What was written is what is read                                        *)
(***************************************************************************)
\* The conversion to int16 leaves what is one.
LEMMA ShortIsShort ==
    ASSUME NEW n \in Int
    PROVE  /\ ToShort(n) \in -(MaxShort + 1)..MaxShort
           /\ ToShort(ToShort(n)) = ToShort(n)
<1> DEFINE M == 2 * (MaxShort + 1)
           r == (n + MaxShort + 1) % M
<1>1. M \in Nat \ {0} /\ MaxShort \in Nat
  BY CellsOK
<1>2. n + MaxShort + 1 \in Int
  BY <1>1
<1> HIDE DEF M
<1>3. r \in 0..(M - 1)
  BY <1>1, <1>2
<1>4. r % M = r
  BY <1>1, <1>3
<1> HIDE DEF r
<1>5. ToShort(n) = r - (MaxShort + 1)
  BY DEF ToShort, r, M
<1>6. ToShort(n) + MaxShort + 1 = r
  BY <1>1, <1>3, <1>5
<1>7. ToShort(ToShort(n)) = (r % M) - (MaxShort + 1)
  BY <1>6 DEF ToShort, M
<1> QED
  BY <1>1, <1>3, <1>4, <1>5, <1>7 DEF M

\* Each kind of native converts what it stored, and to itself.
LEMMA StoredConverts ==
    ASSUME NEW i \in Inputs
    PROVE  Converts(i.kind, Stored(i)) /\ Returned(i.kind, Stored(i)) = Stored(i)
<1> USE DEF Converts, Returned, Scalar
<1>1. i.n \in Int /\ i.kind \in {"Bool", "Short", "Int32", "Int64", "Float", "String"}
  BY MessageOK
<1>2. CASE i.kind = "Bool"
  <2>1. Stored(i) = Scalar("bool", IF i.n = 0 THEN 0 ELSE 1, "plain")
    BY <1>2 DEF Stored
  <2> QED
    BY <1>2, <2>1 DEF AsBoolOK, AsBool, Null
<1>3. CASE i.kind = "Short"
  <2>1. Stored(i) = Scalar("int", ToShort(i.n), "plain")
    BY <1>3 DEF Stored
  <2>2. InInt32(ToShort(i.n)) /\ ToShort(ToShort(i.n)) = ToShort(i.n)
    BY <1>1, ShortIsShort, CellsOK DEF InInt32
  <2> QED
    BY <1>3, <2>1, <2>2 DEF AsIntOK, AsBoolOK, IsNumeric, Number
<1>4. CASE i.kind = "Int32"
  <2>1. Stored(i) = Scalar("int", i.n, "plain")
    BY <1>4 DEF Stored
  <2> QED
    BY <1>4, <2>1, CellsOK DEF AsIntOK, AsBoolOK, IsNumeric, Number
<1>5. CASE i.kind = "Int64"
  <2>1. Stored(i) = Scalar("int", i.n, "plain")
    BY <1>5 DEF Stored
  <2> QED
    BY <1>5, <2>1 DEF IsInt64, Number
<1>6. CASE i.kind = "Float"
  <2>1. Stored(i) = Scalar("real", i.n, i.form)
    BY <1>6 DEF Stored
  <2> QED
    BY <1>6, <2>1 DEF AsBoolOK, IsNumeric, Number
<1>7. CASE i.kind = "String"
  <2>1. Stored(i) = Scalar("string", i.n, i.form)
    BY <1>7 DEF Stored
  <2> QED
    BY <1>7, <2>1 DEF AsStringOK, AsString
<1> QED
  BY <1>1, <1>2, <1>3, <1>4, <1>5, <1>6, <1>7

\* operator[] finds what is there: the values above a scalar have the types it needs.
LEMMA ScalarIsReachable ==
    ASSUME NEW root, NEW p \in Places, Lookup(root, p).type \in Scalars
    PROVE  Reachable(root, p)
<1>1. Null.type \notin Scalars
  BY DEF Null, Scalars
<1>2. \A v, t, c : Child(v, t, c) # Null => v.type = t
  BY DEF Child, Has
<1>3. CASE Steps1(p)
  <2>1. First(root, p) # Null /\ Len(p) = 1
    BY <1>1, <1>3, LookupCases
  <2>2. root.type = "object"
    BY <1>2, <2>1 DEF First
  <2> QED
    BY <2>1, <2>2 DEF Reachable
<1>4. CASE Steps2(p)
  <2>1. Second(root, p) # Null /\ Len(p) = 2
    BY <1>1, <1>4, LookupCases
  <2>2. First(root, p).type = "array"
    BY <1>2, <2>1 DEF Second
  <2>3. First(root, p) # Null
    BY <2>2 DEF Null
  <2> QED
    BY <1>2, <2>1, <2>2, <2>3 DEF Reachable, First
<1>5. CASE Steps3(p)
  <2>1. Third(root, p) # Null /\ Len(p) = 3
    BY <1>1, <1>5, LookupCases
  <2>2. Second(root, p).type = "object"
    BY <1>2, <2>1 DEF Third
  <2>3. First(root, p).type = "array"
    BY <1>2, <2>2 DEF Second, Null
  <2>4. root.type = "object"
    BY <1>2, <2>3 DEF First, Null
  <2> QED
    BY <2>1, <2>2, <2>3, <2>4 DEF Reachable
<1> QED
  BY <1>3, <1>4, <1>5, PlaceShapes

LEMMA ReadReturnsStored ==
    ASSUME TypeOK, ~crashed, NEW k \in Keys, NEW i \in Inputs,
           Read(i.kind, k), ValueAt(PathOf(k)) = Stored(i)
    PROVE  ~crashed' /\ ret' = Stored(i)
<1> DEFINE p == PathOf(k)
<1>1. Lookup(Message_Data, p) = Stored(i) /\ Stored(i).type \in Scalars
  BY StoredIsScalar DEF ValueAt, Null, Scalars
<1>2. Reachable(Message_Data, p)
  BY <1>1, PathIsPlace, ScalarIsReachable
<1>3. Converts(i.kind, Lookup(Message_Data, p))
      /\ Returned(i.kind, Lookup(Message_Data, p)) = Stored(i)
  BY <1>1, StoredConverts
<1> QED
  BY <1>2, <1>3 DEF Read, Access

\* What a WriteX stored, the ReadX of the same kind finds and returns without an
\* exception (message.h), wherever the cursor is, for all cells and int16 values.
THEOREM WritesAreReadBack == Spec => ReadsBackWrites
<1> DEFINE ReadsBack ==
        \A k \in Keys, i \in Inputs :
          Read(i.kind, k) /\ ValueAt(PathOf(k)) = Stored(i)
          => ~crashed' /\ ret' = Stored(i)
<1>1. TypeOK /\ [Next]_vars => [ReadsBack]_vars
  <2> SUFFICES ASSUME TypeOK, Next PROVE ReadsBack
    OBVIOUS
  <2>1. ~crashed
    BY DEF Next
  <2> QED
    BY <2>1, ReadReturnsStored
<1>2. Spec => [][ReadsBack]_vars
  BY <1>1, TypeCorrect, PTL DEF Spec
<1> QED
  BY <1>2 DEF ReadsBackWrites

=============================================================================
