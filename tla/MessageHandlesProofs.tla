------------------------ MODULE MessageHandlesProofs ------------------------
(***************************************************************************)
(* Theorems about MessageHandles, for any plugins and any number of        *)
(* messages.                                                               *)
(***************************************************************************)
EXTENDS MessageHandles, TLAPS

\* An object without a handle never gets one.
IInv ==
    /\ TypeOK /\ NoUseAfterFree /\ OnlyFailedHandlesLeak /\ ReceivedIsTransient
    /\ lost \cap Held = {}

-----------------------------------------------------------------------------
(***************************************************************************)
(* The handle table                                                        *)
(***************************************************************************)
LEMMA AfterAdd ==
    ASSUME IInv, made' = made + 1, NEW o, NEW owner, AddHandle(o, owner)
    PROVE  /\ DOMAIN handles' = Live \cup {made'}
           /\ Held' = Held \cup {o}
           /\ made' \notin Live
           /\ handles'[made'] = [object |-> o, owner |-> owner]
           /\ \A h \in Live : handles'[h] = handles[h]
<1>1. made \in Nat /\ Live \subseteq 1..made
  BY DEF IInv, TypeOK
<1>2. made + 1 \notin Live
  BY <1>1
<1>3. /\ DOMAIN handles' = Live \cup {made + 1}
      /\ handles'[made + 1] = [object |-> o, owner |-> owner]
      /\ \A h \in Live : handles'[h] = handles[h]
  BY <1>2 DEF AddHandle, Holding
<1> QED
  BY <1>2, <1>3 DEF Held, ObjectOf, Live

\* Freed handles take with them the objects that no other handle holds.
LEMMA AfterFree ==
    ASSUME IInv, NEW gone, handles' = Restrict(handles, Live \ gone), objects' = Remaining(gone)
    PROVE  /\ DOMAIN handles' = Live \ gone
           /\ \A h \in Live \ gone : handles'[h] = handles[h]
           /\ Held' \subseteq Held
           /\ objects' = Held' \cup lost
<1>1. DOMAIN handles' = Live \ gone /\ \A h \in Live \ gone : handles'[h] = handles[h]
  BY DEF Restrict, Live
<1>2. Held' = HeldWithout(gone)
  BY <1>1 DEF Held, HeldWithout, ObjectOf, Live
<1>3. HeldWithout(gone) \subseteq Held
  BY DEF Held, HeldWithout
<1>4. objects' = HeldWithout(gone) \cup lost
  BY <1>3 DEF IInv, OnlyFailedHandlesLeak, Remaining
<1> QED
  BY <1>1, <1>2, <1>3, <1>4

LEMMA FreeKeepsIInv ==
    ASSUME IInv, NEW gone, handles' = Restrict(handles, Live \ gone), objects' = Remaining(gone),
           UNCHANGED <<made, lost, badUse>>, by' \in Plugins \cup {NoPlugin},
           \/ UNCHANGED <<frame, handle>>
           \/ handle \notin Live \ gone /\ frame' = "out" /\ handle' = 0
    PROVE  IInv'
<1>1. /\ DOMAIN handles' = Live \ gone
      /\ \A h \in Live \ gone : handles'[h] = handles[h]
      /\ Held' \subseteq Held /\ objects' = Held' \cup lost
  BY AfterFree
<1>2. made \in Nat /\ 0 \in 0..made
  BY DEF IInv, TypeOK
<1>3. TypeOK'
  BY <1>1, <1>2 DEF IInv, TypeOK, Live, OnlyFailedHandlesLeak
<1>4. ReceivedIsTransient'
  BY <1>1 DEF IInv, ReceivedIsTransient, Live
<1> QED
  BY <1>1, <1>3, <1>4 DEF IInv, NoUseAfterFree, OnlyFailedHandlesLeak

LEMMA NewKeepsIInv ==
    ASSUME IInv, NEW owner \in Plugins \cup {NoPlugin}, NEW fails \in BOOLEAN,
           NewMessage(owner, fails), UNCHANGED badUse, by' \in Plugins \cup {NoPlugin},
           \/ owner # NoPlugin /\ UNCHANGED <<frame, handle>>
           \/ /\ owner = NoPlugin /\ frame = "out" /\ frame' = "callback"
              /\ handle' = IF fails THEN 0 ELSE made'
    PROVE  IInv'
<1>1. /\ made \in Nat /\ made' = made + 1 /\ made' \in 0..MaxMade
      /\ 1..made \subseteq 1..made' /\ 0..made \subseteq 0..made' /\ made' \in 1..made'
      /\ made' \notin 1..made /\ 0 \in 0..made'
  BY HandlesOK DEF IInv, TypeOK, NewMessage
<1>2. objects' = objects \cup {made'}
  BY DEF NewMessage
<1>3. Live \subseteq 1..made /\ Held \subseteq 1..made /\ lost \subseteq 1..made
      /\ \A h \in Live : handles[h] \in [object : 1..made, owner : Plugins \cup {NoPlugin}]
  BY DEF IInv, TypeOK, NoUseAfterFree
<1>4. CASE fails
  <2>1. UNCHANGED handles /\ lost' = lost \cup {made'}
    BY <1>4 DEF NewMessage
  <2>2. Held' = Held /\ DOMAIN handles' = Live
    BY <2>1 DEF Held, ObjectOf, Live
  <2>3. TypeOK'
    BY <1>1, <1>2, <1>3, <1>4, <2>1, <2>2 DEF IInv, TypeOK, Live
  <2>4. ReceivedIsTransient'
    BY <2>1 DEF IInv, ReceivedIsTransient, Live
  <2> QED
    BY <1>1, <1>2, <1>3, <2>1, <2>2, <2>3, <2>4 DEF IInv, NoUseAfterFree, OnlyFailedHandlesLeak
<1>5. CASE ~fails
  <2>1. AddHandle(made', owner) /\ lost' = lost
    BY <1>5 DEF NewMessage
  <2>2. /\ DOMAIN handles' = Live \cup {made'} /\ Held' = Held \cup {made'}
        /\ handles'[made'] = [object |-> made', owner |-> owner]
        /\ \A h \in Live : handles'[h] = handles[h]
    BY <1>1, <2>1, AfterAdd
  <2>3. TypeOK'
    <3>1. \A h \in DOMAIN handles' :
             handles'[h] \in [object : 1..made', owner : Plugins \cup {NoPlugin}]
      <4>1. ASSUME NEW h \in Live
            PROVE  handles'[h] \in [object : 1..made', owner : Plugins \cup {NoPlugin}]
        <5>1. handles'[h] = handles[h]
          BY <2>2
        <5>2. handles[h] \in [object : 1..made, owner : Plugins \cup {NoPlugin}]
          BY <1>3
        <5> QED
          BY <1>1, <5>1, <5>2
      <4>2. handles'[made'] \in [object : 1..made', owner : Plugins \cup {NoPlugin}]
        BY <1>1, <2>2
      <4> QED
        BY <2>2, <4>1, <4>2
    <3>2. handle' \in 0..made' /\ frame' \in {"out", "callback"}
      <4>1. handle \in 0..made /\ frame \in {"out", "callback"} /\ made' \in 0..made'
        BY <1>1 DEF IInv, TypeOK
      <4> QED
        BY <1>1, <4>1
    <3> QED
      BY <1>1, <1>2, <1>3, <1>5, <2>1, <2>2, <3>1, <3>2 DEF IInv, TypeOK, Live
  <2>4. ReceivedIsTransient'
    BY <1>5, <2>2 DEF IInv, ReceivedIsTransient, Live
  <2> QED
    BY <1>1, <1>2, <1>3, <2>1, <2>2, <2>3, <2>4 DEF IInv, NoUseAfterFree, OnlyFailedHandlesLeak
<1> QED
  BY <1>4, <1>5

-----------------------------------------------------------------------------
(***************************************************************************)
(* Theorems                                                                *)
(***************************************************************************)
LEMMA InitIInv == Init => IInv
<1> SUFFICES ASSUME Init PROVE IInv
  OBVIOUS
<1>1. Live = {} /\ Held = {}
  BY DEF Init, Live, Held
<1>2. badUse = FALSE /\ made = 0 /\ handle = 0 /\ 0 \in 0..MaxMade /\ 0 \in 0..0
  BY HandlesOK DEF Init
<1>3. TypeOK
  BY <1>1, <1>2 DEF Init, TypeOK
<1> QED
  BY <1>1, <1>2, <1>3 DEF Init, IInv, NoUseAfterFree, OnlyFailedHandlesLeak, ReceivedIsTransient

\* What a live handle refers to is in memory.
LEMMA NoBadUse ==
    ASSUME IInv, NEW h \in Live, badUse' = (badUse \/ ObjectOf(h) \notin objects)
    PROVE  badUse' = badUse
<1>1. ObjectOf(h) \in objects
  BY DEF IInv, NoUseAfterFree, Held
<1>2. badUse = FALSE
  BY DEF IInv, NoUseAfterFree, TypeOK
<1> QED
  BY <1>1, <1>2

LEMMA StepIInv == IInv /\ [Next]_vars => IInv'
<1> SUFFICES ASSUME IInv, [Next]_vars PROVE IInv'
  OBVIOUS
<1>1. ASSUME NEW p \in Plugins, Native_Message(p) PROVE IInv'
  BY <1>1, NewKeepsIInv, HandlesOK DEF Native_Message
<1>2. ASSUME NEW p \in Plugins, PluginUnload(p) PROVE IInv'
  BY <1>2, FreeKeepsIInv DEF PluginUnload, FreeHandles
<1>3. ASSUME NEW p \in Plugins, NEW h \in Live, NEW destroy \in BOOLEAN,
             Native_Send(p, h, destroy)
      PROVE  IInv'
  <2>1. badUse' = badUse
    BY <1>3, NoBadUse DEF Native_Send, UsedAtJson
  <2>2. CASE FreeHandles({h})
    BY <1>3, <2>1, <2>2, FreeKeepsIInv DEF Native_Send, FreeHandles
  <2>3. CASE UNCHANGED <<handles, objects>>
    BY <1>3, <2>1, <2>3 DEF Native_Send, IInv, TypeOK, NoUseAfterFree,
       OnlyFailedHandlesLeak, ReceivedIsTransient, Held, ObjectOf, Live
  <2> QED
    BY <1>3, <2>2, <2>3 DEF Native_Send
<1>4. ASSUME NEW p \in Plugins, NEW h \in Live, CloseHandle(p, h) PROVE IInv'
  BY <1>4, FreeKeepsIInv DEF CloseHandle, FreeHandles
<1>5. ASSUME NEW p \in Plugins, NEW h \in Live, CloneHandle(p, h) PROVE IInv'
  <2>1. /\ made \in Nat /\ made' = made + 1 /\ made' \in 0..MaxMade
        /\ 1..made \subseteq 1..made' /\ 0..made \subseteq 0..made' /\ made' \in 1..made'
        /\ UNCHANGED <<objects, frame, handle, lost, badUse>> /\ by' \in Plugins \cup {NoPlugin}
    BY <1>5, HandlesOK DEF IInv, TypeOK, CloneHandle
  <2>2. ObjectOf(h) \in Held /\ ObjectOf(h) \in 1..made
    BY DEF Held, IInv, TypeOK, ObjectOf
  <2>3. /\ DOMAIN handles' = Live \cup {made'} /\ Held' = Held \cup {ObjectOf(h)}
        /\ handles'[made'] = [object |-> ObjectOf(h), owner |-> p]
        /\ \A g \in Live : handles'[g] = handles[g]
    BY <1>5, <2>1, AfterAdd DEF CloneHandle
  <2>4. \A g \in Live : handles[g] \in [object : 1..made, owner : Plugins \cup {NoPlugin}]
    BY DEF IInv, TypeOK
  <2>5. \A g \in DOMAIN handles' :
           handles'[g] \in [object : 1..made', owner : Plugins \cup {NoPlugin}]
    BY <2>1, <2>2, <2>3, <2>4
  <2>6. TypeOK'
    BY <2>1, <2>3, <2>5 DEF IInv, TypeOK, Live
  <2>7. ReceivedIsTransient'
    BY <2>1, <2>3, HandlesOK DEF IInv, ReceivedIsTransient, Live
  <2> QED
    BY <2>1, <2>2, <2>3, <2>6, <2>7 DEF IInv, NoUseAfterFree, OnlyFailedHandlesLeak
<1>6. ASSUME NEW h \in Live, Native_Use(h) PROVE IInv'
  <2>1. badUse' = badUse
    BY <1>6, NoBadUse DEF Native_Use
  <2> QED
    BY <1>6, <2>1 DEF Native_Use, IInv, TypeOK, NoUseAfterFree,
       OnlyFailedHandlesLeak, ReceivedIsTransient, Held, ObjectOf, Live
<1>7. CASE HandOver
  <2>1. PICK fails \in BOOLEAN : NewMessage(NoPlugin, fails)
                                 /\ handle' = IF fails THEN 0 ELSE made'
    BY <1>7 DEF HandOver
  <2> QED
    BY <1>7, <2>1, NewKeepsIInv DEF HandOver
<1>8. CASE TakeBack
  <2>1. CASE handle \in Live /\ MayDelete(handle, NoPlugin)
    BY <1>8, <2>1, FreeKeepsIInv DEF TakeBack, FreeReceived
  <2>2. CASE ~(handle \in Live /\ MayDelete(handle, NoPlugin))
    <3>1. UNCHANGED <<handles, objects, made, lost, badUse>> /\ frame' = "out" /\ handle' = 0
          /\ by' = NoPlugin
      BY <1>8, <2>2 DEF TakeBack, FreeReceived
    <3>2. \A h \in Live : handles[h].owner # NoPlugin
      BY <2>2 DEF IInv, ReceivedIsTransient, MayDelete
    <3>3. made \in Nat /\ 0 \in 0..made
      BY DEF IInv, TypeOK
    <3> QED
      BY <3>1, <3>2, <3>3 DEF IInv, TypeOK, NoUseAfterFree, OnlyFailedHandlesLeak,
         ReceivedIsTransient, Held, ObjectOf, Live
  <2> QED
    BY <2>1, <2>2
<1>9. CASE UNCHANGED vars
  BY <1>9 DEF vars, IInv, TypeOK, NoUseAfterFree, OnlyFailedHandlesLeak,
     ReceivedIsTransient, Held, ObjectOf, Live
<1> QED
  BY <1>1, <1>2, <1>3, <1>4, <1>5, <1>6, <1>7, <1>8, <1>9 DEF Next

LEMMA AlwaysIInv == Spec => []IInv
BY InitIInv, StepIInv, PTL DEF Spec

\* Handles and objects stay among the ones that were made.
THEOREM TypeCorrect == Spec => []TypeOK
<1>1. IInv => TypeOK
  BY DEF IInv
<1> QED
  BY <1>1, AlwaysIInv, PTL

\* No native touches a deleted message (natives.cpp:85-111).
THEOREM ObjectsOutliveHandles == Spec => []NoUseAfterFree
<1>1. IInv => NoUseAfterFree
  BY DEF IInv
<1> QED
  BY <1>1, AlwaysIInv, PTL

\* Only a failed CreateHandle leaks a message (natives.cpp:60-66, extension.cpp:158).
THEOREM LeaksAreFailedHandles == Spec => []OnlyFailedHandlesLeak
<1>1. IInv => OnlyFailedHandlesLeak
  BY DEF IInv
<1> QED
  BY <1>1, AlwaysIInv, PTL

\* OnGameFrame leaves no handle of its own behind (extension.cpp:158-170).
THEOREM ReceivedMessagesEnd == Spec => []ReceivedIsTransient
<1>1. IInv => ReceivedIsTransient
  BY DEF IInv
<1> QED
  BY <1>1, AlwaysIInv, PTL

LEMMA OwnerActs ==
    ASSUME IInv, Next, NEW g \in Live, g \notin DOMAIN handles', handles[g].owner # NoPlugin
    PROVE  by' = handles[g].owner
<1>1. ASSUME NEW gone, handles' = Restrict(handles, Live \ gone)
      PROVE  g \in gone
  BY <1>1 DEF Restrict, Live
<1>2. ASSUME NEW o, NEW owner, made' = made + 1, AddHandle(o, owner)
      PROVE  FALSE
  BY <1>2, AfterAdd
<1>3. ASSUME UNCHANGED handles PROVE FALSE
  BY <1>3 DEF Live
<1>4. ASSUME NEW owner, NEW fails \in BOOLEAN, NewMessage(owner, fails) PROVE FALSE
  BY <1>2, <1>3, <1>4 DEF NewMessage
<1>5. ASSUME NEW p \in Plugins, Native_Message(p) PROVE FALSE
  BY <1>4, <1>5 DEF Native_Message
<1>6. ASSUME NEW p \in Plugins, PluginUnload(p)
      PROVE  p = handles[g].owner /\ by' = p
  BY <1>1, <1>6 DEF PluginUnload, FreeHandles
<1>7. ASSUME NEW p \in Plugins, NEW h \in Live, NEW destroy \in BOOLEAN,
             Native_Send(p, h, destroy)
      PROVE  by' = handles[g].owner
  <2>1. destroy /\ MaySend(h, p) /\ FreeHandles({h})
    BY <1>3, <1>7 DEF Native_Send
  <2>2. h = g
    BY <1>1, <2>1 DEF FreeHandles
  <2> QED
    BY <1>7, <2>1, <2>2 DEF Native_Send, MaySend, MayDelete
<1>8. ASSUME NEW p \in Plugins, NEW h \in Live, CloseHandle(p, h)
      PROVE  by' = handles[g].owner
  <2>1. h = g
    BY <1>1, <1>8 DEF CloseHandle, FreeHandles
  <2> QED
    BY <1>8, <2>1 DEF CloseHandle, MayDelete
<1>9. ASSUME NEW p \in Plugins, NEW h \in Live, CloneHandle(p, h) PROVE FALSE
  BY <1>2, <1>9 DEF CloneHandle
<1>10. ASSUME NEW h \in Live, Native_Use(h) PROVE FALSE
  BY <1>3, <1>10 DEF Native_Use
<1>11. ASSUME HandOver PROVE FALSE
  BY <1>4, <1>11 DEF HandOver
<1>12. ASSUME TakeBack PROVE FALSE
  <2>1. handle \in Live /\ MayDelete(handle, NoPlugin)
        /\ handles' = Restrict(handles, Live \ {handle})
    BY <1>3, <1>12 DEF TakeBack, FreeReceived
  <2>2. handle = g
    BY <1>1, <2>1
  <2> QED
    BY <2>1, <2>2 DEF MayDelete
<1> QED
  BY <1>5, <1>6, <1>7, <1>8, <1>9, <1>10, <1>11, <1>12 DEF Next

\* No plugin ends another plugin's message (natives.cpp:89, 104).
THEOREM MessagesEndByOwner == Spec => OwnersDecide
<1> DEFINE Decides ==
        \A h \in Live :
          h \notin DOMAIN handles' /\ handles[h].owner # NoPlugin
          => by' = handles[h].owner
<1>1. IInv /\ [Next]_vars => [Decides]_vars
  <2>1. IInv /\ Next => Decides
    BY OwnerActs
  <2> QED
    BY <2>1
<1>2. Spec => [][Decides]_vars
  BY <1>1, AlwaysIInv, PTL DEF Spec
<1> QED
  BY <1>2 DEF OwnersDecide

=============================================================================
