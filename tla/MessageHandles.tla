--------------------------- MODULE MessageHandles ---------------------------
(***************************************************************************)
(* Who holds a KMessage, and until when: Native_Message and Native_Send    *)
(* (natives.cpp), the message OnGameFrame hands to plugins (extension.cpp) *)
(* and MessageTypeHandler (message.h), over SourceMod's handle system.     *)
(*                                                                         *)
(* All of this runs on the game's main thread, so a native is one step;    *)
(* what is hard is the sequences: several plugins know the handle of a     *)
(* received message, and any of them may read it, send it, close it, clone *)
(* it, keep it for later or be unloaded, inside OnMessageReceived or after.*)
(*                                                                         *)
(* SourceMod's side is external: every plugin may read a Message through   *)
(* the extension's natives; only its owner may delete a handle, or anyone  *)
(* if it has none; an object dies with its last handle; a handle's number  *)
(* is not used again; creation fails when the table of handles is full.    *)
(***************************************************************************)
EXTENDS Naturals, Functions

CONSTANTS
    Plugins,
    NoPlugin,       \* NULL: nobody owns the handle
    MaxMade         \* bound: messages and clones made

ASSUME HandlesOK == NoPlugin \notin Plugins /\ MaxMade \in Nat

VARIABLES
    handles,        \* the object and the owner of each live handle
    objects,        \* the KMessages in memory
    made,           \* handles and objects are numbered as they are made
    frame,          \* OnGameFrame is not running, or is in OnMessageReceived
    handle,         \* OnGameFrame's handle; 0 if CreateHandle failed
    \* History:
    lost,           \* objects that never got a handle
    badUse,         \* a native used an object that was deleted
    by              \* whose call the last step was; NoPlugin: the extension's

vars == <<handles, objects, made, frame, handle, lost, badUse, by>>

Init ==
    /\ handles = [h \in {} |-> 0] /\ objects = {} /\ made = 0
    /\ frame = "out" /\ handle = 0
    /\ lost = {} /\ badUse = FALSE /\ by = NoPlugin

Live == DOMAIN handles
ObjectOf(h) == handles[h].object
Held == {ObjectOf(h) : h \in Live}
HeldWithout(gone) == {ObjectOf(h) : h \in Live \ gone}

-----------------------------------------------------------------------------
(***************************************************************************)
(* SourceMod                                                               *)
(***************************************************************************)
Swapped(o, owner) == [object |-> owner, owner |-> o]  \* Mutant: arguments swapped.
Holding(o, owner) == [object |-> o, owner |-> owner]

AddHandle(o, owner) ==
    handles' = [h \in Live \cup {made + 1} |->
                   IF h = made + 1 THEN Holding(o, owner) ELSE handles[h]]

\* A step of owner, or of the extension (NoPlugin), may delete the handle.
MayDelete(h, who) == handles[h].owner \in {NoPlugin, who}
AnyoneMay(h, who) == TRUE        \* Mutant: Send frees with the rights of the owner.
MaySend(h, who) == MayDelete(h, who)

KeepObject(gone) == objects                   \* Mutant: OnHandleDestroy does nothing.
\* OnHandleDestroy deletes the object with its last handle.
Remaining(gone) == objects \ (Held \ HeldWithout(gone))

FreeHandles(gone) ==
    /\ handles' = Restrict(handles, Live \ gone)
    /\ objects' = Remaining(gone)

-----------------------------------------------------------------------------
(***************************************************************************)
(* Natives                                                                 *)
(***************************************************************************)
\* new KMessage and CreateHandle: the object stays if the handle fails.
NewMessage(owner, fails) ==
    /\ made < MaxMade /\ made' = made + 1
    /\ objects' = objects \cup {made'}
    /\ IF fails
       THEN lost' = lost \cup {made'} /\ UNCHANGED handles
       ELSE AddHandle(made', owner) /\ UNCHANGED lost

Native_Message(p) ==
    /\ \E fails \in BOOLEAN : NewMessage(p, fails)
    /\ by' = p
    /\ UNCHANGED <<frame, handle, badUse>>

\* What every native but Native_Message does first; a handle that is not live is
\* an error of the plugin.
ReadHandle(h) == h \in Live

UsedAfterFree(o) == o \notin objects'      \* Mutant: JsonString after FreeHandle.
UsedAtJson(o) == o \notin objects

\* JsonString, FreeHandle if the plugin wants it, Send (WebSocketClient!Submit).
Native_Send(p, h, destroy) ==
    /\ ReadHandle(h)
    /\ IF destroy /\ MaySend(h, p)
       THEN FreeHandles({h})
       ELSE UNCHANGED <<handles, objects>>
    /\ badUse' = (badUse \/ UsedAtJson(ObjectOf(h)))
    /\ by' = p
    /\ UNCHANGED <<made, frame, handle, lost>>

\* Any other native on a message.
Native_Use(h) ==
    /\ ReadHandle(h)
    /\ badUse' = (badUse \/ ObjectOf(h) \notin objects)
    /\ UNCHANGED <<handles, objects, made, frame, handle, lost, by>>

(***************************************************************************)
(* What plugins may do with any handle                                     *)
(***************************************************************************)
CloseHandle(p, h) ==
    /\ h \in Live /\ MayDelete(h, p)
    /\ FreeHandles({h})
    /\ by' = p
    /\ UNCHANGED <<made, frame, handle, lost, badUse>>

CloneHandle(p, h) ==
    /\ h \in Live /\ made < MaxMade /\ made' = made + 1
    /\ AddHandle(ObjectOf(h), p)
    /\ by' = p
    /\ UNCHANGED <<objects, frame, handle, lost, badUse>>

PluginUnload(p) ==
    /\ frame = "out"
    /\ FreeHandles({h \in Live : handles[h].owner = p})
    /\ by' = p
    /\ UNCHANGED <<made, frame, handle, lost, badUse>>

-----------------------------------------------------------------------------
(***************************************************************************)
(* OnGameFrame                                                             *)
(***************************************************************************)
\* A received message: CreateHandle without a test, then OnMessageReceived.
HandOver ==
    /\ frame = "out" /\ frame' = "callback"
    /\ \E fails \in BOOLEAN :
          /\ NewMessage(NoPlugin, fails)
          /\ handle' = IF fails THEN 0 ELSE made'
    /\ by' = NoPlugin
    /\ UNCHANGED badUse

NotFreed == UNCHANGED <<handles, objects>>        \* Mutant: FreeHandle is missing.
FreeReceived ==
    IF handle \in Live /\ MayDelete(handle, NoPlugin)
    THEN /\ handles' = Restrict(handles, Live \ {handle})
         /\ objects' = Remaining({handle})
    ELSE UNCHANGED <<handles, objects>>

\* FreeHandle; a failure is only logged.
TakeBack ==
    /\ frame = "callback" /\ frame' = "out"
    /\ FreeReceived
    /\ handle' = 0
    /\ by' = NoPlugin
    /\ UNCHANGED <<made, lost, badUse>>

Next ==
    \/ \E p \in Plugins :
          \/ Native_Message(p)
          \/ PluginUnload(p)
          \/ \E h \in Live : \/ \E destroy \in BOOLEAN : Native_Send(p, h, destroy)
                             \/ CloseHandle(p, h)
                             \/ CloneHandle(p, h)
    \/ \E h \in Live : Native_Use(h)
    \/ HandOver
    \/ TakeBack

Spec == Init /\ [][Next]_vars

-----------------------------------------------------------------------------
\* Handles and objects are among the ones that were made.
TypeOK ==
    /\ made \in 0..MaxMade
    /\ Live \subseteq 1..made /\ objects \subseteq 1..made
    /\ \A h \in Live : handles[h] \in [object : 1..made, owner : Plugins \cup {NoPlugin}]
    /\ frame \in {"out", "callback"} /\ handle \in 0..made
    /\ lost \subseteq 1..made /\ badUse \in BOOLEAN /\ by \in Plugins \cup {NoPlugin}

\* No handle outlives its object, and no native uses one that was deleted,
\* whatever plugins do with clones and with the message they were handed.
NoUseAfterFree == ~badUse /\ Held \subseteq objects

\* A message without a handle is one whose handle could not be created: no other
\* path of Native_Message, Native_Send and OnGameFrame loses a message.
OnlyFailedHandlesLeak == objects = Held \cup lost

\* A received message belongs to nobody, and its handle does not outlive
\* OnMessageReceived (OnGameFrame frees it unless a plugin did).
ReceivedIsTransient ==
    \A h \in Live : handles[h].owner = NoPlugin => frame = "callback" /\ h = handle

\* A plugin's message ends by a call of that plugin, or with it: another plugin
\* that knows the handle may send it, but its Send(true) does not free it.
OwnersDecide ==
    [][ \A h \in Live :
          h \notin DOMAIN handles' /\ handles[h].owner # NoPlugin
          => by' = handles[h].owner ]_vars

=============================================================================
