---------------------------- MODULE MessageTypes ----------------------------
(***************************************************************************)
(* The message types, written down three times: the enum that plugins      *)
(* compile against (kxnrl.message.inc), the enum of the extension, and the *)
(* switch in IsValidType that decides which of them exist.  A type enters  *)
(* by a plugin's constructor (Native_Message) or in a frame of the server  *)
(* (KMessage from JSON).                                                   *)
(***************************************************************************)
EXTENDS Integers

CONSTANT Given      \* the numbers that plugins and the server come up with

Invalid == 0
MaxMessage == 2000

\* enum Message_Type of the extension, without its two bounds.
MessageType ==
    {1, 2} \cup 101..117 \cup {201, 202} \cup 301..307 \cup 401..410
    \cup 501..506 \cup 601..604 \cup {701, 702} \cup 801..804
    \cup {900, 901} \cup 911..913 \cup 921..926 \cup {931, 932, 941}
    \cup 1001..1004 \cup 1101..1106 \cup 1111..1115 \cup 1121..1123
    \cup 1131..1134 \cup 1141..1144 \cup 1151..1154 \cup 1990..1997

\* enum Message_Type of plugins, without FFA's, casual mode's and Acts' types.
PluginMessageType == MessageType \ 1141..1997

Server_PushMapCD == 116
Server_QueryMapCD == 117

\* The cases of IsValidType's switch.
IsValidType(type) == type \in MessageType \ {Server_PushMapCD, Server_QueryMapCD}

VARIABLES
    type,       \* the type last asked for
    answer      \* what became of it

Init == type = Invalid /\ answer = "none"

\* new Message(type): the native's range check, then KMessage(type, success).
Native_Message ==
    /\ type' \in Given
    /\ answer' = IF type' < Invalid \/ type' > MaxMessage THEN "overflow"
                 ELSE IF IsValidType(type') THEN "created" ELSE "undefined"

\* KMessage(json, success), of a frame whose Message_Type is an integer.
Received ==
    /\ type' \in Given
    /\ answer' = IF IsValidType(type') THEN "received" ELSE "dropped"

Next == Native_Message \/ Received

Spec == Init /\ [][Next]_<<type, answer>>

-----------------------------------------------------------------------------
\* Each type that kxnrl.message.inc names for plugins (lines 15-166) can be
\* created by them.
DeclaredTypesAreDefined == answer = "undefined" => type \notin PluginMessageType

=============================================================================
