----------------------------- MODULE Extension -----------------------------
(***************************************************************************)
(* The extension as the game sees it (extension.cpp), composed with the    *)
(* websocket client.  SDK_OnLoad makes the thread before it hooks the      *)
(* game's frames; OnGameFrame then acts, one thing per frame, on what the  *)
(* websocket thread left in g_bRequireRestart, g_bSocketConnects and       *)
(* g_tRecvQueue, which both threads use without a lock; SDK_OnUnload       *)
(* unhooks the frames before it shuts the client down.                     *)
(*                                                                         *)
(* OnGameFrame reads the two flags and the queue in separate steps,        *)
(* because the websocket thread runs between them.  A push that falls into *)
(* a pop is undefined behaviour (recvRace).  Plugins run, and may send,    *)
(* inside the forwards.                                                    *)
(***************************************************************************)
EXTENDS WebSocketClient

CONSTANTS
    Parsable,       \* the frames that KMessage's constructor accepts
    Poison,         \* those it throws on: no object, or a type that is no integer
    NoFrame         \* no message is being handed to plugins

ASSUME FramesOK ==
    /\ Parsable \subseteq Frames /\ NoFrame \notin Frames
    /\ Poison \subseteq Frames \ Parsable

VARIABLES
    frame,      \* where the main thread is in SDK_OnLoad, OnGameFrame, SDK_OnUnload
    fmsg,       \* the message OnMessageReceived is called with
    exits,      \* the server was told to exit
    recvRace,   \* was g_tRecvQueue pushed during a pop: no, now or before
    \* History:
    unannounced \* a connection was opened since OnSocketConnected last began

extVars == <<frame, fmsg, exits, recvRace, unannounced>>

FramePc == {"load", "failed", "loading", "out", "restart", "connects", "forward",
            "queue", "pop", "callback", "unhooked"}

\* Plugin code may be running: between frames or inside a forward.
PluginRuns == frame \in {"out", "forward", "callback"}

ExtInit ==
    /\ Init
    /\ frame = "load" /\ fmsg = NoFrame /\ exits = FALSE
    /\ recvRace = "no" /\ unannounced = FALSE

-----------------------------------------------------------------------------
\* SDK_OnLoad as far as CreateThread: it fails if a forward or the thread cannot
\* be made, and nothing of the extension runs then.
StartThread ==
    /\ frame = "load" /\ frame' \in {"loading", "failed"}
    /\ UNCHANGED <<vars, fmsg, exits, recvRace, unannounced>>

\* The end of SDK_OnLoad, after CreateThread: handle type, natives, frame hook.
FinishLoad ==
    /\ frame = "loading" /\ frame' = "out"
    /\ UNCHANGED <<vars, fmsg, exits, recvRace, unannounced>>

IgnoresRestart == FALSE                 \* Mutant: the flag is not looked at.
RestartWanted == g_bRequireRestart

\* OnGameFrame tests g_bRequireRestart first.
BeginFrame ==
    /\ frame = "out" /\ mpc = "idle"
    /\ IF RestartWanted
       THEN frame' = "restart" /\ exits' = TRUE
       ELSE frame' = "connects" /\ UNCHANGED exits
    /\ UNCHANGED <<vars, fmsg, recvRace, unannounced>>

\* The flag is cleared after the command is queued.
ClearRestart ==
    /\ frame = "restart" /\ frame' = "out"
    /\ g_bRequireRestart' = FALSE
    /\ UNCHANGED <<wpc, wsVars, netVars, clientVars, g_bSocketConnects,
                   g_tRecvQueue, mainVars, envVars, fmsg, exits, recvRace,
                   unannounced>>

KeepConnects == UNCHANGED g_bSocketConnects      \* Mutant: never cleared.
ClearConnects == g_bSocketConnects' = FALSE

\* g_bSocketConnects is cleared before OnSocketConnected is executed.
TestConnects ==
    /\ frame = "connects"
    /\ IF g_bSocketConnects
       THEN frame' = "forward" /\ ClearConnects /\ unannounced' = FALSE
       ELSE frame' = "queue" /\ UNCHANGED <<g_bSocketConnects, unannounced>>
    /\ UNCHANGED <<wpc, wsVars, netVars, clientVars, g_bRequireRestart,
                   g_tRecvQueue, mainVars, envVars, fmsg, exits, recvRace>>

ClearAfter == g_bSocketConnects' = FALSE   \* Mutant: cleared after Execute.
ClearNothing == UNCHANGED g_bSocketConnects

\* OnSocketConnected has returned.
ForwardReturns ==
    /\ frame = "forward" /\ frame' = "out" /\ mpc = "idle"
    /\ ClearNothing
    /\ UNCHANGED <<wpc, wsVars, netVars, clientVars, g_bRequireRestart,
                   g_tRecvQueue, mainVars, envVars, fmsg, exits, recvRace,
                   unannounced>>

\* Mutant: success is not tested.
AcceptsAll == TRUE
Accepted == Head(g_tRecvQueue) \in Parsable

FrontKept == g_tRecvQueue                        \* Mutant: front() without pop().
FrontPopped == Tail(g_tRecvQueue)

\* One turn of OnGameFrame's loop begins: is anything there?
TestQueue ==
    /\ frame = "queue"
    /\ frame' = IF g_tRecvQueue = <<>> THEN "out" ELSE "pop"
    /\ UNCHANGED <<vars, fmsg, exits, recvRace, unannounced>>

(***************************************************************************)
(* pop() while the websocket thread pushed: the two updates of the deque's *)
(* size may overwrite each other, so the last frame is cut off, or one     *)
(* more than there are is counted.                                         *)
(***************************************************************************)
TornQueues ==
    LET rest == Tail(g_tRecvQueue)
    IN  {rest} \cup {SubSeq(rest, 1, Len(rest) - 1)}
               \cup {Append(rest, f) : f \in Frames}

\* front() and pop(): a frame that does not parse is dropped and the next is
\* taken; one that parses goes to OnMessageReceived.
PopMessage ==
    /\ frame = "pop" /\ Head(g_tRecvQueue) \notin Poison
    /\ IF recvRace = "now"
       THEN g_tRecvQueue' \in TornQueues /\ recvRace' = "before"
       ELSE g_tRecvQueue' = FrontPopped /\ UNCHANGED recvRace
    /\ IF Accepted
       THEN frame' = "callback" /\ fmsg' = Head(g_tRecvQueue)
       ELSE frame' = "queue" /\ UNCHANGED fmsg
    /\ UNCHANGED <<wpc, wsVars, netVars, clientVars, g_bSocketConnects,
                   g_bRequireRestart, mainVars, envVars, exits, unannounced>>

\* A torn deque may also end the process, and an exception of KMessage's
\* constructor does: nothing catches it.
PopCrashes ==
    /\ frame = "pop"
    /\ recvRace = "now" \/ Head(g_tRecvQueue) \in Poison
    /\ mpc' = "crashed"
    /\ UNCHANGED <<wpc, wsVars, netVars, clientVars, frameVars, mmsg, envVars,
                   extVars>>

\* OnMessageReceived has returned: FreeHandle.
MessageDone ==
    /\ frame = "callback" /\ frame' = "out" /\ mpc = "idle"
    /\ fmsg' = NoFrame
    /\ UNCHANGED <<vars, exits, recvRace, unannounced>>

FrameSteps == BeginFrame \/ ClearRestart \/ TestConnects \/ ForwardReturns
              \/ TestQueue \/ PopMessage \/ PopCrashes \/ MessageDone

-----------------------------------------------------------------------------
(***************************************************************************)
(* The client's steps, as parts of the extension                           *)
(***************************************************************************)
Threaded == frame \notin {"load", "failed"}

ExtThreadStep ==
    /\ Threaded /\ ThreadStep
    /\ unannounced' = (unannounced \/ wpc = "OnOpenHdl")
    /\ UNCHANGED <<frame, fmsg, exits, recvRace>>

ConnectionSteps == Opened \/ Failed \/ CloseFrame \/ Terminated

ExtNetworkStep == ConnectionSteps /\ UNCHANGED extVars

\* PushMessage takes no lock against OnGameFrame's pop().
ExtOnMessage ==
    /\ OnMessage
    /\ recvRace' = IF frame = "pop" THEN "now" ELSE recvRace
    /\ UNCHANGED <<frame, fmsg, exits, unannounced>>

ExtPlugin == PluginRuns /\ Submit /\ UNCHANGED extVars

ExtTimer == frame = "out" /\ OnTimer /\ UNCHANGED extVars

ExtSendSteps == (SendSteps \/ ShutdownSteps) /\ UNCHANGED extVars

\* RemoveGameFrameHook and ReleaseForward, then Shutdown.
ExtUnload ==
    /\ frame = "out" /\ frame' = "unhooked"
    /\ Unload
    /\ UNCHANGED <<fmsg, exits, recvRace, unannounced>>

ExtNext ==
    /\ Alive
    /\ \/ StartThread \/ FinishLoad \/ FrameSteps
       \/ ExtThreadStep \/ ExtNetworkStep \/ ExtOnMessage
       \/ ExtPlugin \/ ExtTimer \/ ExtSendSteps \/ ExtUnload

extAllVars == <<vars, extVars>>

(***************************************************************************)
(* The client's fairness, and the game's: SDK_OnLoad ends, and frames keep *)
(* running.  Strong fairness, because plugins may send again and again but *)
(* every native returns, and the next frame comes.                         *)
(***************************************************************************)
ExtFairness ==
    /\ WF_extAllVars(Alive /\ ExtThreadStep)
    /\ WF_extAllVars(Alive /\ AttemptEnds /\ UNCHANGED extVars)
    /\ WF_extAllVars(Alive /\ CloseEnds /\ UNCHANGED extVars)
    /\ WF_extAllVars(Alive /\ ExtSendSteps)
    /\ WF_extAllVars(Alive /\ (StartThread \/ FinishLoad))
    /\ SF_extAllVars(Alive /\ FrameSteps)

ExtSpec == ExtInit /\ [][ExtNext]_extAllVars /\ ExtFairness

-----------------------------------------------------------------------------
\* Every variable of extension.cpp keeps its type, a message is being handed over
\* exactly in the callback, and what is popped is there.
ExtTypeOK ==
    /\ TypeOK
    /\ frame \in FramePc /\ fmsg \in Parsable \cup {NoFrame}
    /\ exits \in BOOLEAN /\ unannounced \in BOOLEAN
    /\ recvRace \in {"no", "now", "before"}
    /\ frame = "callback" <=> fmsg # NoFrame
    /\ frame = "pop" => g_tRecvQueue # <<>>

\* No connection is forgotten: as long as OnSocketConnected has not begun since
\* a connection was opened, g_bSocketConnects is set (OnGameFrame clears it
\* before the forward; several openings may share one call).
NoConnectionForgotten == unannounced => g_bSocketConnects

\* OnGameFrame and PushMessage together are the mailbox plugins are promised, as
\* long as no push falls into a pop.
IsParsable(f) == f \in Parsable
Plugins == INSTANCE Mailbox WITH
               Arrivals <- Frames, Payloads <- Parsable, None <- NoFrame,
               pending <- g_tRecvQueue, current <- fmsg,
               torn <- recvRace # "no"
MailboxKept == Plugins!Spec

\* In service every received message is handed to plugins, unless a push fell
\* into a pop.
MessagesAreDelivered ==
    IsParsable(IF g_tRecvQueue = <<>> THEN NoFrame ELSE Head(g_tRecvQueue))
        ~> fmsg # NoFrame \/ ~InService \/ recvRace # "no"

\* In service every opened connection is announced by OnSocketConnected, unless
\* frames that do not parse arrive as fast as OnGameFrame's loop drops them: the
\* loop, and with it the game's frame, then does not end.
ConnectionsAreAnnounced ==
    []<>(frame \in {"out", "unhooked"}) =>
        (unannounced ~> ~unannounced \/ ~InService)

\* Once Init gave up, the server is told to exit.
RestartIsCommanded == g_bRequireRestart ~> exits \/ ~InService

\* A message queued while the connection is open leaves m_bQueue if the server
\* goes on sending text frames: only OnMessage and OnOpen push the queue.
QueueFollowsTraffic ==
    []<><<OnMessage>>_vars =>
        \A m \in Messages : m \in m_bQueue ~> m \notin m_bQueue \/ queueRace

=============================================================================
