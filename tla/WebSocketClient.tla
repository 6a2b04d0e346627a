-------------------------- MODULE WebSocketClient --------------------------
(***************************************************************************)
(* The websocket client of the extension (websocket.cpp): the thread that  *)
(* keeps one connection to the message server alive, the queue of messages *)
(* that could not be sent, and the heartbeat timer.  Two threads share its *)
(* fields without a lock:                                                  *)
(*                                                                         *)
(*   - the websocket thread runs RunThread -> Init -> Connect ->           *)
(*     m_WebSocket.run(), and every handler of the connection inside run() *)
(*     (wpc is its program counter).  OnFail and OnClose call Init again   *)
(*     from inside the handler, so each reconnection runs in a run()       *)
(*     nested in the previous one: depth counts the handler frames.        *)
(*   - the game's main thread runs the natives (Send), the heartbeat timer *)
(*     (OnTimer) and SDK_OnUnload (Shutdown, WaitForThread): mpc.          *)
(*                                                                         *)
(* Consecutive statements are one step when at most one of them touches    *)
(* state that the other thread reads or writes in the meantime.  OnOpenHdl,*)
(* CreateTimer and KillHeartBeat are the exceptions: two accesses in one   *)
(* step, because no property tells a step of the main thread between them  *)
(* from one before or after both.                                          *)
(* CreateTimer and KillTimer of SourceMod are taken as atomic and safe on  *)
(* any thread.                                                             *)
(*                                                                         *)
(* The catch branch of Connect is not modelled: nothing that connect() or  *)
(* run() calls here throws websocketpp::exception, because OnFail and      *)
(* OnClose hold the connection they look up.                               *)
(***************************************************************************)
EXTENDS Naturals, Sequences

CONSTANTS
    Messages,     \* texts a plugin passes to Message.Send
    Pings,        \* heartbeat texts: each holds the time it was made
    Frames,       \* payloads of the text frames the server sends
    Timers,       \* ITimer objects of SourceMod's timer system
    NoTimer,      \* g_HeartBeat == NULL
    NoMessage,    \* no message in a local variable
    MaxRetries,   \* Init asks for a restart at this retry (50 in the code)
    UrlValid,     \* get_connection accepts g_Socket_Url
    MayUnload,    \* SDK_OnUnload may be called
    MaxCloses,    \* bound: connections lost after they were opened
    MaxRecv       \* bound: frames waiting in g_tRecvQueue

ASSUME ConstantsOK ==
    /\ NoTimer \notin Timers
    /\ NoMessage \notin Messages \cup Pings
    /\ MaxRetries \in Nat \ {0}
    /\ UrlValid \in BOOLEAN
    /\ MayUnload \in BOOLEAN
    /\ MaxCloses \in Nat
    /\ MaxRecv \in Nat

VARIABLES
    wpc,                \* next step of the websocket thread
    depth,              \* handler frames below the current Init
    caller,             \* handler that called PushQueue
    wmsg,               \* PushQueue's iter->first
    con,                \* state of the connection m_Connection_ptr holds
    hdlCurrent,         \* m_Connection_hdl refers to that connection
    io,                 \* the io_service: none, ready or stopped
    m_bConnected,
    m_bConnecting,
    m_bClosing,
    m_Retries,
    m_bQueue,
    g_HeartBeat,
    timers,             \* live timers of the timer system
    g_bSocketConnects,
    g_bRequireRestart,
    g_tRecvQueue,
    mpc,                \* what the main thread is doing
    mmsg,               \* the message the main thread is sending
    \* History, never read by the code's steps:
    owed,               \* messages submitted and not accepted by a send since
    queueRace,          \* m_bQueue was changed by both threads at once
    badKill,            \* KillTimer was called on a timer that is not live
    failures,           \* attempts failed since the last open connection
    closes              \* connections lost after they were opened

wsVars    == <<depth, caller, wmsg>>
netVars   == <<con, hdlCurrent, io>>
flagVars  == <<m_bConnected, m_bConnecting, m_bClosing, m_Retries>>
queueVars == <<m_bQueue, owed, queueRace>>
timerVars == <<g_HeartBeat, timers, badKill>>
frameVars == <<g_bSocketConnects, g_bRequireRestart, g_tRecvQueue>>
mainVars  == <<mpc, mmsg>>
envVars   == <<failures, closes>>
clientVars == <<flagVars, queueVars, timerVars>>
vars == <<wpc, wsVars, netVars, clientVars, frameVars, mainVars, envVars>>

\* What most steps of the websocket thread, and all of the main thread, leave.
elsewhere  == <<queueVars, timerVars, frameVars, mainVars, envVars>>
threadVars == <<wpc, wsVars, con, hdlCurrent, frameVars, envVars>>

Texts == Messages \cup Pings

WsPc == {"RunThread", "GetConnection", "Connect", "Dial", "Run", "Return",
         "OnOpen", "OnOpenHdl", "CreateTimer", "OnFail", "OnClose", "Stop",
         "KillTimer", "Reconnect", "PushQueue", "Resend", "Erase", "Done"}
MainPc == {"idle", "send", "save", "unload", "closing", "disconnect", "stop",
           "wait", "unloaded", "crashed"}

(***************************************************************************)
(* The main thread has not entered SDK_OnUnload and the process is alive.  *)
(***************************************************************************)
InService == mpc \in {"idle", "send", "save"}

\* Shutdown() has not been called yet, or it has returned.
BeforeShutdown == InService \/ mpc = "unload"
AfterShutdown  == mpc \in {"closing", "disconnect", "stop", "wait", "unloaded"}

Init ==
    /\ wpc = "RunThread" /\ depth = 0 /\ caller = "OnOpen" /\ wmsg = NoMessage
    /\ con = "none" /\ hdlCurrent = FALSE /\ io = "none"
    /\ m_bConnected = FALSE /\ m_bConnecting = FALSE /\ m_bClosing = FALSE
    /\ m_Retries = 0
    /\ m_bQueue = {} /\ owed = {} /\ queueRace = FALSE
    /\ g_HeartBeat = NoTimer /\ timers = {} /\ badKill = FALSE
    /\ g_bSocketConnects = FALSE /\ g_bRequireRestart = FALSE
    /\ g_tRecvQueue = <<>>
    /\ mpc = "idle" /\ mmsg = NoMessage
    /\ failures = 0 /\ closes = 0

-----------------------------------------------------------------------------
(***************************************************************************)
(* What the two threads share                                              *)
(***************************************************************************)
Available == m_bConnected /\ ~m_bClosing

\* The websocket thread is in OnOpen.
Opening ==
    \/ wpc \in {"OnOpen", "OnOpenHdl", "CreateTimer"}
    \/ wpc \in {"PushQueue", "Resend", "Erase"} /\ caller = "OnOpen"

\* m_WebSocket.send(m_Connection_hdl, ...) sets no error: an expired handle gives
\* bad_connection, a connection that is not open gives invalid_state.
SendAccepted == hdlCurrent /\ con = "open"

\* The websocket thread holds an iterator into m_bQueue.
Iterating == wpc \in {"Resend", "Erase"}

\* The websocket thread is in OnFail or OnClose, before Init.
Losing == wpc \in {"OnFail", "OnClose", "Stop", "KillTimer", "Reconnect"}

(***************************************************************************)
(* SaveQueue keeps one copy of each text.  When it runs while PushQueue    *)
(* iterates, two threads modify the unordered_map at once: undefined       *)
(* behaviour, after which any of the entries may be gone (or the process,  *)
(* see Save).                                                              *)
(***************************************************************************)
SaveQueue(m) ==
    IF Iterating
    THEN m_bQueue' \in SUBSET (m_bQueue \cup {m}) /\ queueRace' = TRUE
    ELSE m_bQueue' = m_bQueue \cup {m} /\ UNCHANGED queueRace

\* timersys->KillTimer on a timer that exists or existed.  A second kill of the
\* same object does not remove another timer.
KillTimer(t) ==
    /\ timers' = timers \ {t}
    /\ badKill' = (badKill \/ t \notin timers)

-----------------------------------------------------------------------------
(***************************************************************************)
(* The websocket thread: Init and Connect                                  *)
(***************************************************************************)

\* Init(true) initialises the endpoint.
RunThread ==
    /\ wpc = "RunThread" /\ wpc' = "GetConnection"
    /\ io' = "ready"
    /\ UNCHANGED <<wsVars, con, hdlCurrent, flagVars, elsewhere>>

NoRefusal == FALSE            \* Mutant: the error code is not looked at.
Refused == ~UrlValid

GivesUpLate == m_Retries >= MaxRetries    \* Mutant: m_Retries++ >= MaxRetries.
GivesUp == m_Retries' >= MaxRetries

\* The rest of Init: a new connection object, and the retry count.
GetConnection ==
    /\ wpc = "GetConnection"
    /\ IF Refused
       THEN /\ m_bConnecting' = FALSE
            /\ wpc' = "Return"
            /\ UNCHANGED <<con, hdlCurrent, m_Retries, g_bRequireRestart>>
       ELSE /\ con' = "new" /\ hdlCurrent' = FALSE
            /\ m_Retries' = m_Retries + 1
            /\ IF GivesUp
               THEN g_bRequireRestart' = TRUE /\ wpc' = "Return"
               ELSE wpc' = "Connect" /\ UNCHANGED g_bRequireRestart
            /\ UNCHANGED m_bConnecting
    /\ UNCHANGED <<wsVars, io, m_bConnected, m_bClosing, queueVars, timerVars,
                   g_bSocketConnects, g_tRecvQueue, mainVars, envVars>>

Unchecked == "Dial"                          \* Mutant: m_bClosing is not tested.
AfterCheck == IF m_bClosing THEN "Return" ELSE "Dial"

\* Connect looks at m_bClosing, then sleeps (8 s on a reconnection).
Connect ==
    /\ wpc = "Connect" /\ wpc' = AfterCheck
    /\ UNCHANGED <<wsVars, netVars, flagVars, elsewhere>>

\* After the sleep: m_WebSocket.connect() and run().
Dial ==
    /\ wpc = "Dial" /\ wpc' = "Run"
    /\ m_bConnecting' = TRUE
    /\ con' = "connecting"
    /\ UNCHANGED <<wsVars, hdlCurrent, io, m_bConnected, m_bClosing, m_Retries,
                   elsewhere>>

(***************************************************************************)
(* run() returns once the io_service is stopped.  The run() of RunThread   *)
(* also returns, and stops the io_service, when nothing is left to wait    *)
(* for; a nested run() never runs out of work, because the handler it was  *)
(* called from still counts as work.                                       *)
(***************************************************************************)
RunReturns ==
    /\ wpc = "Run" /\ wpc' = "Return"
    /\ \/ io = "stopped"
       \/ depth = 0 /\ con \notin {"connecting", "open", "closing"}
    /\ io' = "stopped"
    /\ UNCHANGED <<wsVars, con, hdlCurrent, flagVars, elsewhere>>

\* Init returns into the handler that called it, and the handler into run().
HandlerReturns ==
    /\ wpc = "Return" /\ wpc' = "Run"
    /\ depth > 0 /\ depth' = depth - 1
    /\ UNCHANGED <<caller, wmsg, netVars, flagVars, elsewhere>>

\* RunThread returns: OnTerminate -> Disconnect.
OnTerminate ==
    /\ wpc = "Return" /\ wpc' = "Done"
    /\ depth = 0
    /\ m_bClosing' = TRUE
    /\ m_bConnected' = FALSE
    /\ io' = "stopped"
    /\ UNCHANGED <<wsVars, con, hdlCurrent, m_bConnecting, m_Retries, elsewhere>>

-----------------------------------------------------------------------------
(***************************************************************************)
(* What the library dispatches inside run() while it is not stopped        *)
(* (websocketpp: an attempt ends in exactly one open or fail handler, an   *)
(* open connection in exactly one close handler)                           *)
(***************************************************************************)
Dispatching == wpc = "Run" /\ io = "ready"

\* A step of the connection that changes only its state and starts a handler.
ConGoes(to, handler) ==
    /\ con' = to
    /\ wpc' = handler
    /\ UNCHANGED <<wsVars, hdlCurrent, io, clientVars, frameVars, mainVars>>

Opened ==
    /\ Dispatching /\ con = "connecting"
    /\ ConGoes("open", "OnOpen")
    /\ failures' = 0 /\ UNCHANGED closes

Failed ==
    /\ Dispatching /\ con = "connecting"
    /\ ConGoes("closed", "OnFail")
    /\ failures' = failures + 1 /\ UNCHANGED closes

\* The server's close frame: sends are refused before the close handler runs.
CloseFrame ==
    /\ Dispatching /\ con = "open" /\ closes < MaxCloses
    /\ ConGoes("closing", "Run")
    /\ UNCHANGED envVars

\* The connection is gone: after a close handshake, or lost without one.
Terminated ==
    /\ Dispatching /\ (con = "closing" \/ (con = "open" /\ closes < MaxCloses))
    /\ ConGoes("closed", "OnClose")
    /\ closes' = closes + 1 /\ UNCHANGED failures

-----------------------------------------------------------------------------
(***************************************************************************)
(* The handlers                                                            *)
(***************************************************************************)

\* Mutant: m_bConnecting stays set while the connection is open.
StillConnecting == m_bConnected' = TRUE /\ UNCHANGED m_bConnecting
NowConnected == m_bConnected' = TRUE /\ m_bConnecting' = FALSE

OnOpen ==
    /\ wpc = "OnOpen" /\ wpc' = "OnOpenHdl"
    /\ m_Retries' = 0
    /\ NowConnected
    /\ UNCHANGED <<wsVars, netVars, m_bClosing, elsewhere>>

\* The main thread may already send while m_Connection_hdl is still the old one.
OnOpenHdl ==
    /\ wpc = "OnOpenHdl" /\ wpc' = "PushQueue"
    /\ hdlCurrent' = TRUE
    /\ g_bSocketConnects' = TRUE
    /\ caller' = "OnOpen"
    /\ UNCHANGED <<depth, wmsg, con, io, clientVars, g_bRequireRestart,
                   g_tRecvQueue, mainVars, envVars>>

\* The end of OnOpen: CreateTimer gives a free timer object.
CreateTimer ==
    /\ wpc = "CreateTimer" /\ wpc' = "Run"
    /\ \E t \in Timers \ timers :
          timers' = timers \cup {t} /\ g_HeartBeat' = t
    /\ UNCHANGED <<wsVars, netVars, flagVars, queueVars, badKill, frameVars,
                   mainVars, envVars>>

OnFail ==
    /\ wpc = "OnFail" /\ wpc' = "Stop"
    /\ m_bConnected' = FALSE
    /\ m_bConnecting' = FALSE
    /\ UNCHANGED <<wsVars, netVars, m_bClosing, m_Retries, elsewhere>>

\* Mutant: the lost connection still counts as connected.
OnCloseConnected ==
    /\ wpc = "OnClose" /\ wpc' = "Stop"
    /\ UNCHANGED <<wsVars, netVars, flagVars, elsewhere>>

OnClose ==
    /\ wpc = "OnClose" /\ wpc' = "Stop"
    /\ m_bConnected' = FALSE
    /\ UNCHANGED <<wsVars, netVars, m_bConnecting, m_bClosing, m_Retries,
                   elsewhere>>

\* The rest of OnFail and OnClose: stop the io_service ...
StopIo ==
    /\ wpc = "Stop" /\ wpc' = "KillTimer"
    /\ io' = "stopped"
    /\ UNCHANGED <<wsVars, con, hdlCurrent, flagVars, elsewhere>>

\* Mutants: the timer is forgotten and not killed, or killed and not forgotten.
ForgetTimer == g_HeartBeat' = NoTimer /\ UNCHANGED <<timers, badKill>>
KillOnly == IF g_HeartBeat = NoTimer
            THEN UNCHANGED timerVars
            ELSE KillTimer(g_HeartBeat) /\ UNCHANGED g_HeartBeat
KillAndForget == IF g_HeartBeat = NoTimer
                 THEN UNCHANGED timerVars
                 ELSE KillTimer(g_HeartBeat) /\ g_HeartBeat' = NoTimer

\* ... kill the heartbeat timer, if there is one ...
KillHeartBeat ==
    /\ wpc = "KillTimer" /\ wpc' = "Reconnect"
    /\ KillAndForget
    /\ UNCHANGED <<wsVars, netVars, flagVars, queueVars, frameVars, mainVars,
                   envVars>>

NoReset == UNCHANGED io                      \* Mutant: Init forgets reset().
Reset == io' = "ready"

\* ... and call Init, which resets the io_service this handler runs in.
Reconnect ==
    /\ wpc = "Reconnect"
    /\ IF m_bConnecting
       THEN wpc' = "Run" /\ UNCHANGED <<depth, io>>
       ELSE wpc' = "GetConnection" /\ depth' = depth + 1 /\ Reset
    /\ UNCHANGED <<caller, wmsg, con, hdlCurrent, flagVars, elsewhere>>

OnlyRun == "Run"                          \* Mutant: the queue is not pushed.
ThenPushQueue == "PushQueue"

\* A text frame: PushMessage, then PushQueue.  Other frames are only logged.
OnMessage ==
    /\ Dispatching /\ con = "open" /\ Len(g_tRecvQueue) < MaxRecv
    /\ \E f \in Frames : g_tRecvQueue' = Append(g_tRecvQueue, f)
    /\ caller' = "OnMessage"
    /\ wpc' = ThenPushQueue
    /\ UNCHANGED <<depth, wmsg, netVars, clientVars, g_bSocketConnects,
                   g_bRequireRestart, mainVars, envVars>>

NoTimerYet == "Run"                 \* Mutant: OnOpen does not create the timer.
AfterPushQueue == IF caller = "OnOpen" THEN "CreateTimer" ELSE "Run"

PushQueue ==
    /\ wpc = "PushQueue"
    /\ wpc' = IF m_bQueue = {} THEN AfterPushQueue ELSE "Resend"
    /\ UNCHANGED <<wsVars, netVars, flagVars, elsewhere>>

(***************************************************************************)
(* One turn of PushQueue's loop: Send(iter->first, true).  A text that is  *)
(* not accepted stays queued and ends the loop.  After a race (see         *)
(* SaveQueue) the iterator may miss entries.                               *)
(***************************************************************************)
Resend ==
    /\ wpc = "Resend"
    /\ \/ /\ m_bQueue = {} \/ queueRace
          /\ wpc' = AfterPushQueue /\ UNCHANGED <<wmsg, owed>>
       \/ \E m \in m_bQueue :
             IF Available /\ SendAccepted
             THEN wmsg' = m /\ owed' = owed \ {m} /\ wpc' = "Erase"
             ELSE wpc' = AfterPushQueue /\ UNCHANGED <<wmsg, owed>>
    /\ UNCHANGED <<depth, caller, netVars, flagVars, m_bQueue, queueRace,
                   timerVars, frameVars, mainVars, envVars>>

\* iter = m_bQueue.erase(iter)
Erase ==
    /\ wpc = "Erase" /\ wpc' = "Resend"
    /\ m_bQueue' = m_bQueue \ {wmsg}
    /\ wmsg' = NoMessage
    /\ UNCHANGED <<depth, caller, netVars, flagVars, owed, queueRace, timerVars,
                   frameVars, mainVars, envVars>>

-----------------------------------------------------------------------------
(***************************************************************************)
(* The main thread                                                         *)
(***************************************************************************)

\* Send(message): Available is read first, the rest happens later.
BeginSend(m) ==
    /\ mpc = "idle" /\ mpc' = IF Available THEN "send" ELSE "save"
    /\ mmsg' = m
    /\ owed' = owed \cup {m}
    /\ UNCHANGED <<threadVars, io, flagVars, m_bQueue, queueRace, timerVars>>

\* Native_Send.
Submit == \E m \in Messages : BeginSend(m)

\* HeartBeatTimer::OnTimer, when nothing was sent for g_Interval.  Every ping
\* differs from the ones made before it, by its time.
OnTimer ==
    /\ timers # {}
    /\ \E p \in Pings \ (m_bQueue \cup owed) : BeginSend(p)

\* Mutant: a message the library refuses is not saved.
DropIt == mpc' = "idle" /\ mmsg' = NoMessage /\ UNCHANGED owed
SaveIt == mpc' = "save" /\ UNCHANGED <<mmsg, owed>>

\* A read of m_Connection_hdl while OnOpen assigns it may see half of it: the
\* process may crash.
SendNow ==
    /\ mpc = "send"
    /\ \/ /\ SendAccepted
          /\ mpc' = "idle" /\ mmsg' = NoMessage /\ owed' = owed \ {mmsg}
       \/ ~SendAccepted /\ SaveIt
       \/ wpc = "OnOpenHdl" /\ mpc' = "crashed" /\ UNCHANGED <<mmsg, owed>>
    /\ UNCHANGED <<threadVars, io, flagVars, m_bQueue, queueRace, timerVars>>

Save ==
    /\ mpc = "save"
    /\ SaveQueue(mmsg)
    /\ mpc' \in IF Iterating THEN {"idle", "crashed"} ELSE {"idle"}
    /\ mmsg' = NoMessage
    /\ UNCHANGED <<threadVars, io, flagVars, owed, timerVars>>

\* SDK_OnUnload, up to its call of Shutdown.
Unload ==
    /\ mpc = "idle" /\ mpc' = "unload"
    /\ MayUnload
    /\ UNCHANGED <<threadVars, io, clientVars, mmsg>>

\* Shutdown() kills g_HeartBeat unguarded: a NULL timer crashes the process.
ShutdownKillTimer ==
    /\ mpc = "unload"
    /\ IF g_HeartBeat = NoTimer
       THEN mpc' = "crashed" /\ badKill' = TRUE /\ UNCHANGED timers
       ELSE mpc' = "closing" /\ KillTimer(g_HeartBeat)
    /\ UNCHANGED <<threadVars, io, flagVars, queueVars, g_HeartBeat, mmsg>>

\* WebSocketClient::Shutdown, in three steps.
ShutdownClosing ==
    /\ mpc = "closing" /\ mpc' = "disconnect"
    /\ m_bClosing' = TRUE
    /\ UNCHANGED <<threadVars, io, m_bConnected, m_bConnecting, m_Retries,
                   queueVars, timerVars, mmsg>>

ShutdownDisconnect ==
    /\ mpc = "disconnect" /\ mpc' = "stop"
    /\ m_bConnected' = FALSE
    /\ UNCHANGED <<threadVars, io, m_bConnecting, m_bClosing, m_Retries,
                   queueVars, timerVars, mmsg>>

ShutdownStop ==
    /\ mpc = "stop" /\ mpc' = "wait"
    /\ io' = "stopped"
    /\ UNCHANGED <<threadVars, clientVars, mmsg>>

\* The end of SDK_OnUnload: WaitForThread returns when the thread has ended.
WaitForThread ==
    /\ mpc = "wait" /\ mpc' = "unloaded"
    /\ wpc = "Done"
    /\ UNCHANGED <<threadVars, io, clientVars, mmsg>>

-----------------------------------------------------------------------------
InitSteps    == RunThread \/ GetConnection \/ Connect \/ Dial
ReturnSteps  == RunReturns \/ HandlerReturns \/ OnTerminate
OpenSteps    == OnOpen \/ OnOpenHdl \/ CreateTimer
LossSteps    == OnFail \/ OnClose \/ StopIo \/ KillHeartBeat \/ Reconnect
QueueSteps   == PushQueue \/ Resend \/ Erase
NetworkSteps == Opened \/ Failed \/ CloseFrame \/ Terminated \/ OnMessage

\* Steps the websocket thread takes by itself.
ThreadStep == InitSteps \/ ReturnSteps \/ OpenSteps \/ LossSteps \/ QueueSteps

\* Steps the main thread takes once it has begun an operation.
SendSteps     == SendNow \/ Save
ShutdownSteps == ShutdownKillTimer \/ ShutdownClosing \/ ShutdownDisconnect
                 \/ ShutdownStop \/ WaitForThread

Alive == mpc # "crashed"

ClientNext ==
    /\ Alive
    /\ \/ ThreadStep \/ NetworkSteps
       \/ Submit \/ OnTimer \/ SendSteps
       \/ Unload \/ ShutdownSteps

(***************************************************************************)
(* Fairness: the operating system schedules both threads, and the library  *)
(* ends every attempt (open handshake timeout, 10 s) and every closing     *)
(* handshake (close handshake timeout, 10 s).  Nothing is assumed about    *)
(* the server: it may never close, never answer and never send.            *)
(***************************************************************************)
AttemptEnds == Opened \/ Failed
CloseEnds   == con = "closing" /\ Terminated

Fairness ==
    /\ WF_vars(Alive /\ ThreadStep)
    /\ WF_vars(Alive /\ AttemptEnds)
    /\ WF_vars(Alive /\ CloseEnds)
    /\ WF_vars(Alive /\ (SendSteps \/ ShutdownSteps))

Spec == Init /\ [][ClientNext]_vars /\ Fairness

-----------------------------------------------------------------------------
(***************************************************************************)
(* Safety                                                                  *)
(***************************************************************************)

ThreadTypeOK ==
    /\ wpc \in WsPc /\ depth \in Nat /\ caller \in {"OnOpen", "OnMessage"}
    /\ wmsg \in Texts \cup {NoMessage}
    /\ con \in {"none", "new", "connecting", "open", "closing", "closed"}
    /\ hdlCurrent \in BOOLEAN /\ io \in {"none", "ready", "stopped"}
    /\ m_Retries \in 0..MaxRetries /\ failures \in Nat /\ closes \in Nat

FlagTypeOK ==
    /\ m_bConnected \in BOOLEAN /\ m_bConnecting \in BOOLEAN
    /\ m_bClosing \in BOOLEAN
    /\ g_bSocketConnects \in BOOLEAN /\ g_bRequireRestart \in BOOLEAN
    /\ queueRace \in BOOLEAN /\ badKill \in BOOLEAN

DataTypeOK ==
    /\ m_bQueue \subseteq Texts /\ owed \subseteq Texts
    /\ g_HeartBeat \in Timers \cup {NoTimer} /\ timers \subseteq Timers
    /\ g_tRecvQueue \in Seq(Frames)
    /\ mpc \in MainPc /\ mmsg \in Texts \cup {NoMessage}
    /\ mpc \in {"send", "save"} => mmsg \in Texts

\* Every variable holds a value its C++ declaration, or its use, allows.
TypeOK == ThreadTypeOK /\ FlagTypeOK /\ DataTypeOK

\* A message given to Send is not lost while the process lives: unless both
\* threads changed m_bQueue at once, every message that no send accepted since
\* it was submitted is in m_bQueue, or is the one the main thread is sending.
\* (Send, SaveQueue and PushQueue, whatever their interleaving.)
NoMessageLost ==
    Alive /\ ~queueRace =>
        owed \ m_bQueue \subseteq (IF mpc \in {"send", "save"} THEN {mmsg} ELSE {})

\* OnOpen, OnFail and OnClose keep at most one timer ticking, the one
\* g_HeartBeat names, and inside run() it ticks exactly while connected.
OneHeartBeat ==
    InService =>
        /\ timers \subseteq {g_HeartBeat}
        /\ wpc = "Run" => (m_bConnected <=> timers # {})

\* Until SDK_OnUnload calls Shutdown, KillTimer is only called on a live timer.
KillsLiveTimersOnly == BeforeShutdown => ~badKill

\* After Shutdown() no timer but the one g_HeartBeat names is alive, and one is
\* only if a connection opened after Shutdown made it: then the close handler has
\* killed the timer that Shutdown had killed.
ShutdownLeavesNoTimer ==
    AfterShutdown => timers \subseteq {g_HeartBeat} /\ (timers # {} => badKill)

\* While m_bConnected is set, sends reach the connection that was opened last,
\* except in OnOpen before it stores the handle and in OnClose before it clears
\* the flag.
ConnectedIsCurrent ==
    m_bConnected /\ wpc \notin {"OnOpenHdl", "OnClose"} =>
        hdlCurrent /\ con \in {"open", "closing"}

\* OnFail and OnClose never skip Init: m_bConnecting is clear when they test it.
ReconnectNotSuppressed == wpc = "Reconnect" => ~m_bConnecting

\* Init asks for a server restart only when MaxRetries - 1 attempts in a row
\* failed since the last open connection, and then no connection is in use.
RestartAfterFailures ==
    g_bRequireRestart => failures = MaxRetries - 1 /\ con = "new"

\* A run() nested in a handler only returns on Shutdown or after Init gave up at
\* the last retry: in service, the stack of handlers grows with each reconnection.
NestingUnwindsAtEndOnly ==
    [][depth' < depth => m_bClosing \/ m_Retries = MaxRetries \/ ~InService]_vars

\* Shutdown() meets no NULL timer while connected, whatever handlers ran before,
\* unless OnOpen is still running: an unload of a connected extension is safe.
UnloadCrashesWhileDownOnly ==
    [][mpc = "unload" /\ mpc' = "crashed" => ~m_bConnected \/ Opening]_vars

\* How far the thread is with the connection.
Phase ==
    CASE wpc = "OnOpen"                                  -> "down"
      [] wpc = "OnOpenHdl"                               -> "flagged"
      [] Opening /\ wpc \notin {"OnOpen", "OnOpenHdl"}   -> "pushing"
      [] ~Opening /\ con = "open"                        -> "open"
      [] ~Opening /\ con = "closing"                     -> "closing"
      [] con = "closed" /\ wpc = "OnClose"               -> "closing"
      [] con = "closed" /\ wpc \in {"Stop", "KillTimer"}
                       /\ g_HeartBeat # NoTimer         -> "lost"
      [] OTHER                                           -> "down"

\* The flags Send tests, the handle it sends on and the timer go through the life
\* of each connection together, until SDK_OnUnload.
Phases == INSTANCE ConnectionPhases WITH
              phase <- Phase, available <- Available, takes <- SendAccepted,
              ticking <- timers # {}, over <- ~InService
PhasesKept == Phases!Spec

-----------------------------------------------------------------------------
(***************************************************************************)
(* Progress, as far as it is safety: what the thread does while the client *)
(* is down, or while SDK_OnUnload waits for it, brings the end nearer.     *)
(***************************************************************************)

\* No connection is open, and Init has not given up.
Down == InService /\ UrlValid /\ ~m_bConnected /\ ~g_bRequireRestart

\* Steps from wpc to the next attempt's Connect.
UntilConnect ==
    CASE wpc = "Connect" -> 9        [] wpc = "Dial" -> 8
      [] wpc = "Run" -> 7            [] wpc \in {"OnFail", "OnOpen"} -> 6
      [] wpc = "Stop" -> 5           [] wpc = "KillTimer" -> 4
      [] wpc = "Reconnect" -> 3      [] wpc = "RunThread" -> 2
      [] wpc = "GetConnection" -> 1  [] OTHER -> 10

DownRank == 10 * (MaxRetries - m_Retries) + UntilConnect

\* The client is never down for more than a number of steps of the thread that
\* MaxRetries bounds: each step, and each attempt that fails, is one the less to
\* the next connection or the restart.  (Init, Connect, OnFail, OnClose.)
DowntimeIsBounded ==
    [][Down /\ Down' /\ wpc' # wpc => DownRank' \in 0..DownRank - 1]_vars

\* SDK_OnUnload waits, and the thread is on its way out of every run(): the
\* io_service is stopped, or only the outermost handler has reset it.
UnloadEnding ==
    /\ mpc = "wait"
    /\ \/ wpc = "Done"
       \/ io = "stopped" /\ (depth = 0 \/ ~Losing)
       \/ depth = 1 /\ wpc \in {"GetConnection", "Connect", "Return"}
                    /\ con \in {"closed", "new"}
       \/ depth = 0 /\ wpc = "Run" /\ con = "new"

\* Steps from wpc to the end of the handler, or of the thread.
UntilReturn ==
    CASE wpc \in {"OnOpen", "OnFail", "OnClose"} -> 9
      [] wpc \in {"OnOpenHdl", "Stop"} -> 8
      [] wpc \in {"PushQueue", "KillTimer"} -> 7
      [] wpc \in {"Erase", "Reconnect"} -> 6
      [] wpc \in {"Resend", "GetConnection"} -> 5
      [] wpc \in {"CreateTimer", "Connect", "Dial"} -> 4
      [] wpc = "Run" -> 3
      [] wpc = "Return" -> 2
      [] OTHER -> 1

UnloadRank == 10 * (IF Losing THEN depth + 1 ELSE depth) + UntilReturn

\* Once the thread is on its way out, nothing turns it back: every step of the
\* client, whoever takes it, is one of at most UnloadRank to the end of
\* SDK_OnUnload, with all the nested run()s returning.
UnloadAdvances ==
    [][UnloadEnding => \/ mpc' = "unloaded"
                       \/ UnloadEnding' /\ UnloadRank' \in 0..UnloadRank - 1]_vars

-----------------------------------------------------------------------------
(***************************************************************************)
(* Liveness                                                                *)
(***************************************************************************)

\* After a failed attempt or a lost connection the thread connects again or
\* asks for a restart, unless the extension is unloaded.
Reconnects ==
    wpc \in {"OnFail", "OnClose"} ~>
        \/ wpc = "Run" /\ m_bConnected
        \/ g_bRequireRestart
        \/ ~InService

\* SDK_OnUnload's WaitForThread returns when Shutdown left the io_service stopped
\* and the thread is not in the OnFail or OnClose of a later connection than the
\* first (those reset the io_service again, and a nested run() then waits).
UnloadCompletesOutsideLoss ==
    mpc = "wait" /\ io = "stopped" /\ (depth = 0 \/ ~Losing) ~> mpc = "unloaded"

\* SDK_OnUnload's WaitForThread returns once Shutdown is done.
UnloadCompletes == mpc = "wait" ~> mpc = "unloaded"

\* An invalid URL ends the thread at once and without a restart, unless an unload
\* crashes first; what plugins send then stays in m_bQueue for good.
BadUrlEndsThread ==
    ~UrlValid =>
        <>[](~Alive \/ (wpc = "Done" /\ ~g_bRequireRestart /\ ~Available))

-----------------------------------------------------------------------------
(***************************************************************************)
(* What the repository says of the client, and the code does not keep      *)
(***************************************************************************)

\* "OnClosing, DO NOT make connection." (websocket.cpp:249): no connection is
\* made once m_bClosing is set.
NoConnectionOnClosing ==
    [][con' = "connecting" /\ con # "connecting" => ~m_bClosing]_vars

\* "Handled all messages in queue" (websocket.cpp:170): when PushQueue has run
\* its loop, and no other thread touched m_bQueue meanwhile, the queue is empty.
HandledAllMessages ==
    [][wpc = "Resend" /\ wpc' \in {"CreateTimer", "Run"} =>
          m_bQueue' = {} \/ queueRace]_vars

=============================================================================
