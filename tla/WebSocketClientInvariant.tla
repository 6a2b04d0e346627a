---------------------- MODULE WebSocketClientInvariant ----------------------
(***************************************************************************)
(* The inductive invariant behind the safety properties of WebSocketClient *)
(* (proved in WebSocketClientProofs; MCWebSocketClient extends this module *)
(* so that TLC can check it on small instances).                           *)
(* The properties are not inductive: they speak of the flags and timers    *)
(* the handlers leave behind, and why these agree depends on where the     *)
(* websocket thread is and what became of its connection.                  *)
(***************************************************************************)
EXTENDS WebSocketClient

Live == con \in {"open", "closing"}

\* Where the thread is tells what became of the connection.
ConInv ==
    /\ wpc = "RunThread" => con = "none"
    /\ wpc = "GetConnection" => con \in {"none", "closed"}
    /\ wpc \in {"Connect", "Dial"} => con = "new"
    /\ wpc = "Run" => con \in {"new", "connecting", "open", "closing"}
    /\ wpc \in {"Return", "Done"} =>
          con \in {"none", "new", "connecting", "open", "closing"}
    /\ wpc \in {"OnOpen", "OnOpenHdl", "CreateTimer", "PushQueue", "Resend",
                "Erase"} => con = "open"
    /\ Losing => con = "closed"
    /\ IF con = "none"
       THEN depth = 0 /\ (wpc \in {"Return", "Done"} => ~UrlValid)
       ELSE UrlValid

\* m_Retries counts the attempts since the last open connection.
RetryInv ==
    /\ con \in {"none", "closed"} => m_Retries = failures /\ failures < MaxRetries
    /\ con = "new" => m_Retries = failures + 1
    /\ wpc \in {"Connect", "Dial"} \/ con = "connecting" =>
          m_Retries = failures + 1 /\ m_Retries < MaxRetries
    /\ Live => failures = 0 /\ (wpc = "OnOpen" \/ m_Retries = 0)
    /\ g_bRequireRestart => con = "new" /\ m_Retries = MaxRetries

\* The flags agree with the connection.
FlagInv ==
    /\ Live /\ wpc # "OnOpen" => ~m_bConnecting
    /\ Losing /\ wpc # "OnFail" => ~m_bConnecting
    /\ ConnectedIsCurrent
    /\ InService /\ Live /\ wpc # "OnOpen" => m_bConnected

\* In service the io_service runs while a connection is attempted or alive,
\* and the thread leaves run() only after Init gave up.
IoInv ==
    /\ InService /\ wpc = "Run" /\ con # "new" => io = "ready"
    /\ InService /\ wpc \notin {"RunThread", "KillTimer", "Reconnect", "Run",
                                "Return", "Done"} => io = "ready"
    /\ InService /\ (wpc \in {"Return", "Done"}) => con \in {"none", "new"}
    /\ InService /\ wpc \in {"Return", "Run"} /\ con = "new" =>
          m_Retries = MaxRetries \/ m_bClosing

\* The timer exists from the end of OnOpen to the close handler.
TimerInv ==
    /\ Opening \/ con \in {"none", "new", "connecting"} => g_HeartBeat = NoTimer
    /\ wpc \in {"Reconnect", "GetConnection"} => g_HeartBeat = NoTimer
    /\ (Live /\ ~Opening) \/ wpc = "OnClose" => g_HeartBeat # NoTimer
    /\ BeforeShutdown =>
          /\ timers = (IF g_HeartBeat = NoTimer THEN {} ELSE {g_HeartBeat})
          /\ ~badKill

\* What PushQueue is about to erase was accepted, or is being sent again.
QueueInv ==
    Alive /\ ~queueRace =>
        owed \ (IF wpc = "Erase" THEN m_bQueue \ {wmsg} ELSE m_bQueue)
            \subseteq (IF mpc \in {"send", "save"} THEN {mmsg} ELSE {})

\* The phases of a connection: the handle is stored in OnOpen, the flag cleared
\* in OnClose, and no timer exists before either.
PhaseInv ==
    /\ con \in {"none", "new", "connecting"} \/ wpc \in {"OnOpen", "OnOpenHdl"} =>
          ~hdlCurrent
    /\ wpc = "OnFail" => g_HeartBeat = NoTimer
    /\ InService /\ wpc = "OnClose" => m_bConnected
    /\ InService /\ m_bClosing => wpc = "Done"
    /\ InService /\ wpc = "Done" /\ con = "new" => m_Retries = MaxRetries

\* Shutdown() killed a live timer, so a connection had been opened.  g_HeartBeat
\* still names that timer until a close handler kills it again.
ShutdownInv ==
    /\ AfterShutdown =>
          /\ con # "none"
          /\ timers \subseteq {g_HeartBeat}
          /\ ~badKill => g_HeartBeat # NoTimer /\ timers = {}
    /\ AfterShutdown /\ mpc # "closing" => m_bClosing

\* Init that gave up has asked for a restart.  (The extension clears the request,
\* so this is not part of IInv.)
GivenUp == m_Retries = MaxRetries => g_bRequireRestart

IInv == /\ TypeOK /\ ConInv /\ RetryInv /\ FlagInv /\ IoInv /\ TimerInv /\ QueueInv
        /\ PhaseInv /\ ShutdownInv

=============================================================================
