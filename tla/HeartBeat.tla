----------------------------- MODULE HeartBeat -----------------------------
(* The clock of the heartbeat: the interval that SDK_OnLoad takes from      *)
(* core.cfg, g_LastSent, and the timer that OnOpen starts and the loss of   *)
(* the connection kills.  The main thread sends pings and the messages of   *)
(* plugins, the websocket thread resends queued messages; both write        *)
(* g_LastSent from time(NULL), the wall clock, which may be set.  Time is   *)
(* in whole seconds.  WebSocketClient has the queue and the retries.        *)
EXTENDS Integers

CONSTANTS
    Configs,       \* what core.cfg may give: tenths of a second, Absent, NaN
    Absent, NaN,
    LowTenths, HighTenths, DefaultTenths,   \* 100, 9999 and 300 in the code
    Undefined,     \* what the conversion of NaN to seconds may yield
    MaxGap,        \* most seconds from one run of the timer to the next
    Steps,         \* by how much the wall clock may be set
    Start,         \* time(NULL) when the extension loads
    MaxTime,       \* bound: the clock stops here
    MaxJumps       \* bound: how often the clock is set

ASSUME TenthsAssumption ==
    /\ LowTenths \in Nat /\ HighTenths \in Nat /\ LowTenths <= HighTenths
    /\ DefaultTenths \in LowTenths..HighTenths
ASSUME ConfigAssumption ==
    /\ Configs \ {Absent, NaN} \subseteq Int
    /\ Absent # NaN /\ Absent \notin Int /\ NaN \notin Int
    /\ Undefined \subseteq Int
ASSUME TimeAssumption ==
    /\ MaxGap \in Nat \ {0} /\ Steps \subseteq Int
    /\ Start \in Nat /\ MaxTime \in Int /\ MaxJumps \in Nat

VARIABLES
    config,     \* WebSocket_Heartbeat_Interval in core.cfg
    interval,   \* g_Interval
    wall,       \* time(NULL)
    lastSent,   \* g_LastSent
    link,       \* how far the websocket thread is with the connection
    pc,         \* where each thread is in Send, or in OnOpen
    read,       \* the time each thread has read and not stored yet, or 0
    pinging,    \* the main thread's Send is that of OnTimer
    due,        \* seconds since the timer last ran
    silent,     \* history: seconds since the connection took a message
    back,       \* history: seconds the clock was set back
    pinged,     \* history: seconds since OnTimer's last ping went through Send
    saved,      \* history: that ping found m_bConnected cleared and took no time
    ahead,      \* history: seconds by which g_LastSent fell behind since then
    jumps       \* how often the clock was set

code == <<config, interval, wall, lastSent, link, pc, read, pinging, due>>
vars == <<code, silent, back, pinged, saved, ahead, jumps>>

Threads == {"main", "ws"}

\* A bug to tell apart: no upper limit.
ClampedBelow(tenths) == IF tenths < LowTenths THEN LowTenths ELSE tenths

(* A text that is no number is 0 for atof.  Both comparisons are false of   *)
(* NaN, so it passes the clamp unchanged.                                   *)
Clamped(tenths) ==
    IF tenths < LowTenths THEN LowTenths
    ELSE IF tenths > HighTenths THEN HighTenths ELSE tenths

(* CreateThread truncates the interval to whole seconds.                    *)
Intervals(c) ==
    CASE c = Absent -> {DefaultTenths \div 10}
      [] c = NaN -> Undefined
      [] OTHER -> {Clamped(c) \div 10}

(* link is                                                                  *)
(*   "down"     no connection and no timer                                  *)
(*   "flagged"  OnOpen has set m_bConnected, not yet the handle             *)
(*   "pushing"  OnOpen has set the handle; PushQueue                        *)
(*   "open"     the timer runs                                              *)
(*   "closing"  the connection takes no more messages                       *)
(*   "lost"     OnClose has cleared m_bConnected, the timer still runs      *)
Links == {"down", "flagged", "pushing", "open", "closing", "lost"}

Available == link \in {"flagged", "pushing", "open", "closing"}

Takes == link \in {"pushing", "open"}

Ticking == link \in {"open", "closing", "lost"}

Init ==
    /\ config \in Configs
    /\ interval \in Intervals(config)
    /\ wall = Start /\ lastSent = 0
    /\ link = "down"
    /\ pc = [p \in Threads |-> "idle"]
    /\ read = [p \in Threads |-> 0]
    /\ pinging = FALSE
    /\ due = 0 /\ silent = 0 /\ back = 0
    /\ pinged = Start /\ saved = FALSE /\ ahead = 0 /\ jumps = 0

-----------------------------------------------------------------------------
(* Send, on either thread.  g_LastSent takes the time before the connection *)
(* is asked to send, and keeps it when the connection refuses.              *)

Enter(p) == pc[p] = "idle" /\ pc' = [pc EXCEPT ![p] = "send"]

Return(p) ==
    /\ pc' = [pc EXCEPT ![p] = "idle"]
    /\ pinging' = IF p = "main" THEN FALSE ELSE pinging
    /\ due' = IF pinging /\ p = "main" THEN 0 ELSE due

\* History: a ping of OnTimer has got past the test of Available, or not.
PingAt(p, refused) ==
    IF pinging /\ p = "main"
      THEN pinged' = 0 /\ ahead' = 0 /\ saved' = refused
      ELSE UNCHANGED <<pinged, ahead, saved>>

Unavailable(p) ==
    /\ pc[p] = "send" /\ ~Available
    /\ Return(p)
    /\ PingAt(p, TRUE)
    /\ UNCHANGED <<config, interval, wall, lastSent, link, read,
                   silent, back, jumps>>

ReadTime(p) ==
    /\ pc[p] = "send" /\ Available
    /\ pc' = [pc EXCEPT ![p] = "read"]
    /\ read' = [read EXCEPT ![p] = wall]
    /\ PingAt(p, FALSE)
    /\ UNCHANGED <<config, interval, wall, lastSent, link, pinging, due,
                   silent, back, jumps>>

\* A bug to tell apart: the time is taken only for what the connection took.
StampIfTaken(p) == lastSent' = IF Takes THEN read[p] ELSE lastSent

Stamp(p) == lastSent' = read[p]

FallsBehind ==
    ahead' = ahead + (IF lastSent' < lastSent THEN lastSent - lastSent' ELSE 0)

StoreTime(p) ==
    /\ pc[p] = "read"
    /\ pc' = [pc EXCEPT ![p] = "stored"]
    /\ Stamp(p)
    /\ read' = [read EXCEPT ![p] = 0]
    /\ FallsBehind
    /\ UNCHANGED <<config, interval, wall, link, pinging, due,
                   silent, back, pinged, saved, jumps>>

SendNow(p) ==
    /\ pc[p] = "stored"
    /\ silent' = IF Takes THEN 0 ELSE silent
    /\ Return(p)
    /\ UNCHANGED <<config, interval, wall, lastSent, link, read,
                   back, pinged, saved, ahead, jumps>>

Send(p) == Unavailable(p) \/ ReadTime(p) \/ StoreTime(p) \/ SendNow(p)

-----------------------------------------------------------------------------
(* The main thread: a plugin's message, and the timer of one second.        *)

Submit ==
    /\ Enter("main")
    /\ UNCHANGED <<config, interval, wall, lastSent, link, read, pinging, due,
                   silent, back, pinged, saved, ahead, jumps>>

\* A bug to tell apart: one second too many.
RecentlyOrNow == wall - lastSent <= interval

Recently == wall - lastSent < interval

Runs == Ticking /\ due >= 1 /\ pc["main"] = "idle"

OnTimerSkips ==
    /\ Runs /\ Recently
    /\ due' = 0
    /\ UNCHANGED <<config, interval, wall, lastSent, link, pc, read, pinging,
                   silent, back, pinged, saved, ahead, jumps>>

OnTimerPings ==
    /\ Runs /\ ~Recently
    /\ Enter("main")
    /\ pinging' = TRUE
    /\ UNCHANGED <<config, interval, wall, lastSent, link, read, due,
                   silent, back, pinged, saved, ahead, jumps>>

-----------------------------------------------------------------------------
(* The websocket thread.                                                    *)

Moves(from, to) ==
    /\ link = from /\ pc["ws"] = "idle"
    /\ link' = to

OnOpen ==
    /\ Moves("down", "flagged")
    /\ UNCHANGED <<config, interval, wall, lastSent, pc, read, pinging, due,
                   silent, back, pinged, saved, ahead, jumps>>

OnOpenHdl ==
    /\ Moves("flagged", "pushing")
    /\ UNCHANGED <<config, interval, wall, lastSent, pc, read, pinging, due,
                   silent, back, pinged, saved, ahead, jumps>>

Resend ==
    /\ Takes /\ Enter("ws")
    /\ UNCHANGED <<config, interval, wall, lastSent, link, read, pinging, due,
                   silent, back, pinged, saved, ahead, jumps>>

OnOpenReads ==
    /\ link = "pushing" /\ pc["ws"] = "idle"
    /\ pc' = [pc EXCEPT !["ws"] = "opened"]
    /\ read' = [read EXCEPT !["ws"] = wall]
    /\ UNCHANGED <<config, interval, wall, lastSent, link, pinging, due,
                   silent, back, pinged, saved, ahead, jumps>>

CreateTimer ==
    /\ pc["ws"] = "opened"
    /\ pc' = [pc EXCEPT !["ws"] = "idle"]
    /\ Stamp("ws")
    /\ read' = [read EXCEPT !["ws"] = 0]
    /\ FallsBehind
    /\ link' = "open"
    /\ due' = 0 /\ silent' = 0
    /\ UNCHANGED <<config, interval, wall, pinging, back, pinged, saved, jumps>>

CloseFrame ==
    /\ Moves("open", "closing")
    /\ UNCHANGED <<config, interval, wall, lastSent, pc, read, pinging, due,
                   silent, back, pinged, saved, ahead, jumps>>

OnClose ==
    /\ (Moves("open", "lost") \/ Moves("closing", "lost"))
    /\ UNCHANGED <<config, interval, wall, lastSent, pc, read, pinging, due,
                   silent, back, pinged, saved, ahead, jumps>>

KillHeartBeat ==
    /\ Moves("lost", "down")
    /\ UNCHANGED <<config, interval, wall, lastSent, pc, read, pinging, due,
                   silent, back, pinged, saved, ahead, jumps>>

-----------------------------------------------------------------------------
(* Time.  Due timers run in the next game frame, and Send does not wait: a  *)
(* run of the timer is over at most MaxGap seconds after the one before it. *)

Tick ==
    /\ wall < MaxTime
    /\ Ticking => due < MaxGap
    /\ wall' = wall + 1
    /\ due' = IF Ticking THEN due + 1 ELSE 0
    /\ silent' = IF link = "open" THEN silent + 1 ELSE 0
    /\ pinged' = pinged + 1
    /\ UNCHANGED <<config, interval, lastSent, link, pc, read, pinging,
                   back, saved, ahead, jumps>>

SetClock(step) ==
    /\ jumps < MaxJumps
    /\ jumps' = jumps + 1
    /\ wall' = wall + step
    /\ ahead' = IF step > 0 THEN ahead + step ELSE ahead
    /\ back' = IF step < 0 THEN back - step ELSE back
    /\ UNCHANGED <<config, interval, lastSent, link, pc, read, pinging, due,
                   silent, pinged, saved>>

Next ==
    \/ \E p \in Threads : Send(p)
    \/ Submit \/ OnTimerSkips \/ OnTimerPings
    \/ OnOpen \/ OnOpenHdl \/ Resend \/ OnOpenReads \/ CreateTimer
    \/ CloseFrame \/ OnClose \/ KillHeartBeat
    \/ Tick \/ (\E step \in Steps : SetClock(step))

Spec == Init /\ [][Next]_vars

-----------------------------------------------------------------------------
(* Types.  Whatever number core.cfg holds, the interval stays between the   *)
(* two limits of SDK_OnLoad.                                                *)
TypeOK ==
    /\ config \in Configs
    /\ interval \in Int
    /\ config # NaN => interval \in (LowTenths \div 10)..(HighTenths \div 10)
    /\ wall \in Int /\ lastSent \in Int
    /\ link \in Links
    /\ pc \in [Threads -> {"idle", "send", "read", "stored", "opened"}]
    /\ pc["main"] # "opened"
    /\ read \in [Threads -> Int]
    /\ pinging \in BOOLEAN /\ saved \in BOOLEAN
    /\ due \in 0..MaxGap
    /\ silent \in Nat /\ back \in Nat /\ pinged \in Nat /\ ahead \in Nat
    /\ jumps \in 0..MaxJumps

(* While the timer runs, an open connection is never silent for longer than *)
(* the interval, the time to the next run of the timer and what the clock   *)
(* was set back by: no interleaving of the sends of both threads, failed    *)
(* ones of the last connection included, makes OnTimer wait longer.  Only a *)
(* resend that has stored its time and not sent yet may hide the silence.   *)
SilenceBounded ==
    link = "open" /\ pc["ws"] # "stored"
        => silent <= (IF interval > 1 THEN interval - 1 ELSE 0) + MaxGap + back

(* OnTimer pings at most once in an interval, whatever became of the last   *)
(* ping: it is only earlier by what the clock was set forward or a slower   *)
(* thread put g_LastSent back.  The one exception: between the loss of the  *)
(* connection and KillTimer, a ping that Send refused for m_bConnected has  *)
(* taken no time, and is repeated at each run of the timer.                 *)
PingsSpaced ==
    [][OnTimerPings => pinged + ahead >= interval \/ (link = "lost" /\ saved)]_vars
=============================================================================
