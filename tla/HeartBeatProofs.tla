-------------------------- MODULE HeartBeatProofs --------------------------
(* Proofs about HeartBeat, for every interval, every setting of the wall    *)
(* clock and every lateness of the timer.                                   *)
EXTENDS HeartBeat, TLAPS

(* A time that a thread has read or stored is past, but for what the clock  *)
(* was set back by.                                                         *)
TimesArePast ==
    /\ wall - lastSent + back >= 0
    /\ \A p \in Threads : pc[p] \in {"read", "opened"} => wall - read[p] + back >= 0

(* Who is where: the websocket thread sends in PushQueue only, and the main *)
(* thread is in Send while it pings.                                        *)
Places ==
    /\ pc["ws"] # "idle" => link \in {"pushing", "open"}
    /\ pc["ws"] = "opened" => link = "pushing"
    /\ pinging => pc["main"] # "idle"

(* g_LastSent is not later than the last message the connection took, but   *)
(* while a thread has stored its time and not sent yet.                     *)
StampIsOld ==
    link = "open" /\ pc["main"] # "stored" /\ pc["ws"] # "stored"
        => silent <= wall - lastSent + back

(* The silence that the last run of the timer left is within the interval.  *)
SilentSinceRun ==
    link = "open" /\ pc["ws"] # "stored"
        => silent <= due + (IF interval > 1 THEN interval - 1 ELSE 0) + back

(* Time t is not earlier than the last ping, but for what the clock was set *)
(* forward or g_LastSent put back since.                                    *)
Stamped(t) == wall - t <= pinged + ahead

(* What the last ping left in g_LastSent.  A ping that Send refused for     *)
(* m_bConnected left nothing, but then the timer of the next connection     *)
(* comes after the time that OnOpen takes.                                  *)
PingIsStamped ==
    IF pinging /\ pc["main"] = "read"
      THEN Stamped(read["main"])
      ELSE /\ link \in {"open", "closing"} \/ ~saved => Stamped(lastSent)
           /\ pc["ws"] = "opened" => Stamped(lastSent) \/ Stamped(read["ws"])

HInv == TypeOK /\ TimesArePast /\ Places /\ StampIsOld /\ SilentSinceRun /\ PingIsStamped

(* The interval that SDK_OnLoad computes from a number is within its limits.*)
LEMMA IntervalInRange ==
  ASSUME NEW c \in Configs, NEW i \in Intervals(c)
  PROVE  i \in Int /\ (c # NaN => i \in (LowTenths \div 10)..(HighTenths \div 10))
<1>1. CASE c = Absent
  BY <1>1, TenthsAssumption, ConfigAssumption DEF Intervals
<1>2. CASE c = NaN
  BY <1>2, ConfigAssumption DEF Intervals
<1>3. CASE c # Absent /\ c # NaN
  <2>1. c \in Int
    BY <1>3, ConfigAssumption
  <2>2. Clamped(c) \in LowTenths..HighTenths
    BY <2>1, TenthsAssumption DEF Clamped
  <2>3. i = Clamped(c) \div 10
    BY <1>3 DEF Intervals
  <2> QED BY <1>3, <2>2, <2>3, TenthsAssumption
<1> QED BY <1>1, <1>2, <1>3

LEMMA InitHInv == Init => HInv
<1> SUFFICES ASSUME Init PROVE HInv
  OBVIOUS
<1> USE TimeAssumption DEF Init, Threads
<1>1. interval \in Int /\ (config # NaN => interval \in (LowTenths \div 10)..(HighTenths \div 10))
  BY IntervalInRange
<1>2. TypeOK
  <2>1. interval \in Int
    BY <1>1
  <2>2. config # NaN => interval \in (LowTenths \div 10)..(HighTenths \div 10)
    BY <1>1
  <2>3. pc \in [Threads -> {"idle", "send", "read", "stored", "opened"}] /\ pc["main"] # "opened"
    OBVIOUS
  <2>4. read \in [Threads -> Int] /\ due \in 0..MaxGap /\ link \in Links
    BY DEF Links
  <2>5. pinging \in BOOLEAN
    OBVIOUS
  <2>6. /\ config \in Configs /\ wall \in Int /\ lastSent \in Int
        /\ silent \in Nat /\ back \in Nat /\ pinged \in Nat /\ ahead \in Nat
        /\ jumps \in 0..MaxJumps
    OBVIOUS
  <2> QED BY <2>1, <2>2, <2>3, <2>4, <2>5, <2>6, Zenon DEF TypeOK
<1>3. TimesArePast /\ Places /\ StampIsOld /\ SilentSinceRun /\ PingIsStamped
  BY <1>1 DEF TimesArePast, Places, StampIsOld, SilentSinceRun, PingIsStamped, Stamped
<1> QED BY <1>2, <1>3 DEF HInv

(* What a ping leaves in its history has its type.                          *)
LEMMA PingAtTypes ==
  ASSUME TypeOK, NEW p, NEW refused \in BOOLEAN, PingAt(p, refused)
  PROVE  saved' \in BOOLEAN /\ pinged' \in Nat /\ ahead' \in Nat
<1>1. CASE pinging /\ p = "main"
  BY <1>1 DEF PingAt
<1>2. CASE ~(pinging /\ p = "main")
  BY <1>2 DEF PingAt, TypeOK
<1> QED BY <1>1, <1>2

(* Every step of either thread, of time and of the clock keeps the          *)
(* invariant: one step of the proof per action.                             *)
LEMMA StepHInv == HInv /\ [Next]_vars => HInv'
<1> SUFFICES ASSUME HInv, [Next]_vars PROVE HInv'
  OBVIOUS
<1> USE TimeAssumption DEF HInv, TypeOK, Threads, Links, TimesArePast, Places,
                           StampIsOld, SilentSinceRun, PingIsStamped, Stamped
<1>1. ASSUME NEW p \in Threads, Unavailable(p) PROVE HInv'
  <2>1. pinging' \in BOOLEAN
    BY <1>1 DEF Unavailable, Return
  <2>2. pc' \in [Threads -> {"idle", "send", "read", "stored", "opened"}] /\ pc'["main"] # "opened"
    BY <1>1 DEF Unavailable, Return
  <2>3. due' \in 0..MaxGap
    BY <1>1 DEF Unavailable, Return
  <2>4. TypeOK'
    <3>1. saved' \in BOOLEAN
      BY <1>1, PingAtTypes DEF Unavailable
    <3>2. pinged' \in Nat /\ ahead' \in Nat
      BY <1>1, PingAtTypes DEF Unavailable
    <3> QED
      BY <1>1, <2>1, <2>2, <2>3, <3>1, <3>2 DEF Unavailable
  <2>5. TimesArePast'
    BY <1>1 DEF Unavailable, Return
  <2>6. Places'
    BY <1>1 DEF Unavailable, Return
  <2>7. StampIsOld'
    BY <1>1 DEF Unavailable, Return
  <2>8. SilentSinceRun'
    BY <1>1 DEF Unavailable, Available, Return
  <2>9. PingIsStamped'
    BY <1>1 DEF Unavailable, Available, PingAt, Return
  <2> QED BY <2>4, <2>5, <2>6, <2>7, <2>8, <2>9
<1>2. ASSUME NEW p \in Threads, ReadTime(p) PROVE HInv'
  <2>1. pc' \in [Threads -> {"idle", "send", "read", "stored", "opened"}] /\ pc'["main"] # "opened"
    BY <1>2 DEF ReadTime
  <2>2. saved' \in BOOLEAN
    BY <1>2, PingAtTypes DEF ReadTime
  <2>3. pinged' \in Nat /\ ahead' \in Nat
    BY <1>2, PingAtTypes DEF ReadTime
  <2>4. TypeOK'
    BY <1>2, <2>1, <2>2, <2>3 DEF ReadTime
  <2>5. TimesArePast' /\ Places' /\ StampIsOld' /\ SilentSinceRun'
    BY <1>2 DEF ReadTime, Available
  <2>6. PingIsStamped'
    BY <1>2 DEF ReadTime, Available, PingAt
  <2> QED BY <2>4, <2>5, <2>6
<1>3. ASSUME NEW p \in Threads, StoreTime(p) PROVE HInv'
  BY <1>3 DEF StoreTime, Stamp, FallsBehind
<1>4. ASSUME NEW p \in Threads, SendNow(p) PROVE HInv'
  <2>1. pinging' \in BOOLEAN
    BY <1>4 DEF SendNow, Takes, Return
  <2>2. pc' \in [Threads -> {"idle", "send", "read", "stored", "opened"}] /\ pc'["main"] # "opened"
    BY <1>4 DEF SendNow, Takes, Return
  <2>3. due' \in 0..MaxGap
    BY <1>4 DEF SendNow, Takes, Return
  <2>4. TypeOK'
    BY <1>4, <2>1, <2>2, <2>3 DEF SendNow, Takes, Return
  <2>5. TimesArePast'
    BY <1>4 DEF SendNow, Takes, Return
  <2>6. Places'
    BY <1>4 DEF SendNow, Takes, Return
  <2>7. StampIsOld'
    BY <1>4 DEF SendNow, Takes, Return
  <2>8. SilentSinceRun'
    BY <1>4 DEF SendNow, Takes, Return
  <2>9. PingIsStamped'
    BY <1>4 DEF SendNow, Takes, Return
  <2> QED BY <2>4, <2>5, <2>6, <2>7, <2>8, <2>9
<1>5. CASE Submit
  BY <1>5 DEF Submit, Enter
<1>6. CASE OnTimerSkips
  BY <1>6 DEF OnTimerSkips, Runs, Ticking, Recently
<1>7. CASE OnTimerPings
  BY <1>7 DEF OnTimerPings, Runs, Ticking, Recently, Enter
<1>8. CASE OnOpen
  BY <1>8 DEF OnOpen, Moves
<1>9. CASE OnOpenHdl
  BY <1>9 DEF OnOpenHdl, Moves
<1>10. CASE Resend
  BY <1>10 DEF Resend, Takes, Enter
<1>11. CASE OnOpenReads
  BY <1>11 DEF OnOpenReads
<1>12. CASE CreateTimer
  BY <1>12 DEF CreateTimer, Stamp, FallsBehind
<1>13. CASE CloseFrame
  BY <1>13 DEF CloseFrame, Moves
<1>14. CASE OnClose
  BY <1>14 DEF OnClose, Moves
<1>15. CASE KillHeartBeat
  BY <1>15 DEF KillHeartBeat, Moves
<1>16. CASE Tick
  BY <1>16 DEF Tick, Ticking
<1>17. ASSUME NEW step \in Steps, SetClock(step) PROVE HInv'
  BY <1>17 DEF SetClock
<1>18. CASE UNCHANGED vars
  BY <1>18 DEF vars, code
<1> QED
  BY <1>1, <1>2, <1>3, <1>4, <1>5, <1>6, <1>7, <1>8, <1>9, <1>10, <1>11, <1>12, <1>13, <1>14, <1>15, <1>16, <1>17, <1>18 DEF Next, Send

(* The inductive invariant holds of every behaviour.                        *)
THEOREM ClockInvariant == Spec => []HInv
<1>1. Init => HInv
  BY InitHInv
<1>2. HInv /\ [Next]_vars => HInv'
  BY StepHInv
<1> QED BY <1>1, <1>2, PTL DEF Spec

(* Types, and an interval within the limits for every number in core.cfg    *)
(* (extension.cpp:75-78 and the truncation of CreateThread).                *)
THEOREM TypeCorrect == Spec => []TypeOK
<1>1. HInv => TypeOK
  BY DEF HInv
<1> QED BY <1>1, ClockInvariant, PTL

(* An open connection is never silent for longer than the interval and the  *)
(* lateness of the timer: the `<' of OnTimer and the order in Send, which   *)
(* takes the time before it sends, are right on both threads.               *)
THEOREM SilenceIsBounded == Spec => []SilenceBounded
<1>1. HInv => SilenceBounded
  <2> SUFFICES ASSUME HInv, link = "open", pc["ws"] # "stored"
               PROVE  silent <= (IF interval > 1 THEN interval - 1 ELSE 0) + MaxGap + back
    BY DEF SilenceBounded
  <2>1. silent <= due + (IF interval > 1 THEN interval - 1 ELSE 0) + back
    BY DEF HInv, SilentSinceRun
  <2>2. due <= MaxGap
    BY TimeAssumption DEF HInv, TypeOK
  <2> QED BY <2>1, <2>2, TimeAssumption DEF HInv, TypeOK
<1> QED BY <1>1, ClockInvariant, PTL

(* Pings are an interval apart, sent or refused, on one connection or on    *)
(* the next; only a ping refused for m_bConnected is repeated at once, and  *)
(* only until the lost connection's timer is killed.                        *)
THEOREM PingsAreSpaced == Spec => PingsSpaced
<1>1. HInv /\ [Next]_vars
        => [OnTimerPings => pinged + ahead >= interval \/ (link = "lost" /\ saved)]_vars
  <2> SUFFICES ASSUME HInv, OnTimerPings, ~(link = "lost" /\ saved)
               PROVE  pinged + ahead >= interval
    OBVIOUS
  <2>1. wall - lastSent >= interval /\ ~pinging
    BY DEF OnTimerPings, Runs, Recently, HInv, TypeOK, Places
  <2>2. link \in {"open", "closing"} \/ ~saved
    BY DEF OnTimerPings, Runs, Ticking
  <2>3. wall - lastSent <= pinged + ahead
    BY <2>1, <2>2 DEF HInv, PingIsStamped, Stamped
  <2> QED BY <2>1, <2>3 DEF HInv, TypeOK
<1> QED BY <1>1, ClockInvariant, PTL DEF Spec, PingsSpaced
=============================================================================
