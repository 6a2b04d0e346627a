# Kxnrl.Message.Extension in TLA+

A SourceMod extension that gives game server plugins a message bus over one websocket connection. This directory models
its concurrent core, checks it with TLC and proves its safety properties with TLAPS.

## The system

| Part | State it keeps | Operations | What makes it correct |
|---|---|---|---|
| **Websocket client** (`websocket.cpp`) | the connection and its handle, `m_bConnected`, `m_bConnecting`, `m_bClosing`, `m_Retries`, `m_bQueue`, `g_HeartBeat` | `RunThread`/`Init`/`Connect`, the handlers `OnOpen`, `OnFail`, `OnClose`, `OnMessage`, `PushQueue`; `Send`, `OnTimer`, `Shutdown` | no message lost, one heartbeat timer, the flags fit the connection, every loss is followed by a reconnection or a restart request, unloading ends |
| **Extension** (`extension.cpp`) | `g_tRecvQueue`, `g_bSocketConnects`, `g_bRequireRestart`, the thread, two forwards | `SDK_OnLoad`, `OnGameFrame`, `PushMessage`, `SDK_OnUnload` | each message handed over once and in order, each connection announced, the restart commanded |
| **Message types** (`message.h`, `kxnrl.message.inc`) | none | `IsValidType` and its two callers | what plugins may name exists |
| **KMessage** (`message.h`) | a JSON value and an array cursor | reads, writes, the cursor, conversions | what is written is what is read, the cursor stays inside its array |
| **Natives** (`natives.cpp`) | SourceMod's handle table | 25 natives over message handles | no deleted message is used, no message leaks, its owner decides when it ends |
| **Heartbeat** (`websocket.cpp`, `extension.cpp`) | `g_LastSent`, `g_Interval`, the timer | the interval of `core.cfg`, `OnTimer`, the time that `Send` and `OnOpen` take | an open connection is not silent for longer than the interval, pings are an interval apart while connected |
| websocketpp, Boost.Asio, JsonCpp, SourceMod SDK | | third-party | relied upon as said below |

**How they interact.** Two threads share plain fields, without a lock. The *websocket thread* runs `Init`, `Connect` and
`m_WebSocket.run()`, and every handler inside `run()`. `OnFail` and `OnClose` call `Init` again from inside the handler,
so each reconnection runs in a `run()` nested in the last one. The *main thread* runs plugins (natives), the heartbeat
timer, `OnGameFrame` and `SDK_OnUnload`. The thread leaves three things for the main thread: received texts
(`g_tRecvQueue`), "connected" (`g_bSocketConnects`) and "gave up" (`g_bRequireRestart`). `OnGameFrame` acts on one of
them per frame.

**What is hard.** The interleavings of the two threads on the fields above; the nested `run()`s over an `io_service` that
handlers stop and reset while `Shutdown` stops it too; the timer that one thread creates and two kill; the queue that both
threads change; retry counting; lost and closing connections; the array cursor that all plugins share, over JSON values
that reads change; handles that any plugin may close, clone or keep; a wall clock that may be set. `PROJECT.json` lists
each hazard at its line, with the properties that speak of it.

## Modules

| Module | What it is |
|---|---|
| `WebSocketClient` | the client, both threads, and its properties |
| `WebSocketClientInvariant` | the inductive invariant `IInv` |
| `WebSocketClientProofs` | theorems about `WebSocketClient`: its invariants |
| `ConnectionPhases` | abstract: the life of a connection, as `Send` and the heartbeat timer may rely on it; `WebSocketClient` refines it |
| `ClientProgressProofs` | theorems about the steps of `WebSocketClient`: the phases, and progress |
| `Mailbox` | abstract: a FIFO hand-over of messages, in which only frames that are no message are discarded |
| `Extension` | `WebSocketClient` composed with load, game frame and unload; refines `Mailbox` |
| `ExtensionProofs` | theorems about `Extension`, and the client's carried over to it |
| `JsonValue` | the part of JsonCpp that `message.h` relies on |
| `MessageMap` | abstract: a message as a map from places to scalars |
| `KMessage` | one message under its natives; refines `MessageMap` |
| `KMessageProofs` | theorems about `KMessage`: types, the cursor, loops |
| `KMessageMapProofs` | theorems: `KMessage` implements `MessageMap`, and reads back what was written |
| `MessageHandles` | who holds messages, and until when |
| `MessageHandlesProofs` | theorems about `MessageHandles` |
| `HeartBeat` | the interval, `g_LastSent` and the timer |
| `HeartBeatProofs` | theorems about `HeartBeat` |
| `MessageTypes` | the enums and `IsValidType` |
| `MC*` | instances for TLC |

### WebSocketClient

`wpc` is the websocket thread's program counter and `mpc` the main thread's. Consecutive statements are one action when at
most one of them touches state the other thread uses meanwhile, so each read of a shared flag and the use made of it are
separate (`BeginSend` reads `Available`, `SendNow` sends; `Connect` reads `m_bClosing`, `Dial` connects after the sleep).
Four actions merge two accesses to shared state, because no property tells a step of the other thread between them from one
before or after both:

- `KillHeartBeat` (lines 356 to 361: test, `KillTimer`, `NULL`): `Shutdown` in between kills the same timer a second time,
  as when it comes first.
- `CreateTimer` (311: creation, assignment): `Shutdown` in between finds the old `g_HeartBeat`, as when it comes first.
- `OnOpenHdl` (302, 303: handle, connect flag): the game acts on the flag in a later frame anyway. Only a send on the new
  handle before a frame that finds the flag still clear is lost, and no property relates the two.
- `TestConnects` of `Extension` (135, 137: test, clear): an opening in between sets a flag that is set already, as when it
  comes before the test.

| Code | Model |
|---|---|
| `RunThread`, `Init` | `RunThread` (init_asio), `GetConnection` (connection object, retries, restart request) |
| `Connect` | `Connect` (test of `m_bClosing`), `Dial` (after the sleep), then `wpc = "Run"` |
| return of `run()` and of the handlers | `RunReturns`, `HandlerReturns` (one level of `depth`), `OnTerminate` |
| `OnOpen` | `OnOpen`, `OnOpenHdl` (handle and connect flag), `PushQueue`..., `CreateTimer` |
| `OnFail`, `OnClose` | their first steps, then the shared tail `StopIo`, `KillHeartBeat`, `Reconnect` |
| `OnMessage`, `PushQueue` | `OnMessage`, `PushQueue`, `Resend`, `Erase` (one loop turn is two steps) |
| `Send`, `SaveQueue` | `BeginSend`, `SendNow`, `Save` (for `Native_Send`: `Submit`; for the timer: `OnTimer`) |
| `Shutdown()` and `WebSocketClient::Shutdown` | `Unload`, `ShutdownKillTimer`, `ShutdownClosing`, `ShutdownDisconnect`, `ShutdownStop`, `WaitForThread` |

`con` is the state of the connection object `m_Connection_ptr`, `hdlCurrent` whether `m_Connection_hdl` refers to it,
`io` the `io_service`. Of websocketpp and Asio the model keeps this: an attempt ends in exactly one open or fail handler
(`Opened`, `Failed`), an open connection in exactly one close handler, possibly after a close frame that makes sends
fail (`CloseFrame`, `Terminated`); `stop` makes every `run()` return after its handler, `reset` undoes a `stop`; the
outermost `run()` also returns when there is nothing to wait for, and a nested one does not, since the handler around it
counts as work. Of SourceMod: `CreateTimer` and `KillTimer` are taken as atomic and safe to call from the websocket
thread, although SourceMod does not promise this and the main thread runs the list of timers meanwhile; `CreateTimer`
gives a fresh timer, `KillTimer(NULL)` crashes, and a second `KillTimer` of one object is recorded as `badKill`.

Undefined behaviour: `SaveQueue` while `PushQueue` iterates `m_bQueue` may lose any entries or crash the process
(`queueRace`), and `Send` while `OnOpen` assigns `m_Connection_hdl` may crash it (`SendNow`). Torn reads of the Boolean
flags are not modelled: a `bool` is one byte on the platforms of the build.

Data: a message, a ping and a frame are model values. The heartbeat's clock is abstracted here: `OnTimer` may send a
ping whenever a timer lives; `HeartBeat` says when it does. Every ping holds its time, so it differs from all texts that
are still queued or owed.

History variables (`owed`, `queueRace`, `badKill`, `failures`, `closes`) are never read by a code step, except that
`closes` bounds the connections lost and `owed` picks fresh pings.

### Extension

`frame` says where the main thread is in `SDK_OnLoad`, `OnGameFrame` or `SDK_OnUnload`. `StartThread` is `SDK_OnLoad` up
to `CreateThread` (or its failure), `FinishLoad` the rest: the websocket thread runs before the frames are hooked. The two
flags and the queue are read in separate steps. `g_bSocketConnects` is cleared before `OnSocketConnected` runs; plugins
may send inside both forwards. `Parsable` are the frames from which `KMessage` makes a message, `Poison` those on which
its constructor throws, which ends the process; the others are dropped and the loop goes on in the same frame.

`TestQueue` is `empty()`, `PopMessage` is `front()` and `pop()`. A push of the websocket thread between the two is
undefined behaviour (`recvRace`): the pop then cuts a frame off, invents one or crashes. `Mailbox` promises nothing from
then on (`torn`).

### KMessage

A value is null, a scalar, an object or an array (`JsonValue`); the variable `Message_Data` is the value that natives reach.
A place is a key, an element of an array or a member of an element: `PathOf` finds the place a key names, in array mode or
not. Writes assign there (`Write`), reads assign what is already there (`Read`), because `operator[]` makes what it does
not find. A scalar keeps its number, its kind and whether it is a fraction or the text "true", since that is what the
conversions tell apart; `Converts` says which throw. `Cut` is what `strncpy` leaves of a key. `m_ArrayKey` is not
initialised: `Init` takes any key, which stands for any bytes. `Width` is the number of values of `ArrayIndex`, so that
assigning -1 and the overflow of `size()` happen. History: `writes` bounds the writes; `loop` and `seen` follow a loop of
`ReadArrayBegin`, reads and `ReadArrayNext`.

### MessageHandles

All of it runs on the main thread, so a native is one step. A handle has an object and an owner; SourceMod lets anyone use
a message handle through the extension, lets the owner delete it (anyone, if it has none), and calls `OnHandleDestroy`
with the last handle. `HandOver` and `TakeBack` are `OnGameFrame` around `OnMessageReceived`. Creation may fail (the table
is full), in both callers. `lost`, `badUse` and `by` are history.

### HeartBeat

Time is in whole seconds, as `time(NULL)` gives it. Each of the two threads is in `Send` by steps: the test of
`Available`, the reading of the time (`ReadTime`), its store in `g_LastSent` (`StoreTime`), the sending (`SendNow`).
`link` is how far the websocket thread is with the connection; the timer lives from `CreateTimer` to `KillHeartBeat`.
The names and the order of its phases are those of `ConnectionPhases`, which `WebSocketClient` implements with the handlers.
`Intervals` is the interval of `SDK_OnLoad` and `CreateThread`: the clamp in tenths of a second, then truncated; for NaN,
which passes the clamp, the conversion is undefined and may give anything in `Undefined`. `SetClock` sets the wall clock.
`silent`, `back`, `pinged`, `saved` and `ahead` are history. Unloading and the queue are in `WebSocketClient` only.

### MessageTypes

Each number from one below to one above the enum's range goes through `Native_Message` and through the receiving
constructor. The enum in the include file stops at 1134: plugins that use `Ranking_FA_*`, `Ranking_CS_*` or `Acts_*` must
name them by number.

## What TLC checks

| Run | Question | Bounds |
|---|---|---|
| `service` | are the safety properties kept while in service, and is the time without a connection bounded? | 2 messages, 1 ping, 2 timers, 3 retries, 2 losses |
| `unload` | does an unload at any moment kill live timers once, leave no timer, and end; without one, do flags, handle and timer follow each connection, and does every loss lead to a connection or a restart request? | 3 retries, 2 losses |
| `bad_url` | what does an invalid URL lead to? | 3 messages |
| `extension` | is a connection forgotten; is the mailbox kept; is everything left for the game acted on? | 4 frames (one junk, one that throws), queue of 2, 2 retries, 1 loss |
| `message` | do the natives together implement a map, do loops visit their array, is what was written read? | 2 keys, 3 indices, 2 writes, 4 places, integers of 2 and 3 bits |
| `handles` | is a deleted message used, does one leak, who ends it? | 2 plugins, 5 messages and clones |
| `heartbeat` | how long may a connection be silent, and how close are pings? | intervals of 2 and 3 s, 5 s, the clock set once |

These pass. The bounds are `CONSTANTS`. `MaxRetries` is 50 in the code; 3 leaves room for a failure, a second failure and
the request, and a connection in between resets it. Two losses make the handlers nest twice, so that a close happens with
an older timer, an older handle and an outer `run()` around; more depth adds no new combination, because only `depth = 0`
is tested. Two timers are the least that lets an old and a new one exist together. `message`: two writes let one overwrite,
hide or extend the other, and four places hold a received array with a member, and what a read adds to it; the next index
after the last is reached, so is the overflow of `size()`. `handles`: a received message with two clones and two messages of
plugins exist together. `heartbeat`: the limits of the clamp are scaled to 2.0 and 3.9 s, so that the shorter interval ends
twice before `MaxTime`. The proofs cover all values.
`CHECK_DEADLOCK` is `FALSE` since the process may crash or finish unloading, and then nothing happens any more.

These runs end in a violation, each of something the repository or its library says:

| Run | What it shows |
|---|---|
| `unload_hang` | `Shutdown`'s stop is undone by the `reset` of a handler of a later connection; the nested `run()` never returns and the game hangs in `WaitForThread` |
| `closing_dial` | a connection is made with `m_bClosing` set: the test is before the sleep of 8 s, the dial after it ("OnClosing, DO NOT make connection.") |
| `handled_all` | "Handled all messages in queue" is logged when the loop was left at a failed send |
| `declared_types` | types 116 and 117 are offered to plugins and rejected by the extension |
| `long_key` | `ReadArrayBegin` of a key longer than 31 characters succeeds, and the cursor is on another key |

More behaviours are in the models, promised by nobody, and so not stated as properties: unloading without a live timer
kills a NULL timer (only then: `UnloadCrashesWhileDownOnly`); the close handler after `Shutdown` kills the same timer
again, and a connection opened after that makes a timer nobody kills (only so: `ShutdownLeavesNoTimer`); a read of a
value of the wrong kind ends the process (`crashed`); an array that reaches the last index counts as empty; a ping that
finds `m_bConnected` cleared takes no time, so it is repeated every second, and saved each time, until the timer is
killed (only then: `PingsSpaced`).

**Fairness.** Weak fairness of each thread's own steps (the operating system schedules both), of the end of an attempt
and of a close handshake (both have a timeout of 10 s in `Init`). Nothing is assumed of the server. In `Extension`, the
game's frame steps are strongly fair: plugins may call natives again and again, but each returns, and the next frame
comes. `ConnectionsAreAnnounced` has the premise that frames end, because TLC found the case where they do not: junk
frames that arrive as fast as `OnGameFrame`'s loop drops them. `QueueFollowsTraffic` has the premise that text frames keep
coming, because nothing else pushes the queue while the connection is open.

## What is proved

Each theorem holds for all values of the constants, under the assumptions named in the module that declares them.

*`WebSocketClientProofs`*: `TypeOK`, `NoMessageLost`, `OneHeartBeat`, `KillsLiveTimersOnly`, `ShutdownLeavesNoTimer`,
`ConnectedIsCurrent`, `ReconnectNotSuppressed`, `RestartAfterFailures`, and the action properties
`NestingUnwindsAtEndOnly` and `UnloadCrashesWhileDownOnly`. None of these is inductive. The argument is the invariant
`IInv`: where the websocket thread is determines what became of its connection (`ConInv`), how `m_Retries` relates to the
failures (`RetryInv`), what the flags say (`FlagInv`), whether the `io_service` runs (`IoInv`) and which timer lives
(`TimerInv`); `QueueInv` accounts for every message that is owed, `PhaseInv` says when the handle and the flag are set and
cleared, `ShutdownInv` what `Shutdown` left. `InductiveInvariant` proves `Spec => []IInv`, one step per group of actions
and one lemma per conjunct.

*`ClientProgressProofs`*: three properties of steps, from the same `IInv`.

- `PhasesKept`: the client implements `ConnectionPhases`. `Phase` maps the program counter, the connection and the timer
  to a phase; in service the flags agree with it (`FlagsAgree`), and each step leaves it or takes it on (`PhaseMoves`).
- `DowntimeIsBounded`, the safety half of `Reconnects`: while no connection is open, each step of the thread lowers
  `DownRank`, which counts the attempts that are left and the steps to the next one. It needs `GivenUp` besides `IInv`:
  at the last retry `Init` has asked for a restart.
- `UnloadAdvances`, the safety half of `UnloadCompletesOutsideLoss`: once the stop has not been lost, each step lowers
  `UnloadRank`, which counts the nested `run()`s and the steps to the return of the innermost. What a proof cannot add is
  that the steps are taken: that is fairness, and TLC's part.

*`ExtensionProofs`*: `NoConnectionForgotten`, which is inductive as it stands: only `OnOpenHdl` makes a connection
unannounced, in the step that sets the flag; only `TestConnects` clears the flag, in the step that starts the forward. The
client's `IInv` is kept by every step of the game (`ExtInvariant`), so `ExtTypeOK` and the client's invariants hold in the
composition (`ClientKeptInExtension`). So do its properties of steps (`ClientStepsKeptInExtension`), except
`DowntimeIsBounded`, which `OnGameFrame` ends by clearing the restart request; the argument is that `OnGameFrame` never runs
beside `Shutdown`, since the hook is removed first (`Unhooked`). `ExtensionIsMailbox` proves the refinement of `Mailbox`,
step by step.

*`KMessageProofs`*: `TypeOK`, and with the assumption `ShortKeys` (no key is cut, which `long_key` shows to be needed)
`CursorOnArray` and `IterationVisitsAll`. The first step is a lemma on assignment: writing back what is there leaves every
other value, and an array stays one. The invariant says that a loop has seen all indices up to the cursor, and that the
cursor is inside the array unless it is at 0, since the loop's reads add nothing beyond it.

*`KMessageMapProofs`*: `ImplementsMap` and `ReadsBackWrites`, without `ShortKeys`. A place is one, two or three steps
from the top, so what an assignment does to every place is shown by cases on the two lengths (`FirstAfter`,
`SecondAfter`, `ThirdAfter`), with no induction over data: it sets the place it names, clears the scalars below and
above it, and leaves all others (`WriteIsPut`). A read only makes what was absent, which holds no scalar
(`ReadIsStutter`). `CellsOK` is assumed: an int16 is no wider than an int32, and `WriteInt32` is given a cell.

*`MessageHandlesProofs`*: all five properties. The invariant adds that an object without a handle never gets one;
`AfterAdd` and `AfterFree` say what the two changes of the handle table do to the objects that are held.

*`HeartBeatProofs`*: all three properties, by linear arithmetic over one invariant: a stored time is past but for what the
clock was set back by (`TimesArePast`), not later than the last message taken (`StampIsOld`) and not earlier than the last
ping but for `ahead` (`PingIsStamped`); the silence that the last run of the timer left is within the interval
(`SilentSinceRun`). A ping refused for `m_bConnected` leaves no time behind. `PingsSpaced` counts it nevertheless, so the
invariant also says why the next connection is right again: `OnOpen` takes the time after every such ping and before it
makes the timer.

Model-checked only: the liveness properties (`Reconnects`, `UnloadCompletesOutsideLoss`, `BadUrlEndsThread`,
`MessagesAreDelivered`, `ConnectionsAreAnnounced`, `RestartIsCommanded`, `QueueFollowsTraffic`), because fairness and
`ENABLED` are out of the prover's reach; and the five runs that end in a violation.

## Not modelled

- **Third-party code** beyond what is said above: websocketpp, Boost.Asio, JsonCpp and SourceMod are modelled as the
  extension uses them. `src/` holds all of Boost, websocketpp and JsonCpp, over 2.7 million lines; the extension itself is
  about 1,750. So `map` covers most of the extension and a negligible share of the tree.
- **Which texts parse as JSON**, and number and text formats: constants (`Parsable`, `Poison`) and model values.
- **`JsonString`**: the text of a message is a model value in `WebSocketClient`; that plugins can build the same text twice,
  and `m_bQueue` then keeps one, follows from it being a set.
- **The composition of `HeartBeat`, `KMessage` and `MessageHandles` with the client**: each shares with it only what its
  environment may do at any time (a send, a received message), and composing them is beyond TLC.
- Console and log output, the build, `smsdk_ext`.

What could follow: a statement of the order in which plugins see a connection and its messages, if the plugin interface
ever promises one.
